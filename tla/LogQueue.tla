------------------------------ MODULE LogQueue -------------------------------
(***************************************************************************)
(* What a channel promises to those who log into it and to the devices     *)
(* behind it, without rings, marks or threads.                             *)
(*                                                                         *)
(* A cell is reserved before its record exists, and filled later, in any   *)
(* order.  Records reach the devices from the filled cells that no unfilled *)
(* cell precedes: exactly once each, unchanged, and, where one thread does *)
(* the delivering, in the order in which the cells were reserved.  Room is *)
(* given back in that order too, from the delivered cells at the front.    *)
(***************************************************************************)
EXTENDS Sequences, Naturals

CONSTANTS
  Data,      \* what a record can say
  NoData,    \* what the devices have seen before the first record
  Capacity,  \* how many cells there are
  Ordered    \* one thread delivers

VARIABLES
  queue,     \* the cells in use
  out        \* the last record delivered

Pending   == [state |-> "pending", data |-> NoData]
Filled(d) == [state |-> "filled", data |-> d]
Delivered == [state |-> "delivered", data |-> NoData]

Init == queue = <<>> /\ out = NoData

Reserve ==
  /\ Len(queue) < Capacity
  /\ queue' = Append(queue, Pending)
  /\ UNCHANGED out

Commit ==
  \E k \in DOMAIN queue, d \in Data :
    /\ queue[k] = Pending
    /\ queue' = [queue EXCEPT ![k] = Filled(d)]
    /\ UNCHANGED out

Deliver ==
  \E k \in DOMAIN queue, d \in Data :
    /\ queue[k] = Filled(d)
    /\ \A j \in 1 .. k - 1 :
         queue[j] # Pending /\ (Ordered => queue[j] = Delivered)
    /\ queue' = [queue EXCEPT ![k] = Delivered]
    /\ out' = d

GiveBack ==
  /\ queue # <<>> /\ Head(queue) = Delivered
  /\ queue' = Tail(queue)
  /\ UNCHANGED out

Next == Reserve \/ Commit \/ Deliver \/ GiveBack

Spec == Init /\ [][Next]_<<queue, out>>
=============================================================================
