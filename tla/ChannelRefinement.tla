-------------------------- MODULE ChannelRefinement --------------------------
(***************************************************************************)
(* A Channel is a LogQueue: the cells of the queue are the slots from      *)
(* read_idx to hold_idx; a cell is filled when its slot is marked ready,   *)
(* and delivered when a worker is past DispatchLog with it.                *)
(***************************************************************************)
EXTENDS Channel, Sequences

\* The slot k places from read_idx.
SlotAt(k) == IF read_idx + k < BUFFER_LEN THEN read_idx + k ELSE read_idx + k - BUFFER_LEN

\* A slot that a worker has taken and is no longer about to hand to the devices.
PastDispatch(i) ==
  /\ Dist(read_idx, i) < Dist(read_idx, proc_idx)
  /\ \A w \in Workers : ~(pc[w] = "dispatch" /\ log[w] = i)

Cell(i) ==
  IF PastDispatch(i) THEN [state |-> "delivered", data |-> NoData]
  ELSE IF data_mark[i] = "READY" THEN [state |-> "filled", data |-> content[i]]
  ELSE [state |-> "pending", data |-> NoData]

Cells == [k \in 1 .. Dist(read_idx, hold_idx) |-> Cell(SlotAt(k - 1))]

Queue ==
  INSTANCE LogQueue WITH queue <- Cells, Capacity <- BUFFER_LEN - 1, Ordered <- ~Sync

\* The channel implements the queue: whatever the producers, the workers and
\* StopLogger do in between, no record is lost, changed, delivered twice or
\* delivered before an earlier record is complete, an async channel delivers in the
\* order in which HoldChannel handed out the slots, and a slot is handed out again
\* only after its record and all before it were delivered.
ImplementsQueue == Queue!Spec
=============================================================================
