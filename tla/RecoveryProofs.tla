--------------------------- MODULE RecoveryProofs ---------------------------
(***************************************************************************)
(* Proofs about Recovery, for any number of producers, any ring, any       *)
(* number of records, crashes and stops, on the heap or in shared memory,  *)
(* where StopLogger is called while nobody logs.                           *)
(***************************************************************************)
EXTENDS Recovery, FiniteSetTheorems, TLAPS

TypeOK ==
  /\ shared \in BOOLEAN
  /\ phase \in {"down", "running", "closing", "clean_read", "clean_proc", "clean_write",
                "clean_hold", "stopped", "create", "recover", "recover_next"}
  /\ hold_idx \in Slots /\ write_idx \in Slots /\ proc_idx \in Slots /\ read_idx \in Slots
  /\ data_mark \in [Slots -> 0 .. 2]
  /\ cell \in [Slots -> Cells]
  /\ pc \in [Producers -> {"idle", "claimed", "filling", "publish"}]
  /\ mine \in [Producers -> [slot : Slots, rec : 0 .. MaxRecords]]
  /\ worker \in {"idle", "taken", "dispatched", "released"}
  /\ issued \in 0 .. MaxRecords
  /\ committed \subseteq Records
  /\ out \in Cells

\* How far slot j lies ahead of slot i; the slots that are claimed and not published;
\* those that are not free.
Ahead(i, j) == IF i <= j THEN j - i ELSE j + BUFFER_LEN - i
Claimed(s) == Ahead(write_idx, s) < Ahead(write_idx, hold_idx)
InUse(s)   == Ahead(read_idx, s) < Ahead(read_idx, hold_idx)

\* A record in the making, or what is left of one.
Half(s) == cell[s].rec # 0 /\ ~cell[s].tagged /\ ~cell[s].whole

\* Producers log only while the logger runs: nobody stops it under their hands.
Undisturbed == ~Running => \A p \in Producers : pc[p] = "idle"

\* The thread works on the slot at read_idx_; between two slots proc_idx_ is read_idx_.
Working ==
  /\ ~Alive \/ phase \notin {"running", "closing"} => worker = "idle"
  /\ phase \in {"running", "closing"} =>
       IF worker = "idle" THEN proc_idx = read_idx
       ELSE proc_idx = Next1(read_idx) /\ read_idx # write_idx
  /\ worker = "released" => data_mark[read_idx] = 0

\* Publication never overtakes the claims, in whatever state a crash leaves the indices.
Ordered == Ahead(read_idx, write_idx) <= Ahead(read_idx, hold_idx)

\* A free slot bears no mark, or its next user would be taken to be ready.
FreeUnmarked == \A s \in Slots : ~InUse(s) => data_mark[s] = 0

\* What CleanChannels finds, and what each of its stores leaves to the next.
Cleaning ==
  /\ phase = "closing" => write_idx = hold_idx
  /\ phase = "clean_read" => read_idx = hold_idx /\ write_idx = hold_idx
  /\ phase \in {"clean_proc", "clean_write", "clean_hold", "stopped", "create"} =>
       read_idx = 0 /\ \A s \in Slots : data_mark[s] = 0
  /\ phase \in {"clean_proc", "clean_write"} => write_idx = hold_idx
  /\ phase \in {"clean_write", "clean_hold", "stopped", "create"} => proc_idx = 0
  /\ phase \in {"clean_hold", "stopped", "create"} => write_idx = 0
  /\ phase \in {"stopped", "create"} => hold_idx = 0
  /\ phase = "recover_next" => write_idx # hold_idx

\* Half a record lies only where the recovery will tag it, and no half record is marked
\* ready while producers may publish.
HalfHidden ==
  \A s \in Slots : Half(s) =>
    /\ Claimed(s)
    /\ Running => data_mark[s] # 2
    /\ phase = "recover_next" => s # write_idx
    /\ phase # "clean_hold"

\* A claimed slot that is not ready has a producer, and a producer has a slot of its own.
Owned ==
  /\ Running => \A s \in Slots : Claimed(s) /\ data_mark[s] # 2 =>
       \E p \in Producers : pc[p] \in {"claimed", "filling"} /\ mine[p].slot = s
  /\ \A p \in Producers : pc[p] \in {"claimed", "filling"} =>
       /\ Claimed(mine[p].slot)
       /\ data_mark[mine[p].slot] = IF pc[p] = "claimed" THEN 0 ELSE 1
       /\ mine[p].rec # 0
       /\ pc[p] = "filling" => cell[mine[p].slot].rec = mine[p].rec
       /\ \A q \in Producers : pc[q] \in {"claimed", "filling"} /\ mine[q].slot = mine[p].slot
             => q = p

\* A slot that is ready and not published has somebody about to publish it.
Published ==
  Running /\ write_idx # hold_idx /\ data_mark[write_idx] = 2 =>
    \E p \in Producers : pc[p] = "publish"

\* A whole record was committed.
WholeCommitted ==
  \A s \in Slots : cell[s].whole /\ cell[s].rec # 0 /\ ~cell[s].tagged => cell[s].rec \in committed

Inv ==
  /\ TypeOK
  /\ Undisturbed
  /\ Working
  /\ Ordered
  /\ FreeUnmarked
  /\ Cleaning
  /\ HalfHidden
  /\ Owned
  /\ Published
  /\ WholeCommitted
  /\ UntaggedIsWhole

\* Claimed, after the step.
ClaimedNext(s) == Ahead(write_idx', s) < Ahead(write_idx', hold_idx')

----------------------------------------------------------------------------
(* The ring                                                                *)

LEMMA NextSlot ==
  \A i \in Slots : Next1(i) \in Slots /\ Next1(i) = IF i + 1 = BUFFER_LEN THEN 0 ELSE i + 1
BY RecoveryAssumption DEF Slots, Next1

\* The thread's slot is the one at read_idx_.
LEMMA TakenIsRead ==
  ASSUME NEW i \in Slots, proc_idx = Next1(i)
  PROVE  Taken = i
<1> USE RecoveryAssumption DEF Slots
<1>1. CASE i + 1 = BUFFER_LEN
  <2>1. proc_idx = 0  BY <1>1, NextSlot
  <2> QED  BY <1>1, <2>1 DEF Taken
<1>2. CASE i + 1 # BUFFER_LEN
  <2>1. proc_idx = i + 1  BY <1>2, NextSlot
  <2>2. Taken = (i + BUFFER_LEN) % BUFFER_LEN  BY <2>1 DEF Taken
  <2> QED  BY <2>2
<1> QED  BY <1>1, <1>2

\* An empty range holds no slot.
LEMMA NoneAhead ==
  \A i, s \in Slots : ~(Ahead(i, s) < Ahead(i, i))
BY RecoveryAssumption DEF Slots, Ahead

\* Claiming the slot at hold_idx_, publishing the one at write_idx_, giving back the one
\* at read_idx_.
LEMMA ClaimOne ==
  ASSUME NEW r \in Slots, NEW h \in Slots, Next1(h) # r
  PROVE  /\ Ahead(r, Next1(h)) = Ahead(r, h) + 1
         /\ \A s \in Slots : Ahead(r, s) < Ahead(r, Next1(h)) <=> Ahead(r, s) < Ahead(r, h) \/ s = h
BY RecoveryAssumption, NextSlot DEF Slots, Ahead

LEMMA PassOne ==
  ASSUME NEW w \in Slots, NEW h \in Slots, w # h
  PROVE  \A s \in Slots :
           Ahead(Next1(w), s) < Ahead(Next1(w), h) <=> Ahead(w, s) < Ahead(w, h) /\ s # w
BY RecoveryAssumption, NextSlot DEF Slots, Ahead

\* write_idx_ stays between read_idx_ and hold_idx_ when any of the three moves on.
LEMMA Between ==
  ASSUME NEW r \in Slots, NEW w \in Slots, NEW h \in Slots, Ahead(r, w) <= Ahead(r, h)
  PROVE  /\ Next1(h) # r => Ahead(r, w) <= Ahead(r, Next1(h))
         /\ w # h => Ahead(r, Next1(w)) <= Ahead(r, h)
         /\ r # w => Ahead(Next1(r), w) <= Ahead(Next1(r), h)
         /\ \A s \in Slots : Ahead(w, s) < Ahead(w, h) => Ahead(r, s) < Ahead(r, h)
         /\ r # w => ~(Ahead(w, r) < Ahead(w, h))
         /\ r # w => r # h
         /\ w # h => Next1(w) # r
         /\ Next1(h) # r => Next1(h) # w
BY RecoveryAssumption, NextSlot DEF Slots, Ahead
----------------------------------------------------------------------------

-----------------------------------------------------------------------------
(* Every step keeps each part of the invariant.                            *)

LEMMA TypeStep ==
  ASSUME InFlightStop = FALSE, Inv, [Next]_vars
  PROVE  TypeOK'
<1> USE RecoveryAssumption, NextSlot DEF TypeOK, Slots
<1>1. ASSUME NEW p \in Producers, Claim(p) PROVE TypeOK'
  <2>1. issued + 1 \in 0 .. MaxRecords  BY <1>1 DEF Inv, Claim
  <2>2. [slot |-> hold_idx, rec |-> issued + 1] \in [slot : Slots, rec : 0 .. MaxRecords]
    BY <2>1 DEF Inv
  <2>3. mine' \in [Producers -> [slot : Slots, rec : 0 .. MaxRecords]]
    BY <1>1, <2>2 DEF Inv, Claim
  <2> QED  BY <1>1, <2>1, <2>3 DEF Inv, Claim, history
<1>2. ASSUME NEW p \in Producers, Fill(p) PROVE TypeOK'
  <2>1. [rec |-> mine[p].rec, whole |-> FALSE, tagged |-> FALSE] \in Cells  BY DEF Inv, Cells
  <2> QED  BY <1>2, <2>1 DEF Inv, Fill, bounds, index, history
<1>3. ASSUME NEW p \in Producers, Ready(p) PROVE TypeOK'
  <2>1. [cell[mine[p].slot] EXCEPT !.whole = cell[mine[p].slot].rec = mine[p].rec] \in Cells
    BY DEF Inv, Cells
  <2>2. pc[p] \in {"claimed", "filling"} => mine[p].rec \in Records
    BY DEF Inv, Owned, Records
  <2>3. cell' \in [Slots -> Cells]
    <3>1. PICK c \in Cells :
          c = [cell[mine[p].slot] EXCEPT !.whole = cell[mine[p].slot].rec = mine[p].rec]
      BY <2>1
    <3>2. cell' = [cell EXCEPT ![mine[p].slot] = c] \/ UNCHANGED cell  BY <1>3, <3>1 DEF Ready
    <3> QED  BY <3>1, <3>2 DEF Inv
  <2>4. data_mark' \in [Slots -> 0 .. 2] /\ committed' \subseteq Records
    <3>1. mine[p].rec \in Records  BY <1>3, <2>2 DEF Ready
    <3>2. CASE Running
      <4>1. /\ data_mark' = [data_mark EXCEPT ![mine[p].slot] = 2]
            /\ committed' = committed \cup {mine[p].rec}
        BY <1>3, <3>2 DEF Ready
      <4> QED  BY <3>1, <4>1 DEF Inv
    <3>3. CASE ~Running  BY <1>3, <3>3 DEF Inv, Ready
    <3> QED  BY <3>2, <3>3
  <2>5. pc' \in [Producers -> {"idle", "claimed", "filling", "publish"}]
    BY <1>3 DEF Inv, Ready
  <2> QED  BY <1>3, <2>3, <2>4, <2>5 DEF Inv, Ready, bounds, index
<1>4. ASSUME NEW p \in Producers, Publish(p) PROVE TypeOK'
  BY <1>4 DEF Inv, history, bounds, Publish
<1>5. ASSUME Take PROVE TypeOK'
  BY <1>5 DEF Inv, history, bounds, Take
<1>6. ASSUME Dispatch PROVE TypeOK'
  <2>1. Taken \in Slots
    BY <1>6, TakenIsRead DEF Inv, Dispatch, Working
  <2> QED  BY <1>6, <2>1 DEF Inv, Dispatch, bounds, index
<1>7. ASSUME Release PROVE TypeOK'
  <2>1. Taken \in Slots
    BY <1>7, TakenIsRead DEF Inv, Release, Working
  <2> QED  BY <1>7, <2>1 DEF Inv, Release, bounds, index, history
<1>8. ASSUME GiveBack PROVE TypeOK'
  BY <1>8 DEF Inv, history, bounds, GiveBack
<1>9. ASSUME StopAsk PROVE TypeOK'
  BY <1>9 DEF Inv, index, history, StopAsk
<1>10. ASSUME Join PROVE TypeOK'
  BY <1>10 DEF Inv, index, history, bounds, Join
<1>11. ASSUME CleanRead PROVE TypeOK'
  BY <1>11 DEF Inv, history, bounds, CleanRead
<1>12. ASSUME CleanProc PROVE TypeOK'
  BY <1>12 DEF Inv, history, bounds, CleanProc
<1>13. ASSUME CleanWrite PROVE TypeOK'
  BY <1>13 DEF Inv, history, bounds, CleanWrite
<1>14. ASSUME CleanHold PROVE TypeOK'
  BY <1>14 DEF Inv, history, bounds, CleanHold
<1>15. ASSUME StartAgain PROVE TypeOK'
  BY <1>15 DEF Inv, index, history, bounds, StartAgain
<1>16. ASSUME Exit PROVE TypeOK'
  BY <1>16 DEF Inv, history, bounds, Exit, Zeroed, Blank, Cells
<1>17. ASSUME StartHeap PROVE TypeOK'
  BY <1>17 DEF Inv, history, bounds, StartHeap, Zeroed, Blank, Cells
<1>18. ASSUME Create PROVE TypeOK'
  BY <1>18 DEF Inv, history, bounds, Create, Zeroed, Blank, Cells
<1>19. ASSUME Stamp PROVE TypeOK'
  BY <1>19 DEF Inv, index, history, bounds, Stamp
<1>20. ASSUME Attach PROVE TypeOK'
  BY <1>20 DEF Inv, index, history, bounds, Attach
<1>21. ASSUME RecoverSlot PROVE TypeOK'
  <2>1. [cell[write_idx] EXCEPT !.tagged = TRUE] \in Cells  BY DEF Inv, Cells
  <2>2. cell' = [cell EXCEPT ![write_idx] = [cell[write_idx] EXCEPT !.tagged = TRUE]]
    BY <1>21 DEF RecoverSlot
  <2>3. cell' \in [Slots -> Cells]  BY <2>1, <2>2 DEF Inv
  <2> QED  BY <1>21, <2>3 DEF Inv, RecoverSlot, bounds, index, history
<1>22. ASSUME RecoverNext PROVE TypeOK'
  BY <1>22 DEF Inv, history, bounds, RecoverNext
<1>23. ASSUME RecoverDone PROVE TypeOK'
  BY <1>23 DEF Inv, history, bounds, RecoverDone
<1>24. ASSUME Crash PROVE TypeOK'
  <2>1. [s \in Slots |-> Blank] \in [Slots -> Cells]  BY DEF Blank, Cells
  <2>2. [p \in Producers |-> [slot |-> 0, rec |-> 0]]
          \in [Producers -> [slot : Slots, rec : 0 .. MaxRecords]]
    OBVIOUS
  <2>3. /\ hold_idx' \in Slots /\ write_idx' \in Slots /\ proc_idx' \in Slots /\ read_idx' \in Slots
        /\ data_mark' \in [Slots -> 0 .. 2] /\ cell' \in [Slots -> Cells]
    <3>1. CASE shared   BY <1>24, <3>1 DEF Inv, Crash, index
    <3>2. CASE ~shared
      <4>1. Zeroed  BY <1>24, <3>2 DEF Crash
      <4> QED  BY <2>1, <4>1 DEF Zeroed
    <3> QED  BY <3>1, <3>2
  <2> QED  BY <1>24, <2>2, <2>3 DEF Inv, Crash, history
<1>25. ASSUME UNCHANGED vars PROVE TypeOK'
  BY <1>25 DEF Inv, index, history, bounds, vars
<1> QED
  BY <1>1, <1>2, <1>3, <1>4, <1>5, <1>6, <1>7, <1>8, <1>9, <1>10, <1>11, <1>12, <1>13,
     <1>14, <1>15, <1>16, <1>17, <1>18, <1>19, <1>20, <1>21, <1>22, <1>23, <1>24, <1>25
     DEF Next, Produce, Work, Clean, Load

\* StopAsk waits for idle producers, and a crash takes them along.
LEMMA UndisturbedStep ==
  ASSUME InFlightStop = FALSE, Inv, [Next]_vars
  PROVE  Undisturbed'
<1> USE RecoveryAssumption, NextSlot DEF Undisturbed, Running, TypeOK
<1>1. ASSUME NEW p \in Producers, Claim(p) PROVE Undisturbed'
  BY <1>1 DEF Inv, Claim
<1>2. ASSUME NEW p \in Producers, Fill(p) PROVE Undisturbed'
  BY <1>2 DEF Inv, Fill
<1>3. ASSUME NEW p \in Producers, Ready(p) PROVE Undisturbed'
  BY <1>3 DEF Inv, Ready
<1>4. ASSUME NEW p \in Producers, Publish(p) PROVE Undisturbed'
  BY <1>4 DEF Inv, Publish
<1>5. ASSUME Take PROVE Undisturbed'
  BY <1>5 DEF Inv, Take
<1>6. ASSUME Dispatch PROVE Undisturbed'
  BY <1>6 DEF Inv, Dispatch
<1>7. ASSUME Release PROVE Undisturbed'
  BY <1>7 DEF Inv, Release
<1>8. ASSUME GiveBack PROVE Undisturbed'
  BY <1>8 DEF Inv, GiveBack
<1>9. ASSUME StopAsk PROVE Undisturbed'
  BY <1>9 DEF Inv, StopAsk
<1>10. ASSUME Join PROVE Undisturbed'
  BY <1>10 DEF Inv, Join
<1>11. ASSUME CleanRead PROVE Undisturbed'
  BY <1>11 DEF Inv, CleanRead
<1>12. ASSUME CleanProc PROVE Undisturbed'
  BY <1>12 DEF Inv, CleanProc
<1>13. ASSUME CleanWrite PROVE Undisturbed'
  BY <1>13 DEF Inv, CleanWrite
<1>14. ASSUME CleanHold PROVE Undisturbed'
  BY <1>14 DEF Inv, CleanHold
<1>15. ASSUME StartAgain PROVE Undisturbed'
  BY <1>15 DEF Inv, StartAgain
<1>16. ASSUME Exit PROVE Undisturbed'
  BY <1>16 DEF Inv, Exit
<1>17. ASSUME StartHeap PROVE Undisturbed'
  BY <1>17 DEF Inv, StartHeap
<1>18. ASSUME Create PROVE Undisturbed'
  BY <1>18 DEF Inv, Create
<1>19. ASSUME Stamp PROVE Undisturbed'
  BY <1>19 DEF Inv, Stamp
<1>20. ASSUME Attach PROVE Undisturbed'
  BY <1>20 DEF Inv, Attach
<1>21. ASSUME RecoverSlot PROVE Undisturbed'
  BY <1>21 DEF Inv, RecoverSlot
<1>22. ASSUME RecoverNext PROVE Undisturbed'
  BY <1>22 DEF Inv, RecoverNext
<1>23. ASSUME RecoverDone PROVE Undisturbed'
  BY <1>23 DEF Inv, RecoverDone
<1>24. ASSUME Crash PROVE Undisturbed'
  BY <1>24 DEF Inv, Crash
<1>25. ASSUME UNCHANGED vars PROVE Undisturbed'
  BY <1>25 DEF Inv, vars
<1> QED
  BY <1>1, <1>2, <1>3, <1>4, <1>5, <1>6, <1>7, <1>8, <1>9, <1>10, <1>11, <1>12, <1>13,
     <1>14, <1>15, <1>16, <1>17, <1>18, <1>19, <1>20, <1>21, <1>22, <1>23, <1>24, <1>25
     DEF Next, Produce, Work, Clean, Load

\* What moves an index stops at the next one; CleanChannels finds an empty ring.
LEMMA OrderedStep ==
  ASSUME InFlightStop = FALSE, Inv, [Next]_vars
  PROVE  Ordered'
<1> USE RecoveryAssumption, NextSlot DEF Ordered, TypeOK
<1>1. ASSUME NEW p \in Producers, Claim(p) PROVE Ordered'
  BY <1>1, Between DEF Inv, Claim
<1>2. ASSUME NEW p \in Producers, Fill(p) PROVE Ordered'
  BY <1>2 DEF Inv, index, Fill
<1>3. ASSUME NEW p \in Producers, Ready(p) PROVE Ordered'
  BY <1>3 DEF Inv, index, Ready
<1>4. ASSUME NEW p \in Producers, Publish(p) PROVE Ordered'
  BY <1>4, Between DEF Inv, Publish
<1>5. ASSUME Take PROVE Ordered'
  BY <1>5 DEF Inv, Take
<1>6. ASSUME Dispatch PROVE Ordered'
  BY <1>6 DEF Inv, index, Dispatch
<1>7. ASSUME Release PROVE Ordered'
  BY <1>7 DEF Inv, index, Release
<1>8. ASSUME GiveBack PROVE Ordered'
  BY <1>8, Between DEF Inv, GiveBack, Working
<1>9. ASSUME StopAsk PROVE Ordered'
  BY <1>9 DEF Inv, index, StopAsk
<1>10. ASSUME Join PROVE Ordered'
  BY <1>10 DEF Inv, index, Join
<1>11. ASSUME CleanRead PROVE Ordered'
  BY <1>11 DEF Inv, CleanRead, Cleaning, Ahead, Slots
<1>12. ASSUME CleanProc PROVE Ordered'
  BY <1>12 DEF Inv, CleanProc
<1>13. ASSUME CleanWrite PROVE Ordered'
  BY <1>13 DEF Inv, CleanWrite, Cleaning, Ahead, Slots
<1>14. ASSUME CleanHold PROVE Ordered'
  BY <1>14 DEF Inv, CleanHold, Cleaning, Ahead, Slots
<1>15. ASSUME StartAgain PROVE Ordered'
  BY <1>15 DEF Inv, index, StartAgain
<1>16. ASSUME Exit PROVE Ordered'
  BY <1>16 DEF Inv, Exit, Zeroed, Ahead, Slots
<1>17. ASSUME StartHeap PROVE Ordered'
  BY <1>17 DEF Inv, StartHeap, Zeroed, Ahead, Slots
<1>18. ASSUME Create PROVE Ordered'
  BY <1>18 DEF Inv, Create, Zeroed, Ahead, Slots
<1>19. ASSUME Stamp PROVE Ordered'
  BY <1>19 DEF Inv, index, Stamp
<1>20. ASSUME Attach PROVE Ordered'
  BY <1>20 DEF Inv, index, Attach
<1>21. ASSUME RecoverSlot PROVE Ordered'
  BY <1>21 DEF Inv, index, RecoverSlot
<1>22. ASSUME RecoverNext PROVE Ordered'
  BY <1>22, Between DEF Inv, RecoverNext, Cleaning
<1>23. ASSUME RecoverDone PROVE Ordered'
  BY <1>23 DEF Inv, RecoverDone
<1>24. ASSUME Crash PROVE Ordered'
  <2>1. CASE shared   BY <1>24, <2>1 DEF Inv, Crash, index
  <2>2. CASE ~shared  BY <1>24, <2>2 DEF Inv, Crash, Zeroed, Ahead, Slots
  <2> QED  BY <2>1, <2>2
<1>25. ASSUME UNCHANGED vars PROVE Ordered'
  BY <1>25 DEF Inv, index, vars
<1> QED
  BY <1>1, <1>2, <1>3, <1>4, <1>5, <1>6, <1>7, <1>8, <1>9, <1>10, <1>11, <1>12, <1>13,
     <1>14, <1>15, <1>16, <1>17, <1>18, <1>19, <1>20, <1>21, <1>22, <1>23, <1>24, <1>25
     DEF Next, Produce, Work, Clean, Load

\* The slot the thread works on is published, so no producer touches it.
LEMMA WorkingStep ==
  ASSUME InFlightStop = FALSE, Inv, [Next]_vars
  PROVE  Working'
<1> USE RecoveryAssumption, NextSlot DEF Working, TypeOK, Alive
<1>1. ASSUME NEW p \in Producers, Claim(p) PROVE Working'
  <2>1. worker' = worker /\ phase' = phase /\ read_idx' = read_idx /\ proc_idx' = proc_idx
        /\ write_idx' = write_idx /\ data_mark' = data_mark
    BY <1>1 DEF Claim
  <2> QED  BY <2>1 DEF Inv
<1>2. ASSUME NEW p \in Producers, Fill(p) PROVE Working'
  <2>1. worker' = worker /\ phase' = phase /\ read_idx' = read_idx /\ proc_idx' = proc_idx
        /\ write_idx' = write_idx
        /\ data_mark' = [data_mark EXCEPT ![mine[p].slot] = 1]
    BY <1>2 DEF Fill, index
  <2>2. worker = "released" => mine[p].slot # read_idx
    BY <1>2, Between DEF Inv, Owned, Claimed, Ordered, Fill
  <2> QED  BY <2>1, <2>2 DEF Inv
<1>3. ASSUME NEW p \in Producers, Ready(p) PROVE Working'
  <2>1. worker' = worker /\ phase' = phase /\ read_idx' = read_idx /\ proc_idx' = proc_idx
        /\ write_idx' = write_idx
        /\ (data_mark' = [data_mark EXCEPT ![mine[p].slot] = 2] \/ UNCHANGED data_mark)
    BY <1>3 DEF Ready, index
  <2>2. worker = "released" => mine[p].slot # read_idx
    BY <1>3 DEF Inv, Owned, Claimed, Ordered, Ready
  <2> QED  BY <2>1, <2>2 DEF Inv
<1>4. ASSUME NEW p \in Producers, Publish(p) PROVE Working'
  <2>1. worker' = worker /\ phase' = phase /\ read_idx' = read_idx /\ proc_idx' = proc_idx
        /\ data_mark' = data_mark
        /\ (write_idx' = write_idx \/ (write_idx' = Next1(write_idx) /\ write_idx # hold_idx))
    BY <1>4 DEF Publish
  <2>2. worker # "idle" => read_idx # write_idx'
    <3>1. worker # "idle" => read_idx # write_idx  BY DEF Inv
    <3>2. write_idx # hold_idx => Next1(write_idx) # read_idx
      BY Between DEF Inv, Ordered
    <3> QED  BY <2>1, <3>1, <3>2
  <2> QED  BY <2>1, <2>2 DEF Inv
<1>5. ASSUME Take PROVE Working'
  BY <1>5 DEF Inv, Take
<1>6. ASSUME Dispatch PROVE Working'
  BY <1>6 DEF Inv, Dispatch, index
<1>7. ASSUME Release PROVE Working'
  <2>1. Taken = read_idx
    BY <1>7, TakenIsRead DEF Inv, Release
  <2> QED  BY <1>7, <2>1 DEF Inv, Release, index
<1>8. ASSUME GiveBack PROVE Working'
  BY <1>8 DEF Inv, GiveBack
<1>9. ASSUME StopAsk PROVE Working'
  BY <1>9 DEF Inv, index, StopAsk, Running
<1>10. ASSUME Join PROVE Working'
  BY <1>10 DEF Inv, Join
<1>11. ASSUME CleanRead PROVE Working'
  BY <1>11 DEF Inv, CleanRead
<1>12. ASSUME CleanProc PROVE Working'
  BY <1>12 DEF Inv, CleanProc
<1>13. ASSUME CleanWrite PROVE Working'
  BY <1>13 DEF Inv, CleanWrite
<1>14. ASSUME CleanHold PROVE Working'
  BY <1>14 DEF Inv, CleanHold
<1>15. ASSUME StartAgain PROVE Working'
  BY <1>15 DEF Inv, index, StartAgain, Cleaning
<1>16. ASSUME Exit PROVE Working'
  BY <1>16 DEF Inv, Exit
<1>17. ASSUME StartHeap PROVE Working'
  BY <1>17 DEF Inv, StartHeap, Zeroed
<1>18. ASSUME Create PROVE Working'
  BY <1>18 DEF Inv, Create
<1>19. ASSUME Stamp PROVE Working'
  BY <1>19 DEF Inv, Stamp
<1>20. ASSUME Attach PROVE Working'
  BY <1>20 DEF Inv, Attach
<1>21. ASSUME RecoverSlot PROVE Working'
  BY <1>21 DEF Inv, RecoverSlot
<1>22. ASSUME RecoverNext PROVE Working'
  BY <1>22 DEF Inv, RecoverNext
<1>23. ASSUME RecoverDone PROVE Working'
  BY <1>23 DEF Inv, RecoverDone
<1>24. ASSUME Crash PROVE Working'
  BY <1>24 DEF Inv, Crash
<1>25. ASSUME UNCHANGED vars PROVE Working'
  BY <1>25 DEF Inv, index, vars
<1> QED
  BY <1>1, <1>2, <1>3, <1>4, <1>5, <1>6, <1>7, <1>8, <1>9, <1>10, <1>11, <1>12, <1>13,
     <1>14, <1>15, <1>16, <1>17, <1>18, <1>19, <1>20, <1>21, <1>22, <1>23, <1>24, <1>25
     DEF Next, Produce, Work, Clean, Load

\* A mark is set on claimed or published slots only, and cleared before GiveBack.
LEMMA FreeStep ==
  ASSUME InFlightStop = FALSE, Inv, [Next]_vars
  PROVE  FreeUnmarked'
<1> USE RecoveryAssumption, NextSlot DEF FreeUnmarked, InUse, TypeOK
<1>1. ASSUME NEW p \in Producers, Claim(p) PROVE FreeUnmarked'
  <2>1. /\ hold_idx' = Next1(hold_idx) /\ Next1(hold_idx) # read_idx
        /\ read_idx' = read_idx /\ data_mark' = data_mark
    BY <1>1 DEF Claim
  <2> QED  BY <2>1, ClaimOne DEF Inv
<1>2. ASSUME NEW p \in Producers, Fill(p) PROVE FreeUnmarked'
  <2>1. /\ hold_idx' = hold_idx /\ read_idx' = read_idx
        /\ data_mark' = [data_mark EXCEPT ![mine[p].slot] = 1]
    BY <1>2 DEF Fill, index
  <2>2. InUse(mine[p].slot)  BY <1>2, Between DEF Inv, Owned, Claimed, Ordered, Fill
  <2> QED  BY <2>1, <2>2 DEF Inv
<1>3. ASSUME NEW p \in Producers, Ready(p) PROVE FreeUnmarked'
  <2>1. /\ hold_idx' = hold_idx /\ read_idx' = read_idx
        /\ (data_mark' = [data_mark EXCEPT ![mine[p].slot] = 2] \/ UNCHANGED data_mark)
    BY <1>3 DEF Ready, index
  <2>2. InUse(mine[p].slot)  BY <1>3 DEF Inv, Owned, Claimed, Ordered, Ready
  <2> QED  BY <2>1, <2>2 DEF Inv
<1>4. ASSUME NEW p \in Producers, Publish(p) PROVE FreeUnmarked'
  BY <1>4 DEF Inv, Publish
<1>5. ASSUME Take PROVE FreeUnmarked'
  BY <1>5 DEF Inv, Take
<1>6. ASSUME Dispatch PROVE FreeUnmarked'
  BY <1>6 DEF Inv, index, Dispatch
<1>7. ASSUME Release PROVE FreeUnmarked'
  <2>1. Taken = read_idx  BY <1>7, TakenIsRead DEF Inv, Release, Working
  <2> QED  BY <1>7, <2>1 DEF Inv, Release, index
<1>8. ASSUME GiveBack PROVE FreeUnmarked'
  <2>1. /\ hold_idx' = hold_idx /\ read_idx' = Next1(read_idx) /\ data_mark' = data_mark
        /\ data_mark[read_idx] = 0 /\ read_idx # write_idx
    BY <1>8 DEF Inv, GiveBack, Working
  <2>2. read_idx # hold_idx  BY <2>1, Between DEF Inv, Ordered
  <2> QED  BY <2>1, <2>2, PassOne DEF Inv
<1>9. ASSUME StopAsk PROVE FreeUnmarked'
  BY <1>9 DEF Inv, index, StopAsk
<1>10. ASSUME Join PROVE FreeUnmarked'
  BY <1>10 DEF Inv, index, Join
<1>11. ASSUME CleanRead PROVE FreeUnmarked'
  <2>1. \A s \in Slots : ~InUse(s)
    BY <1>11 DEF Inv, CleanRead, Cleaning, Ahead, Slots
  <2>2. \A s \in Slots : data_mark'[s] = 0  BY <1>11, <2>1 DEF Inv, CleanRead
  <2> QED  BY <2>2
<1>12. ASSUME CleanProc PROVE FreeUnmarked'
  BY <1>12 DEF Inv, CleanProc
<1>13. ASSUME CleanWrite PROVE FreeUnmarked'
  BY <1>13 DEF Inv, CleanWrite
<1>14. ASSUME CleanHold PROVE FreeUnmarked'
  BY <1>14 DEF Inv, CleanHold, Cleaning
<1>15. ASSUME StartAgain PROVE FreeUnmarked'
  BY <1>15 DEF Inv, index, StartAgain
<1>16. ASSUME Exit PROVE FreeUnmarked'
  BY <1>16 DEF Inv, Exit, Zeroed
<1>17. ASSUME StartHeap PROVE FreeUnmarked'
  BY <1>17 DEF Inv, StartHeap, Zeroed
<1>18. ASSUME Create PROVE FreeUnmarked'
  BY <1>18 DEF Inv, Create, Zeroed
<1>19. ASSUME Stamp PROVE FreeUnmarked'
  BY <1>19 DEF Inv, index, Stamp
<1>20. ASSUME Attach PROVE FreeUnmarked'
  BY <1>20 DEF Inv, index, Attach
<1>21. ASSUME RecoverSlot PROVE FreeUnmarked'
  <2>1. write_idx # hold_idx /\ hold_idx' = hold_idx /\ read_idx' = read_idx
        /\ data_mark' = [data_mark EXCEPT ![write_idx] = 2]
    BY <1>21 DEF RecoverSlot, index
  <2>2. Ahead(write_idx, write_idx) < Ahead(write_idx, hold_idx)
    BY <2>1 DEF Inv, Ahead, Slots
  <2>3. InUse(write_idx)  BY <2>2, Between DEF Inv, Ordered
  <2> QED  BY <2>1, <2>3 DEF Inv
<1>22. ASSUME RecoverNext PROVE FreeUnmarked'
  BY <1>22 DEF Inv, RecoverNext
<1>23. ASSUME RecoverDone PROVE FreeUnmarked'
  BY <1>23 DEF Inv, RecoverDone
<1>24. ASSUME Crash PROVE FreeUnmarked'
  <2>1. CASE shared   BY <1>24, <2>1 DEF Inv, Crash, index
  <2>2. CASE ~shared  BY <1>24, <2>2 DEF Inv, Crash, Zeroed
  <2> QED  BY <2>1, <2>2
<1>25. ASSUME UNCHANGED vars PROVE FreeUnmarked'
  BY <1>25 DEF Inv, index, vars
<1> QED
  BY <1>1, <1>2, <1>3, <1>4, <1>5, <1>6, <1>7, <1>8, <1>9, <1>10, <1>11, <1>12, <1>13,
     <1>14, <1>15, <1>16, <1>17, <1>18, <1>19, <1>20, <1>21, <1>22, <1>23, <1>24, <1>25
     DEF Next, Produce, Work, Clean, Load

\* When nobody logs, everything claimed is published; Join waits until it is dispatched.
LEMMA CleaningStep ==
  ASSUME InFlightStop = FALSE, Inv, [Next]_vars
  PROVE  Cleaning'
<1> USE RecoveryAssumption, NextSlot DEF Cleaning, TypeOK, Undisturbed, Running
<1>1. ASSUME NEW p \in Producers, Claim(p) PROVE Cleaning'
  BY <1>1 DEF Inv, Claim
<1>2. ASSUME NEW p \in Producers, Fill(p) PROVE Cleaning'
  BY <1>2 DEF Inv, Fill
<1>3. ASSUME NEW p \in Producers, Ready(p) PROVE Cleaning'
  BY <1>3 DEF Inv, Ready
<1>4. ASSUME NEW p \in Producers, Publish(p) PROVE Cleaning'
  BY <1>4 DEF Inv, Publish
<1>5. ASSUME Take PROVE Cleaning'
  BY <1>5 DEF Inv, Take
<1>6. ASSUME Dispatch PROVE Cleaning'
  BY <1>6 DEF Inv, index, Dispatch
<1>7. ASSUME Release PROVE Cleaning'
  <2>1. phase \in {"running", "closing"}  BY <1>7 DEF Inv, Release, Working
  <2>2. UNCHANGED <<phase, index>>  BY <1>7 DEF Release
  <2> QED  BY <2>1, <2>2 DEF Inv, index
<1>8. ASSUME GiveBack PROVE Cleaning'
  <2>1. phase \in {"running", "closing"}  BY <1>8 DEF Inv, GiveBack, Working
  <2>2. UNCHANGED <<phase, write_idx, hold_idx>>  BY <1>8 DEF GiveBack
  <2> QED  BY <2>1, <2>2 DEF Inv
<1>9. ASSUME StopAsk PROVE Cleaning'
  <2>1. /\ phase = "running" /\ phase' = "closing" /\ write_idx' = write_idx /\ hold_idx' = hold_idx
        /\ \A p \in Producers : pc[p] = "idle"
    BY <1>9 DEF StopAsk, index
  <2>2. Ahead(write_idx, write_idx) < Ahead(write_idx, hold_idx) <=> write_idx # hold_idx
    BY DEF Inv, Ahead, Slots
  <2>3. write_idx = hold_idx
    BY <2>1, <2>2 DEF Inv, Owned, Published, Claimed
  <2> QED  BY <2>1, <2>3
<1>10. ASSUME Join PROVE Cleaning'
  <2>1. proc_idx = read_idx  BY <1>10 DEF Inv, Join, Working
  <2> QED  BY <1>10, <2>1 DEF Inv, Join, index
<1>11. ASSUME CleanRead PROVE Cleaning'
  <2>1. \A s \in Slots : ~InUse(s)
    BY <1>11 DEF Inv, CleanRead, Cleaning, Ahead, Slots, InUse
  <2>2. \A s \in Slots : data_mark'[s] = 0
    BY <1>11, <2>1 DEF Inv, CleanRead, FreeUnmarked
  <2> QED  BY <1>11, <2>2 DEF Inv, CleanRead
<1>12. ASSUME CleanProc PROVE Cleaning'
  BY <1>12 DEF Inv, CleanProc
<1>13. ASSUME CleanWrite PROVE Cleaning'
  BY <1>13 DEF Inv, CleanWrite
<1>14. ASSUME CleanHold PROVE Cleaning'
  BY <1>14 DEF Inv, CleanHold
<1>15. ASSUME StartAgain PROVE Cleaning'
  BY <1>15 DEF Inv, StartAgain
<1>16. ASSUME Exit PROVE Cleaning'
  BY <1>16 DEF Inv, Exit, Zeroed
<1>17. ASSUME StartHeap PROVE Cleaning'
  BY <1>17 DEF Inv, StartHeap, Zeroed
<1>18. ASSUME Create PROVE Cleaning'
  BY <1>18 DEF Inv, Create, Zeroed
<1>19. ASSUME Stamp PROVE Cleaning'
  BY <1>19 DEF Inv, Stamp
<1>20. ASSUME Attach PROVE Cleaning'
  BY <1>20 DEF Inv, Attach
<1>21. ASSUME RecoverSlot PROVE Cleaning'
  BY <1>21 DEF Inv, index, RecoverSlot
<1>22. ASSUME RecoverNext PROVE Cleaning'
  BY <1>22 DEF Inv, RecoverNext
<1>23. ASSUME RecoverDone PROVE Cleaning'
  BY <1>23 DEF Inv, RecoverDone
<1>24. ASSUME Crash PROVE Cleaning'
  BY <1>24 DEF Inv, Crash
<1>25. ASSUME UNCHANGED vars PROVE Cleaning'
  BY <1>25 DEF Inv, index, vars
<1> QED
  BY <1>1, <1>2, <1>3, <1>4, <1>5, <1>6, <1>7, <1>8, <1>9, <1>10, <1>11, <1>12, <1>13,
     <1>14, <1>15, <1>16, <1>17, <1>18, <1>19, <1>20, <1>21, <1>22, <1>23, <1>24, <1>25
     DEF Next, Produce, Work, Clean, Load

\* Ready commits what it completes, and nothing else completes a record.
LEMMA WholeStep ==
  ASSUME InFlightStop = FALSE, Inv, [Next]_vars
  PROVE  WholeCommitted'
<1> USE RecoveryAssumption, NextSlot DEF WholeCommitted, TypeOK
<1>1. ASSUME NEW p \in Producers, Claim(p) PROVE WholeCommitted'
  BY <1>1 DEF Inv, history, Claim
<1>2. ASSUME NEW p \in Producers, Fill(p) PROVE WholeCommitted'
  <2>1. PICK d : d = [rec |-> mine[p].rec, whole |-> FALSE, tagged |-> FALSE]  OBVIOUS
  <2>2. cell' = [cell EXCEPT ![mine[p].slot] = d] /\ committed' = committed
    BY <1>2, <2>1 DEF Fill, history
  <2> QED  BY <2>1, <2>2 DEF Inv
<1>3. ASSUME NEW p \in Producers, Ready(p) PROVE WholeCommitted'
  <2>1. CASE ~Running  BY <1>3, <2>1 DEF Inv, Ready
  <2>2. CASE Running
    <3>1. PICK c \in Cells : c = cell[mine[p].slot]  BY DEF Inv
    <3>2. PICK d : d = [c EXCEPT !.whole = c.rec = mine[p].rec]  OBVIOUS
    <3>3. /\ cell' = [cell EXCEPT ![mine[p].slot] = d]
          /\ committed' = committed \cup {mine[p].rec}
      BY <1>3, <2>2, <3>1, <3>2 DEF Ready
    <3>4. d.rec = c.rec /\ (d.whole <=> c.rec = mine[p].rec)  BY <3>2 DEF Cells
    <3> QED  BY <3>3, <3>4 DEF Inv
  <2> QED  BY <2>1, <2>2
<1>4. ASSUME NEW p \in Producers, Publish(p) PROVE WholeCommitted'
  BY <1>4 DEF Inv, history, Publish
<1>5. ASSUME Take PROVE WholeCommitted'
  BY <1>5 DEF Inv, history, Take
<1>6. ASSUME Dispatch PROVE WholeCommitted'
  BY <1>6 DEF Inv, Dispatch
<1>7. ASSUME Release PROVE WholeCommitted'
  BY <1>7 DEF Inv, history, Release
<1>8. ASSUME GiveBack PROVE WholeCommitted'
  BY <1>8 DEF Inv, history, GiveBack
<1>9. ASSUME StopAsk PROVE WholeCommitted'
  BY <1>9 DEF Inv, history, StopAsk
<1>10. ASSUME Join PROVE WholeCommitted'
  BY <1>10 DEF Inv, history, Join
<1>11. ASSUME CleanRead PROVE WholeCommitted'
  BY <1>11 DEF Inv, history, CleanRead
<1>12. ASSUME CleanProc PROVE WholeCommitted'
  BY <1>12 DEF Inv, history, CleanProc
<1>13. ASSUME CleanWrite PROVE WholeCommitted'
  BY <1>13 DEF Inv, history, CleanWrite
<1>14. ASSUME CleanHold PROVE WholeCommitted'
  BY <1>14 DEF Inv, history, CleanHold
<1>15. ASSUME StartAgain PROVE WholeCommitted'
  BY <1>15 DEF Inv, history, StartAgain
<1>16. ASSUME Exit PROVE WholeCommitted'
  BY <1>16 DEF Inv, Exit, Zeroed, Blank
<1>17. ASSUME StartHeap PROVE WholeCommitted'
  BY <1>17 DEF Inv, StartHeap, Zeroed, Blank
<1>18. ASSUME Create PROVE WholeCommitted'
  BY <1>18 DEF Inv, Create, Zeroed, Blank
<1>19. ASSUME Stamp PROVE WholeCommitted'
  BY <1>19 DEF Inv, history, Stamp
<1>20. ASSUME Attach PROVE WholeCommitted'
  BY <1>20 DEF Inv, history, Attach
<1>21. ASSUME RecoverSlot PROVE WholeCommitted'
  <2>1. PICK c \in Cells : c = cell[write_idx]  BY DEF Inv
  <2>2. PICK d : d = [c EXCEPT !.tagged = TRUE]  OBVIOUS
  <2>3. cell' = [cell EXCEPT ![write_idx] = d] /\ committed' = committed
    BY <1>21, <2>1, <2>2 DEF RecoverSlot, history
  <2>4. d.tagged  BY <2>2 DEF Cells
  <2> QED  BY <2>3, <2>4 DEF Inv
<1>22. ASSUME RecoverNext PROVE WholeCommitted'
  BY <1>22 DEF Inv, history, RecoverNext
<1>23. ASSUME RecoverDone PROVE WholeCommitted'
  BY <1>23 DEF Inv, history, RecoverDone
<1>24. ASSUME Crash PROVE WholeCommitted'
  <2>1. CASE shared   BY <1>24, <2>1 DEF Inv, Crash, history
  <2>2. CASE ~shared  BY <1>24, <2>2 DEF Inv, Crash, Zeroed, Blank
  <2> QED  BY <2>1, <2>2
<1>25. ASSUME UNCHANGED vars PROVE WholeCommitted'
  BY <1>25 DEF Inv, history, vars
<1> QED
  BY <1>1, <1>2, <1>3, <1>4, <1>5, <1>6, <1>7, <1>8, <1>9, <1>10, <1>11, <1>12, <1>13,
     <1>14, <1>15, <1>16, <1>17, <1>18, <1>19, <1>20, <1>21, <1>22, <1>23, <1>24, <1>25
     DEF Next, Produce, Work, Clean, Load

\* The thread dispatches the slot at read_idx_, which is no longer claimed.
LEMMA UntaggedStep ==
  ASSUME InFlightStop = FALSE, Inv, [Next]_vars
  PROVE  UntaggedIsWhole'
<1> USE RecoveryAssumption, NextSlot DEF UntaggedIsWhole, TypeOK
<1>1. ASSUME NEW p \in Producers, Claim(p) PROVE UntaggedIsWhole'
  BY <1>1 DEF Inv, history, Claim
<1>2. ASSUME NEW p \in Producers, Fill(p) PROVE UntaggedIsWhole'
  BY <1>2 DEF Inv, history, Fill
<1>3. ASSUME NEW p \in Producers, Ready(p) PROVE UntaggedIsWhole'
  BY <1>3 DEF Inv, Ready
<1>4. ASSUME NEW p \in Producers, Publish(p) PROVE UntaggedIsWhole'
  BY <1>4 DEF Inv, history, Publish
<1>5. ASSUME Take PROVE UntaggedIsWhole'
  BY <1>5 DEF Inv, history, Take
<1>6. ASSUME Dispatch PROVE UntaggedIsWhole'
  <2>1. /\ Taken = read_idx /\ read_idx # write_idx
    BY <1>6, TakenIsRead DEF Inv, Dispatch, Working
  <2>2. ~Half(read_idx)
    BY <2>1, Between DEF Inv, Ordered, HalfHidden, Claimed
  <2>3. out' = cell[read_idx] /\ committed' = committed  BY <1>6, <2>1 DEF Dispatch
  <2> QED  BY <2>2, <2>3 DEF Inv, Half, WholeCommitted
<1>7. ASSUME Release PROVE UntaggedIsWhole'
  BY <1>7 DEF Inv, history, Release
<1>8. ASSUME GiveBack PROVE UntaggedIsWhole'
  BY <1>8 DEF Inv, history, GiveBack
<1>9. ASSUME StopAsk PROVE UntaggedIsWhole'
  BY <1>9 DEF Inv, history, StopAsk
<1>10. ASSUME Join PROVE UntaggedIsWhole'
  BY <1>10 DEF Inv, history, Join
<1>11. ASSUME CleanRead PROVE UntaggedIsWhole'
  BY <1>11 DEF Inv, history, CleanRead
<1>12. ASSUME CleanProc PROVE UntaggedIsWhole'
  BY <1>12 DEF Inv, history, CleanProc
<1>13. ASSUME CleanWrite PROVE UntaggedIsWhole'
  BY <1>13 DEF Inv, history, CleanWrite
<1>14. ASSUME CleanHold PROVE UntaggedIsWhole'
  BY <1>14 DEF Inv, history, CleanHold
<1>15. ASSUME StartAgain PROVE UntaggedIsWhole'
  BY <1>15 DEF Inv, history, StartAgain
<1>16. ASSUME Exit PROVE UntaggedIsWhole'
  BY <1>16 DEF Inv, history, Exit
<1>17. ASSUME StartHeap PROVE UntaggedIsWhole'
  BY <1>17 DEF Inv, history, StartHeap
<1>18. ASSUME Create PROVE UntaggedIsWhole'
  BY <1>18 DEF Inv, history, Create
<1>19. ASSUME Stamp PROVE UntaggedIsWhole'
  BY <1>19 DEF Inv, history, Stamp
<1>20. ASSUME Attach PROVE UntaggedIsWhole'
  BY <1>20 DEF Inv, history, Attach
<1>21. ASSUME RecoverSlot PROVE UntaggedIsWhole'
  BY <1>21 DEF Inv, history, RecoverSlot
<1>22. ASSUME RecoverNext PROVE UntaggedIsWhole'
  BY <1>22 DEF Inv, history, RecoverNext
<1>23. ASSUME RecoverDone PROVE UntaggedIsWhole'
  BY <1>23 DEF Inv, history, RecoverDone
<1>24. ASSUME Crash PROVE UntaggedIsWhole'
  BY <1>24 DEF Inv, history, Crash
<1>25. ASSUME UNCHANGED vars PROVE UntaggedIsWhole'
  BY <1>25 DEF Inv, history, vars
<1> QED
  BY <1>1, <1>2, <1>3, <1>4, <1>5, <1>6, <1>7, <1>8, <1>9, <1>10, <1>11, <1>12, <1>13,
     <1>14, <1>15, <1>16, <1>17, <1>18, <1>19, <1>20, <1>21, <1>22, <1>23, <1>24, <1>25
     DEF Next, Produce, Work, Clean, Load

\* Publish and RecoverNext are the only steps that take a slot out of the claims: the
\* first passes ready slots, the second the one RecoverSlot tagged.
LEMMA HalfStep ==
  ASSUME InFlightStop = FALSE, Inv, [Next]_vars
  PROVE  HalfHidden'
<1> USE RecoveryAssumption, NextSlot DEF HalfHidden, TypeOK, Running
<1>1. ASSUME NEW p \in Producers, Claim(p) PROVE HalfHidden'
  <2>1. /\ hold_idx' = Next1(hold_idx) /\ write_idx' = write_idx /\ Next1(hold_idx) # write_idx
        /\ cell' = cell /\ data_mark' = data_mark /\ phase' = phase
    BY <1>1, Between DEF Inv, Claim, Ordered
  <2>2. \A s \in Slots : Half(s)' => Half(s)  BY <2>1 DEF Half
  <2>3. \A s \in Slots : Claimed(s) => Claimed(s)'  BY <2>1, ClaimOne DEF Inv, Claimed
  <2> QED  BY <2>1, <2>2, <2>3 DEF Inv
<1>2. ASSUME NEW p \in Producers, Fill(p) PROVE HalfHidden'
  <2>1. /\ phase = "running" /\ phase' = phase /\ UNCHANGED <<write_idx, hold_idx>>
        /\ Claimed(mine[p].slot)
    BY <1>2 DEF Inv, Fill, Undisturbed, Owned, index
  <2>2. PICK d : d = [rec |-> mine[p].rec, whole |-> FALSE, tagged |-> FALSE]  OBVIOUS
  <2>3. /\ cell' = [cell EXCEPT ![mine[p].slot] = d]
        /\ data_mark' = [data_mark EXCEPT ![mine[p].slot] = 1]
    BY <1>2, <2>2 DEF Fill
  <2> QED  BY <2>1, <2>3 DEF Inv, Half, Claimed
<1>3. ASSUME NEW p \in Producers, Ready(p) PROVE HalfHidden'
  <2>1. /\ phase = "running" /\ phase' = phase /\ UNCHANGED <<write_idx, hold_idx>>
        /\ cell[mine[p].slot].rec = mine[p].rec
    BY <1>3 DEF Inv, Ready, Undisturbed, Owned, index
  <2>2. PICK c \in Cells : c = cell[mine[p].slot]  BY DEF Inv
  <2>3. PICK d : d = [c EXCEPT !.whole = c.rec = mine[p].rec]  OBVIOUS
  <2>4. /\ cell' = [cell EXCEPT ![mine[p].slot] = d]
        /\ data_mark' = [data_mark EXCEPT ![mine[p].slot] = 2]
    BY <1>3, <2>1, <2>2, <2>3 DEF Ready
  <2>5. d.whole  BY <2>1, <2>2, <2>3 DEF Cells
  <2> QED  BY <2>1, <2>4, <2>5 DEF Inv, Half, Claimed
<1>4. ASSUME NEW p \in Producers, Publish(p) PROVE HalfHidden'
  <2>1. /\ phase = "running" /\ phase' = phase /\ hold_idx' = hold_idx
        /\ cell' = cell /\ data_mark' = data_mark
    BY <1>4 DEF Inv, Publish, Undisturbed
  <2>2. \A s \in Slots : Half(s)' <=> Half(s)  BY <2>1 DEF Half
  <2>3. \/ write_idx' = write_idx
        \/ write_idx' = Next1(write_idx) /\ write_idx # hold_idx /\ data_mark[write_idx] = 2
    BY <1>4 DEF Publish
  <2>4. \A s \in Slots : Half(s) => Claimed(s)'
    BY <2>1, <2>3, PassOne DEF Inv, Claimed
  <2> QED  BY <2>1, <2>2, <2>4 DEF Inv
<1>5. ASSUME Take PROVE HalfHidden'
  BY <1>5 DEF Inv, Claimed, Half, Take
<1>6. ASSUME Dispatch PROVE HalfHidden'
  BY <1>6 DEF Inv, Claimed, Half, index, Dispatch
<1>7. ASSUME Release PROVE HalfHidden'
  BY <1>7 DEF Inv, Claimed, Half, index, Release
<1>8. ASSUME GiveBack PROVE HalfHidden'
  BY <1>8 DEF Inv, Claimed, Half, GiveBack, Working
<1>9. ASSUME StopAsk PROVE HalfHidden'
  BY <1>9 DEF Inv, Claimed, Half, index, StopAsk
<1>10. ASSUME Join PROVE HalfHidden'
  BY <1>10 DEF Inv, Claimed, Half, index, Join
<1>11. ASSUME CleanRead PROVE HalfHidden'
  BY <1>11 DEF Inv, Claimed, Half, CleanRead
<1>12. ASSUME CleanProc PROVE HalfHidden'
  BY <1>12 DEF Inv, Claimed, Half, CleanProc
<1>13. ASSUME CleanWrite PROVE HalfHidden'
  <2>1. write_idx = hold_idx  BY <1>13 DEF Inv, CleanWrite, Cleaning
  <2>2. \A s \in Slots : ~Half(s)  BY <2>1 DEF Inv, Claimed, Ahead, Slots
  <2> QED  BY <1>13, <2>2 DEF Inv, CleanWrite, Half
<1>14. ASSUME CleanHold PROVE HalfHidden'
  BY <1>14 DEF Inv, Claimed, Half, CleanHold
<1>15. ASSUME StartAgain PROVE HalfHidden'
  <2>1. write_idx = hold_idx  BY <1>15 DEF Inv, StartAgain, Cleaning
  <2>2. \A s \in Slots : ~Half(s)  BY <2>1 DEF Inv, Claimed, Ahead, Slots
  <2> QED  BY <1>15, <2>2 DEF Inv, StartAgain, Half
<1>16. ASSUME Exit PROVE HalfHidden'
  BY <1>16 DEF Inv, Claimed, Half, Exit, Zeroed, Blank
<1>17. ASSUME StartHeap PROVE HalfHidden'
  BY <1>17 DEF Inv, Claimed, Half, StartHeap, Zeroed, Blank
<1>18. ASSUME Create PROVE HalfHidden'
  BY <1>18 DEF Inv, Claimed, Half, Create, Zeroed, Blank
<1>19. ASSUME Stamp PROVE HalfHidden'
  BY <1>19 DEF Inv, Claimed, Half, index, Stamp
<1>20. ASSUME Attach PROVE HalfHidden'
  BY <1>20 DEF Inv, Claimed, Half, index, Attach
<1>21. ASSUME RecoverSlot PROVE HalfHidden'
  <2>1. PICK c \in Cells : c = cell[write_idx]  BY DEF Inv
  <2>2. PICK d : d = [c EXCEPT !.tagged = TRUE]  OBVIOUS
  <2>3. /\ cell' = [cell EXCEPT ![write_idx] = d]
        /\ phase' = "recover_next" /\ UNCHANGED <<write_idx, hold_idx>>
    BY <1>21, <2>1, <2>2 DEF RecoverSlot, index
  <2>4. d.tagged  BY <2>2 DEF Cells
  <2> QED  BY <2>3, <2>4 DEF Inv, Half, Claimed
<1>22. ASSUME RecoverNext PROVE HalfHidden'
  <2>1. /\ write_idx # hold_idx /\ hold_idx' = hold_idx /\ write_idx' = Next1(write_idx)
        /\ cell' = cell /\ phase = "recover_next" /\ phase' = "recover"
    BY <1>22 DEF Inv, RecoverNext, Cleaning
  <2>2. \A s \in Slots : Half(s)' => Half(s) /\ s # write_idx  BY <2>1 DEF Inv, Half
  <2>3. \A s \in Slots : Half(s)' => Claimed(s)'
    BY <2>1, <2>2, PassOne DEF Inv, Claimed
  <2> QED  BY <2>1, <2>3
<1>23. ASSUME RecoverDone PROVE HalfHidden'
  <2>1. write_idx = hold_idx  BY <1>23 DEF Inv, RecoverDone, Cleaning
  <2>2. \A s \in Slots : ~Half(s)  BY <2>1 DEF Inv, Claimed, Ahead, Slots
  <2> QED  BY <1>23, <2>2 DEF Inv, RecoverDone, Half
<1>24. ASSUME Crash PROVE HalfHidden'
  <2>1. CASE shared   BY <1>24, <2>1 DEF Inv, Crash, index, Half, Claimed
  <2>2. CASE ~shared  BY <1>24, <2>2 DEF Inv, Crash, Zeroed, Blank, Half
  <2> QED  BY <2>1, <2>2
<1>25. ASSUME UNCHANGED vars PROVE HalfHidden'
  BY <1>25 DEF Inv, Claimed, Half, index, vars
<1> QED
  BY <1>1, <1>2, <1>3, <1>4, <1>5, <1>6, <1>7, <1>8, <1>9, <1>10, <1>11, <1>12, <1>13,
     <1>14, <1>15, <1>16, <1>17, <1>18, <1>19, <1>20, <1>21, <1>22, <1>23, <1>24, <1>25
     DEF Next, Produce, Work, Clean, Load

\* Claim takes a free slot; the owner alone marks it until it is ready.
LEMMA OwnedStep ==
  ASSUME InFlightStop = FALSE, Inv, [Next]_vars
  PROVE  Owned'
<1> USE RecoveryAssumption, NextSlot DEF Running
<1>1. ASSUME NEW p \in Producers, Claim(p) PROVE Owned'
  <2>1. /\ hold_idx' = Next1(hold_idx) /\ write_idx' = write_idx /\ Next1(hold_idx) # write_idx
        /\ cell' = cell /\ data_mark' = data_mark /\ phase' = phase /\ phase = "running"
        /\ pc[p] = "idle" /\ issued + 1 # 0 /\ hold_idx \in Slots
        /\ pc' = [pc EXCEPT ![p] = "claimed"]
    BY <1>1, Between DEF Inv, Claim, Ordered, Running, TypeOK
  <2>2. PICK m : m = [slot |-> hold_idx, rec |-> issued + 1]  OBVIOUS
  <2>3. mine' = [mine EXCEPT ![p] = m] /\ m.slot = hold_idx /\ m.rec = issued + 1
    BY <1>1, <2>2 DEF Claim
  <2>4. \A s \in Slots : ClaimedNext(s) <=> Claimed(s) \/ s = hold_idx
    BY <2>1, ClaimOne DEF Inv, Claimed, ClaimedNext, TypeOK
  <2>5. ~InUse(hold_idx) /\ data_mark[hold_idx] = 0
    BY <2>1 DEF Inv, FreeUnmarked, InUse, Ahead, Slots, TypeOK
  <2>6. ~Claimed(hold_idx)
    BY <2>1, <2>5, Between DEF Inv, Claimed, ClaimedNext, InUse, Ordered, TypeOK
  <2>7. ASSUME NEW s \in Slots, ClaimedNext(s), data_mark'[s] # 2
        PROVE  \E q \in Producers : pc'[q] \in {"claimed", "filling"} /\ mine'[q].slot = s
    <3>1. CASE s = hold_idx  BY <2>1, <2>3, <3>1 DEF Inv, TypeOK
    <3>2. CASE s # hold_idx
      <4>1. Claimed(s) /\ data_mark[s] # 2  BY <2>1, <2>4, <2>7, <3>2
      <4>2. PICK q \in Producers : pc[q] \in {"claimed", "filling"} /\ mine[q].slot = s
        BY <2>1, <4>1 DEF Inv, Owned, Running
      <4>3. q # p  BY <2>1, <4>2
      <4>4. pc'[q] = pc[q] /\ mine'[q] = mine[q]  BY <2>1, <2>3, <4>3 DEF Inv, TypeOK
      <4> QED  BY <4>2, <4>4
    <3> QED  BY <3>1, <3>2
  <2>8. \A q \in Producers \ {p} : pc'[q] = pc[q] /\ mine'[q] = mine[q]
    BY <2>1, <2>3 DEF Inv, TypeOK
  <2>9. pc'[p] = "claimed" /\ mine'[p] = m  BY <2>1, <2>3 DEF Inv, TypeOK
  <2>10. \A q \in Producers \ {p} : pc[q] \in {"claimed", "filling"} =>
           mine[q].slot # hold_idx /\ Claimed(mine[q].slot) /\ mine[q].slot \in Slots
    BY <2>6 DEF Inv, Owned, TypeOK
  <2>11. ASSUME NEW q \in Producers, pc'[q] \in {"claimed", "filling"}
         PROVE  /\ ClaimedNext(mine'[q].slot)
                /\ data_mark'[mine'[q].slot] = IF pc'[q] = "claimed" THEN 0 ELSE 1
                /\ mine'[q].rec # 0
                /\ pc'[q] = "filling" => cell'[mine'[q].slot].rec = mine'[q].rec
                /\ \A r \in Producers :
                     pc'[r] \in {"claimed", "filling"} /\ mine'[r].slot = mine'[q].slot => r = q
    <3>1. CASE q = p
      <4>1. \A s : s = hold_idx => ClaimedNext(s)  BY <2>1, <2>4
      <4> QED  BY <2>1, <2>3, <2>5, <2>8, <2>9, <2>10, <3>1, <4>1
    <3>2. CASE q # p
      <4>1. \A s : s = mine[q].slot => ClaimedNext(s)  BY <2>4, <2>8, <2>10, <2>11, <3>2
      <4>2. pc[q] \in {"claimed", "filling"}  BY <2>8, <2>11, <3>2
      <4> QED  BY <2>1, <2>3, <2>8, <2>9, <2>10, <3>2, <4>1, <4>2 DEF Inv, Owned
    <3> QED  BY <3>1, <3>2
  <2> QED  BY <2>7, <2>11 DEF Owned, Claimed, ClaimedNext
<1>2. ASSUME NEW p \in Producers, Fill(p) PROVE Owned'
  <2>1. /\ phase' = phase /\ UNCHANGED <<write_idx, hold_idx, mine>> /\ pc[p] = "claimed"
        /\ pc' = [pc EXCEPT ![p] = "filling"] /\ mine[p].slot \in Slots
    BY <1>2 DEF Inv, Fill, TypeOK, index
  <2>2. PICK d : d = [rec |-> mine[p].rec, whole |-> FALSE, tagged |-> FALSE]  OBVIOUS
  <2>3. /\ cell' = [cell EXCEPT ![mine[p].slot] = d] /\ d.rec = mine[p].rec
        /\ data_mark' = [data_mark EXCEPT ![mine[p].slot] = 1]
    BY <1>2, <2>2 DEF Fill
  <2>4. \A s \in Slots : ClaimedNext(s) <=> Claimed(s)  BY <2>1 DEF Claimed, ClaimedNext
  <2>5. \A q \in Producers : pc'[q] \in {"claimed", "filling"} <=> pc[q] \in {"claimed", "filling"}
    BY <2>1 DEF Inv, TypeOK
  <2>6. \A q \in Producers :
           q # p /\ pc[q] \in {"claimed", "filling"} => mine[q].slot # mine[p].slot
    BY <2>1 DEF Inv, Owned
  <2>7. ASSUME NEW s \in Slots, Running', ClaimedNext(s), data_mark'[s] # 2
        PROVE  \E q \in Producers : pc'[q] \in {"claimed", "filling"} /\ mine'[q].slot = s
    <3>1. CASE s = mine[p].slot  BY <2>1, <2>5, <3>1
    <3>2. CASE s # mine[p].slot
      <4>1. Running /\ Claimed(s) /\ data_mark[s] # 2
        BY <2>1, <2>3, <2>4, <2>7, <3>2 DEF Inv, TypeOK, Running
      <4> QED  BY <2>1, <2>5, <4>1 DEF Inv, Owned
    <3> QED  BY <3>1, <3>2
  <2>8. ASSUME NEW q \in Producers, pc'[q] \in {"claimed", "filling"}
        PROVE  /\ ClaimedNext(mine'[q].slot)
               /\ data_mark'[mine'[q].slot] = IF pc'[q] = "claimed" THEN 0 ELSE 1
               /\ mine'[q].rec # 0
               /\ pc'[q] = "filling" => cell'[mine'[q].slot].rec = mine'[q].rec
               /\ \A r \in Producers :
                    pc'[r] \in {"claimed", "filling"} /\ mine'[r].slot = mine'[q].slot => r = q
    <3>1. pc[q] \in {"claimed", "filling"} /\ mine[q].slot \in Slots  BY <2>5, <2>8 DEF Inv, TypeOK
    <3>2. ClaimedNext(mine[q].slot) /\ mine[q].rec # 0  BY <2>1, <2>4, <3>1 DEF Inv, Owned
    <3>3. data_mark'[mine[q].slot] = IF pc'[q] = "claimed" THEN 0 ELSE 1
      BY <2>1, <2>3, <2>6, <3>1 DEF Inv, Owned, TypeOK
    <3>4. pc'[q] = "filling" => cell'[mine[q].slot].rec = mine[q].rec
      BY <2>1, <2>3, <2>6, <3>1 DEF Inv, Owned, TypeOK
    <3> QED  BY <2>1, <2>5, <3>1, <3>2, <3>3, <3>4 DEF Inv, Owned
  <2> QED  BY <2>7, <2>8 DEF Owned, Claimed, ClaimedNext
<1>3. ASSUME NEW p \in Producers, Ready(p) PROVE Owned'
  <2>1. /\ phase' = phase /\ phase = "running" /\ UNCHANGED <<write_idx, hold_idx, mine>>
        /\ pc[p] = "filling" /\ pc' = [pc EXCEPT ![p] = "publish"] /\ mine[p].slot \in Slots
        /\ data_mark' = [data_mark EXCEPT ![mine[p].slot] = 2]
    BY <1>3 DEF Inv, Ready, TypeOK, Undisturbed, Running, index
  <2>2. PICK c \in Cells : c = cell[mine[p].slot]  BY DEF Inv, TypeOK
  <2>3. PICK d : d = [c EXCEPT !.whole = c.rec = mine[p].rec]  OBVIOUS
  <2>4. cell' = [cell EXCEPT ![mine[p].slot] = d]
    BY <1>3, <2>1, <2>2, <2>3 DEF Ready, Running
  <2>5. \A s \in Slots : ClaimedNext(s) <=> Claimed(s)  BY <2>1 DEF Claimed, ClaimedNext
  <2>6. \A q \in Producers : q # p /\ pc[q] \in {"claimed", "filling"} =>
          /\ mine[q].slot # mine[p].slot /\ mine[q].slot \in Slots
          /\ pc'[q] = pc[q]
    BY <2>1 DEF Inv, Owned, TypeOK
  <2>7. \A q \in Producers :
           pc'[q] \in {"claimed", "filling"} => q # p /\ pc[q] \in {"claimed", "filling"}
    BY <2>1 DEF Inv, TypeOK
  <2>8. ASSUME NEW s \in Slots, ClaimedNext(s), data_mark'[s] # 2
        PROVE  \E q \in Producers : pc'[q] \in {"claimed", "filling"} /\ mine'[q].slot = s
    <3>1. s # mine[p].slot /\ data_mark[s] # 2 /\ Claimed(s)
      BY <2>1, <2>5, <2>8 DEF Inv, TypeOK
    <3>2. PICK q \in Producers : pc[q] \in {"claimed", "filling"} /\ mine[q].slot = s
      BY <2>1, <3>1 DEF Inv, Owned, Running
    <3>3. q # p  BY <3>1, <3>2
    <3> QED  BY <2>1, <2>6, <3>2, <3>3
  <2>9. ASSUME NEW q \in Producers, pc'[q] \in {"claimed", "filling"}
        PROVE  /\ ClaimedNext(mine'[q].slot)
               /\ data_mark'[mine'[q].slot] = IF pc'[q] = "claimed" THEN 0 ELSE 1
               /\ mine'[q].rec # 0
               /\ pc'[q] = "filling" => cell'[mine'[q].slot].rec = mine'[q].rec
               /\ \A r \in Producers :
                    pc'[r] \in {"claimed", "filling"} /\ mine'[r].slot = mine'[q].slot => r = q
    <3>1. /\ q # p /\ pc[q] \in {"claimed", "filling"} /\ pc'[q] = pc[q]
          /\ mine[q].slot \in Slots /\ mine[q].slot # mine[p].slot
      BY <2>6, <2>7, <2>9
    <3>2. ClaimedNext(mine[q].slot) /\ mine[q].rec # 0  BY <2>1, <2>5, <3>1 DEF Inv, Owned
    <3>3. data_mark'[mine[q].slot] = data_mark[mine[q].slot]
          /\ cell'[mine[q].slot] = cell[mine[q].slot]
      BY <2>1, <2>4, <3>1 DEF Inv, TypeOK
    <3> QED  BY <2>1, <2>7, <3>1, <3>2, <3>3 DEF Inv, Owned
  <2> QED  BY <2>8, <2>9 DEF Owned, Claimed, ClaimedNext
<1>4. ASSUME NEW p \in Producers, Publish(p) PROVE Owned'
  <2>1. /\ phase' = phase /\ UNCHANGED <<hold_idx, mine, cell, data_mark>>
    BY <1>4 DEF Publish
  <2>2. \A q \in Producers :
           pc'[q] \in {"claimed", "filling"} <=> q # p /\ pc[q] \in {"claimed", "filling"}
    BY <1>4 DEF Inv, Publish, TypeOK
  <2>3. \A q \in Producers \ {p} : pc'[q] = pc[q]  BY <1>4 DEF Inv, Publish, TypeOK
  <2>4. pc[p] = "publish"  BY <1>4 DEF Publish
  <2>5. \/ write_idx' = write_idx
        \/ write_idx' = Next1(write_idx) /\ write_idx # hold_idx /\ data_mark[write_idx] = 2
    BY <1>4 DEF Publish
  <2>6. \A s \in Slots : ClaimedNext(s) => Claimed(s)
    BY <2>1, <2>5, PassOne DEF Inv, Claimed, ClaimedNext, TypeOK
  <2>7. \A s \in Slots : Claimed(s) /\ data_mark[s] # 2 => ClaimedNext(s)
    BY <2>1, <2>5, PassOne DEF Inv, Claimed, ClaimedNext, TypeOK
  <2>8. ASSUME NEW s \in Slots, Running', ClaimedNext(s), data_mark'[s] # 2
        PROVE  \E q \in Producers : pc'[q] \in {"claimed", "filling"} /\ mine'[q].slot = s
    <3>1. PICK q \in Producers : pc[q] \in {"claimed", "filling"} /\ mine[q].slot = s
      BY <2>1, <2>6, <2>8 DEF Inv, Owned, Running
    <3> QED  BY <2>1, <2>2, <2>4, <3>1
  <2>9. ASSUME NEW q \in Producers, pc'[q] \in {"claimed", "filling"}
        PROVE  /\ ClaimedNext(mine'[q].slot)
               /\ data_mark'[mine'[q].slot] = IF pc'[q] = "claimed" THEN 0 ELSE 1
               /\ mine'[q].rec # 0
               /\ pc'[q] = "filling" => cell'[mine'[q].slot].rec = mine'[q].rec
               /\ \A r \in Producers :
                    pc'[r] \in {"claimed", "filling"} /\ mine'[r].slot = mine'[q].slot => r = q
    <3>1. q # p /\ pc[q] \in {"claimed", "filling"} /\ pc'[q] = pc[q] /\ mine[q].slot \in Slots
      BY <2>2, <2>3, <2>9 DEF Inv, TypeOK
    <3>2. data_mark[mine[q].slot] # 2 /\ Claimed(mine[q].slot)  BY <3>1 DEF Inv, Owned
    <3>3. ClaimedNext(mine[q].slot)  BY <2>1, <2>7, <3>1, <3>2
    <3> QED  BY <2>1, <2>2, <3>1, <3>3 DEF Inv, Owned
  <2> QED  BY <2>8, <2>9 DEF Owned, Claimed, ClaimedNext
<1>5. ASSUME Take PROVE Owned'
  <2>1. UNCHANGED <<write_idx, hold_idx, data_mark, cell, pc, mine>> /\ (Running' => Running)
    BY <1>5 DEF Take, Running
  <2> QED  BY <2>1 DEF Inv, Owned, Claimed, ClaimedNext
<1>6. ASSUME Dispatch PROVE Owned'
  <2>1. UNCHANGED <<write_idx, hold_idx, data_mark, cell, pc, mine>> /\ (Running' => Running)
    BY <1>6 DEF Dispatch, index, Running
  <2> QED  BY <2>1 DEF Inv, Owned, Claimed, ClaimedNext
<1>7. ASSUME Release PROVE Owned'
  <2>1. /\ Taken = read_idx /\ read_idx # write_idx /\ read_idx \in Slots
    BY <1>7, TakenIsRead DEF Inv, Release, Working, TypeOK
  <2>2. ~Claimed(read_idx)  BY <2>1, Between DEF Inv, Ordered, Claimed, ClaimedNext, TypeOK
  <2>3. /\ UNCHANGED <<phase, write_idx, hold_idx, cell, pc, mine>>
        /\ data_mark' = [data_mark EXCEPT ![read_idx] = 0]
    BY <1>7, <2>1 DEF Release, index
  <2>4. \A s \in Slots : Claimed(s) => data_mark'[s] = data_mark[s]
    BY <2>2, <2>3 DEF Inv, TypeOK
  <2>5. \A s \in Slots : ClaimedNext(s) <=> Claimed(s)  BY <2>3 DEF Claimed, ClaimedNext
  <2>6. \A q \in Producers : mine[q].slot \in Slots  BY DEF Inv, TypeOK
  <2>7. ASSUME NEW s \in Slots, Running', ClaimedNext(s), data_mark'[s] # 2
        PROVE  \E q \in Producers : pc'[q] \in {"claimed", "filling"} /\ mine'[q].slot = s
    BY <2>3, <2>4, <2>5, <2>7 DEF Inv, Owned, Running
  <2>8. ASSUME NEW q \in Producers, pc'[q] \in {"claimed", "filling"}
        PROVE  /\ ClaimedNext(mine'[q].slot)
               /\ data_mark'[mine'[q].slot] = IF pc'[q] = "claimed" THEN 0 ELSE 1
               /\ mine'[q].rec # 0
               /\ pc'[q] = "filling" => cell'[mine'[q].slot].rec = mine'[q].rec
               /\ \A r \in Producers :
                    pc'[r] \in {"claimed", "filling"} /\ mine'[r].slot = mine'[q].slot => r = q
    <3>1. ClaimedNext(mine[q].slot) /\ data_mark'[mine[q].slot] = data_mark[mine[q].slot]
      BY <2>3, <2>4, <2>5, <2>6, <2>8 DEF Inv, Owned
    <3> QED  BY <2>3, <2>8, <3>1 DEF Inv, Owned
  <2> QED  BY <2>7, <2>8 DEF Owned, Claimed, ClaimedNext
<1>8. ASSUME GiveBack PROVE Owned'
  <2>1. UNCHANGED <<write_idx, hold_idx, data_mark, cell, pc, mine>> /\ (Running' => Running)
    BY <1>8 DEF GiveBack, Running
  <2> QED  BY <2>1 DEF Inv, Owned, Claimed, ClaimedNext
<1>9. ASSUME StopAsk PROVE Owned'
  <2>1. UNCHANGED <<write_idx, hold_idx, data_mark, cell, pc, mine>> /\ (Running' => Running)
    BY <1>9 DEF StopAsk, index, Running
  <2> QED  BY <2>1 DEF Inv, Owned, Claimed, ClaimedNext
<1>10. ASSUME Join PROVE Owned'
  <2>1. \A p \in Producers : pc'[p] = "idle"  BY <1>10 DEF Inv, Join, Undisturbed, Running
  <2>2. ~Running'  BY <1>10 DEF Join, Running
  <2> QED  BY <2>1, <2>2 DEF Owned
<1>11. ASSUME CleanRead PROVE Owned'
  <2>1. \A p \in Producers : pc'[p] = "idle"  BY <1>11 DEF Inv, CleanRead, Undisturbed, Running
  <2>2. ~Running'  BY <1>11 DEF CleanRead, Running
  <2> QED  BY <2>1, <2>2 DEF Owned
<1>12. ASSUME CleanProc PROVE Owned'
  <2>1. \A p \in Producers : pc'[p] = "idle"  BY <1>12 DEF Inv, CleanProc, Undisturbed, Running
  <2>2. ~Running'  BY <1>12 DEF CleanProc, Running
  <2> QED  BY <2>1, <2>2 DEF Owned
<1>13. ASSUME CleanWrite PROVE Owned'
  <2>1. \A p \in Producers : pc'[p] = "idle"  BY <1>13 DEF Inv, CleanWrite, Undisturbed, Running
  <2>2. ~Running'  BY <1>13 DEF CleanWrite, Running
  <2> QED  BY <2>1, <2>2 DEF Owned
<1>14. ASSUME CleanHold PROVE Owned'
  <2>1. \A p \in Producers : pc'[p] = "idle"  BY <1>14 DEF Inv, CleanHold, Undisturbed, Running
  <2>2. ~Running'  BY <1>14 DEF CleanHold, Running
  <2> QED  BY <2>1, <2>2 DEF Owned
<1>15. ASSUME StartAgain PROVE Owned'
  <2>1. \A p \in Producers : pc'[p] = "idle"  BY <1>15 DEF Inv, StartAgain, Undisturbed, Running
  <2>2. write_idx' = hold_idx' /\ write_idx' \in Slots
    BY <1>15 DEF Inv, StartAgain, Cleaning, Zeroed, Slots, TypeOK, index
  <2>3. \A s \in Slots : ~ClaimedNext(s)  BY <2>2, NoneAhead DEF ClaimedNext
  <2> QED  BY <2>1, <2>3 DEF Owned, Claimed, ClaimedNext
<1>16. ASSUME Exit PROVE Owned'
  <2>1. \A p \in Producers : pc'[p] = "idle"  BY <1>16 DEF Inv, Exit, Undisturbed, Running
  <2>2. ~Running'  BY <1>16 DEF Exit, Running
  <2> QED  BY <2>1, <2>2 DEF Owned
<1>17. ASSUME StartHeap PROVE Owned'
  <2>1. \A p \in Producers : pc'[p] = "idle"  BY <1>17 DEF Inv, StartHeap, Undisturbed, Running
  <2>2. write_idx' = hold_idx' /\ write_idx' \in Slots
    BY <1>17 DEF Inv, StartHeap, Cleaning, Zeroed, Slots, TypeOK
  <2>3. \A s \in Slots : ~ClaimedNext(s)  BY <2>2, NoneAhead DEF ClaimedNext
  <2> QED  BY <2>1, <2>3 DEF Owned, Claimed, ClaimedNext
<1>18. ASSUME Create PROVE Owned'
  <2>1. \A p \in Producers : pc'[p] = "idle"  BY <1>18 DEF Inv, Create, Undisturbed, Running
  <2>2. ~Running'  BY <1>18 DEF Create, Running
  <2> QED  BY <2>1, <2>2 DEF Owned
<1>19. ASSUME Stamp PROVE Owned'
  <2>1. \A p \in Producers : pc'[p] = "idle"  BY <1>19 DEF Inv, Stamp, Undisturbed, Running
  <2>2. ~Running'  BY <1>19 DEF Stamp, Running
  <2> QED  BY <2>1, <2>2 DEF Owned
<1>20. ASSUME Attach PROVE Owned'
  <2>1. \A p \in Producers : pc'[p] = "idle"  BY <1>20 DEF Inv, Attach, Undisturbed, Running
  <2>2. ~Running'  BY <1>20 DEF Attach, Running
  <2> QED  BY <2>1, <2>2 DEF Owned
<1>21. ASSUME RecoverSlot PROVE Owned'
  <2>1. \A p \in Producers : pc'[p] = "idle"  BY <1>21 DEF Inv, RecoverSlot, Undisturbed, Running
  <2>2. ~Running'  BY <1>21 DEF RecoverSlot, Running
  <2> QED  BY <2>1, <2>2 DEF Owned
<1>22. ASSUME RecoverNext PROVE Owned'
  <2>1. \A p \in Producers : pc'[p] = "idle"  BY <1>22 DEF Inv, RecoverNext, Undisturbed, Running
  <2>2. ~Running'  BY <1>22 DEF RecoverNext, Running
  <2> QED  BY <2>1, <2>2 DEF Owned
<1>23. ASSUME RecoverDone PROVE Owned'
  <2>1. \A p \in Producers : pc'[p] = "idle"  BY <1>23 DEF Inv, RecoverDone, Undisturbed, Running
  <2>2. write_idx' = hold_idx' /\ write_idx' \in Slots
    BY <1>23 DEF Inv, RecoverDone, Cleaning, Zeroed, Slots, TypeOK
  <2>3. \A s \in Slots : ~ClaimedNext(s)  BY <2>2, NoneAhead DEF ClaimedNext
  <2> QED  BY <2>1, <2>3 DEF Owned, Claimed, ClaimedNext
<1>24. ASSUME Crash PROVE Owned'
  <2>1. \A p \in Producers : pc'[p] = "idle"  BY <1>24 DEF Inv, Crash, Undisturbed, Running
  <2>2. ~Running'  BY <1>24 DEF Crash, Running
  <2> QED  BY <2>1, <2>2 DEF Owned
<1>25. ASSUME UNCHANGED vars PROVE Owned'
  BY <1>25 DEF Inv, Owned, Claimed, index, vars
<1> QED
  BY <1>1, <1>2, <1>3, <1>4, <1>5, <1>6, <1>7, <1>8, <1>9, <1>10, <1>11, <1>12, <1>13,
     <1>14, <1>15, <1>16, <1>17, <1>18, <1>19, <1>20, <1>21, <1>22, <1>23, <1>24, <1>25
     DEF Next, Produce, Work, Clean, Load

\* Whoever marks a slot ready goes on to publish, and stops only at one that is not.
LEMMA PublishedStep ==
  ASSUME InFlightStop = FALSE, Inv, [Next]_vars
  PROVE  Published'
<1> USE RecoveryAssumption, NextSlot DEF Running
<1>1. ASSUME NEW p \in Producers, Claim(p) PROVE Published'
  <2>1. CASE write_idx = hold_idx
    <3>1. hold_idx \in Slots /\ read_idx \in Slots  BY DEF Inv, TypeOK
    <3>2. ~InUse(hold_idx)  BY <3>1 DEF InUse, Ahead, Slots
    <3>3. data_mark[hold_idx] = 0  BY <3>1, <3>2 DEF Inv, FreeUnmarked
    <3> QED  BY <1>1, <2>1, <3>3 DEF Published, Claim
  <2>2. CASE write_idx # hold_idx
    BY <1>1, <2>2 DEF Inv, Published, Claim, TypeOK
  <2> QED  BY <2>1, <2>2
<1>2. ASSUME NEW p \in Producers, Fill(p) PROVE Published'
  BY <1>2 DEF Inv, Published, Fill, TypeOK, index
<1>3. ASSUME NEW p \in Producers, Ready(p) PROVE Published'
  <2>1. CASE Running
    <3>1. pc' = [pc EXCEPT ![p] = "publish"]  BY <1>3, <2>1 DEF Ready
    <3> QED  BY <3>1 DEF Inv, Published, TypeOK
  <2>2. CASE ~Running  BY <1>3, <2>2 DEF Published, Ready
  <2> QED  BY <2>1, <2>2
<1>4. ASSUME NEW p \in Producers, Publish(p) PROVE Published'
  <2>1. CASE Running /\ write_idx # hold_idx /\ data_mark[write_idx] = 2
    <3>1. pc' = [pc EXCEPT ![p] = "publish"]  BY <1>4, <2>1 DEF Publish
    <3> QED  BY <3>1 DEF Inv, Published, TypeOK
  <2>2. CASE ~Running  BY <1>4, <2>2 DEF Published, Publish
  <2>3. CASE ~(write_idx # hold_idx /\ data_mark[write_idx] = 2)
    BY <1>4, <2>3 DEF Published, Publish
  <2> QED  BY <2>1, <2>2, <2>3
<1>5. ASSUME Take PROVE Published'
  BY <1>5 DEF Inv, Published, Take
<1>6. ASSUME Dispatch PROVE Published'
  BY <1>6 DEF Inv, Published, Dispatch, index
<1>7. ASSUME Release PROVE Published'
  <2>1. data_mark' = [data_mark EXCEPT ![Taken] = 0]  BY <1>7 DEF Release
  <2>2. UNCHANGED <<phase, write_idx, hold_idx, pc>>  BY <1>7 DEF Release, index
  <2>3. data_mark'[write_idx] = 2 => data_mark[write_idx] = 2  BY <2>1 DEF Inv, TypeOK
  <2> QED  BY <2>2, <2>3 DEF Inv, Published
<1>8. ASSUME GiveBack PROVE Published'
  BY <1>8 DEF Inv, Published, GiveBack
<1>9. ASSUME StopAsk PROVE Published'
  <2>1. ~Running'  BY <1>9 DEF StopAsk, Running
  <2> QED  BY <2>1 DEF Published
<1>10. ASSUME Join PROVE Published'
  <2>1. ~Running'  BY <1>10 DEF Join, Running
  <2> QED  BY <2>1 DEF Published
<1>11. ASSUME CleanRead PROVE Published'
  <2>1. ~Running'  BY <1>11 DEF CleanRead, Running
  <2> QED  BY <2>1 DEF Published
<1>12. ASSUME CleanProc PROVE Published'
  <2>1. ~Running'  BY <1>12 DEF CleanProc, Running
  <2> QED  BY <2>1 DEF Published
<1>13. ASSUME CleanWrite PROVE Published'
  <2>1. ~Running'  BY <1>13 DEF CleanWrite, Running
  <2> QED  BY <2>1 DEF Published
<1>14. ASSUME CleanHold PROVE Published'
  <2>1. ~Running'  BY <1>14 DEF CleanHold, Running
  <2> QED  BY <2>1 DEF Published
<1>15. ASSUME StartAgain PROVE Published'
  <2>1. write_idx' = hold_idx'
    BY <1>15 DEF Inv, StartAgain, Cleaning, Zeroed, index
  <2> QED  BY <2>1 DEF Published
<1>16. ASSUME Exit PROVE Published'
  <2>1. ~Running'  BY <1>16 DEF Exit, Running
  <2> QED  BY <2>1 DEF Published
<1>17. ASSUME StartHeap PROVE Published'
  <2>1. write_idx' = hold_idx'
    BY <1>17 DEF Inv, StartHeap, Cleaning, Zeroed
  <2> QED  BY <2>1 DEF Published
<1>18. ASSUME Create PROVE Published'
  <2>1. ~Running'  BY <1>18 DEF Create, Running
  <2> QED  BY <2>1 DEF Published
<1>19. ASSUME Stamp PROVE Published'
  <2>1. ~Running'  BY <1>19 DEF Stamp, Running
  <2> QED  BY <2>1 DEF Published
<1>20. ASSUME Attach PROVE Published'
  <2>1. ~Running'  BY <1>20 DEF Attach, Running
  <2> QED  BY <2>1 DEF Published
<1>21. ASSUME RecoverSlot PROVE Published'
  <2>1. ~Running'  BY <1>21 DEF RecoverSlot, Running
  <2> QED  BY <2>1 DEF Published
<1>22. ASSUME RecoverNext PROVE Published'
  <2>1. ~Running'  BY <1>22 DEF RecoverNext, Running
  <2> QED  BY <2>1 DEF Published
<1>23. ASSUME RecoverDone PROVE Published'
  <2>1. write_idx' = hold_idx'
    BY <1>23 DEF Inv, RecoverDone, Cleaning, Zeroed
  <2> QED  BY <2>1 DEF Published
<1>24. ASSUME Crash PROVE Published'
  <2>1. ~Running'  BY <1>24 DEF Crash, Running
  <2> QED  BY <2>1 DEF Published
<1>25. ASSUME UNCHANGED vars PROVE Published'
  BY <1>25 DEF Inv, Published, index, vars
<1> QED
  BY <1>1, <1>2, <1>3, <1>4, <1>5, <1>6, <1>7, <1>8, <1>9, <1>10, <1>11, <1>12, <1>13,
     <1>14, <1>15, <1>16, <1>17, <1>18, <1>19, <1>20, <1>21, <1>22, <1>23, <1>24, <1>25
     DEF Next, Produce, Work, Clean, Load

-----------------------------------------------------------------------------
(* The theorems                                                            *)

\* Initially the process is down, nothing is stored and nobody logs.
LEMMA Starts == Init => Inv
<1> SUFFICES ASSUME Init PROVE Inv
  OBVIOUS
<1> USE RecoveryAssumption DEF Init
<1>1. 0 \in Slots /\ [slot |-> 0, rec |-> 0] \in [slot : Slots, rec : 0 .. MaxRecords]
      /\ Blank \in Cells
  BY DEF Slots, Blank, Cells
<1>2. TypeOK  BY <1>1 DEF TypeOK
<1>3. Undisturbed  BY DEF Undisturbed
<1>4. Working  BY DEF Working
<1>5. Ordered  BY <1>1 DEF Ordered, Ahead
<1>6. FreeUnmarked  BY DEF FreeUnmarked
<1>7. Cleaning  BY DEF Cleaning
<1>8. HalfHidden  BY DEF HalfHidden, Half, Blank
<1>9. Owned  BY DEF Owned, Running
<1>10. Published  BY DEF Published
<1>11. WholeCommitted  BY DEF WholeCommitted, Blank
<1>12. UntaggedIsWhole  BY DEF UntaggedIsWhole, Blank
<1> QED  BY <1>2, <1>3, <1>4, <1>5, <1>6, <1>7, <1>8, <1>9, <1>10, <1>11, <1>12 DEF Inv

\* Where StopLogger is called while nobody logs, the invariant holds in every state of
\* every life of the logger: the claims stay ahead of the publication and that of the
\* thread, each slot being written has one owner, and half a record lies only where the
\* recovery will find and tag it (HoldChannel, PushChannel, EnterProcChannel,
\* CleanChannels, LoadSharedMemory).
THEOREM RecoveryInvariant ==
  ASSUME InFlightStop = FALSE
  PROVE  Spec => []Inv
<1>1. Init => Inv  BY Starts
<1>2. Inv /\ [Next]_vars => Inv'
  <2> SUFFICES ASSUME Inv, [Next]_vars PROVE Inv'
    OBVIOUS
  <2> QED
    BY TypeStep, UndisturbedStep, WorkingStep, OrderedStep, FreeStep, CleaningStep, HalfStep,
       OwnedStep, PublishedStep, WholeStep, UntaggedStep
    DEF Inv
<1> QED  BY <1>1, <1>2, PTL DEF Spec

\* A record that reaches the devices without the recovery tag is one its producer
\* finished and marked ready (UntaggedIsWhole), whatever crashes, stops and restarts came
\* before, as long as StopLogger is called while nobody logs.
THEOREM UntaggedRecordsAreWhole ==
  ASSUME InFlightStop = FALSE
  PROVE  Spec => []UntaggedIsWhole
<1>1. Inv => UntaggedIsWhole  BY DEF Inv
<1> QED  BY <1>1, RecoveryInvariant, PTL

-----------------------------------------------------------------------------
(* What is dispatched again.                                               *)

\* A slot whose record the thread, or the recovery that follows a crash, will dispatch.
\* CleanChannels gives all of them up, unless a crash interrupts it.
Awaiting(s) ==
  /\ phase \notin {"clean_proc", "clean_write"}
  /\ Ahead(read_idx, s) < Ahead(read_idx, write_idx)
  /\ worker \in {"dispatched", "released"} => s # read_idx

\* Its record was dispatched before.
Repeated(s) == Awaiting(s) /\ cell[s].rec \in sent /\ ~cell[s].tagged
Again       == {s \in Slots : Repeated(s)}

\* The numbers are those of records that were issued, and none is in two places.
Numbers ==
  /\ sent \subseteq 1 .. issued
  /\ \A s \in Slots : cell[s].rec <= issued
  /\ \A s, t \in Slots : cell[s].rec = cell[t].rec /\ cell[s].rec # 0 => s = t
  /\ \A p \in Producers : pc[p] = "claimed" =>
       /\ mine[p].rec \in 1 .. issued
       /\ \A s \in Slots : cell[s].rec # mine[p].rec
       /\ \A q \in Producers : pc[q] = "claimed" /\ mine[q].rec = mine[p].rec => q = p

\* A record that is not published yet has not been dispatched, unless by an earlier
\* process, and then it is tagged.
Unsent ==
  /\ \A p \in Producers : pc[p] \in {"claimed", "filling"} => mine[p].rec \notin sent
  /\ Running => \A s \in Slots : Claimed(s) /\ data_mark[s] = 2 => cell[s].rec \notin sent
  /\ phase = "recover_next" => cell[write_idx].tagged

\* Every repetition, of the past or to come, is due to a crash.
Paid == repeats + Cardinality(Again) <= crashes.live + (BUFFER_LEN - 1) * crashes.clean

RepeatInv ==
  /\ repeats \in Nat /\ crashes \in [live : Nat, clean : Nat]
  /\ Numbers /\ Unsent /\ Paid

\* Nobody claims or writes, and cells keep their records or lose them.
LEMMA NumbersStay ==
  ASSUME TypeOK, Numbers, issued' = issued, sent' \subseteq 1 .. issued,
         \A s \in Slots : cell'[s].rec \in {0, cell[s].rec},
         \A p \in Producers : pc'[p] = "claimed" => pc[p] = "claimed" /\ mine'[p] = mine[p]
  PROVE  Numbers'
<1>1. \A s \in Slots : cell[s].rec \in 0 .. MaxRecords /\ issued \in Nat
  BY DEF TypeOK, Cells
<1>2. \A s \in Slots : cell'[s].rec <= issued  BY <1>1 DEF Numbers
<1>3. \A s, t \in Slots : cell'[s].rec = cell'[t].rec /\ cell'[s].rec # 0 => s = t
  BY DEF Numbers
<1>4. ASSUME NEW p \in Producers, pc'[p] = "claimed"
      PROVE  /\ mine'[p].rec \in 1 .. issued
             /\ \A s \in Slots : cell'[s].rec # mine'[p].rec
             /\ \A q \in Producers : pc'[q] = "claimed" /\ mine'[q].rec = mine'[p].rec => q = p
  BY <1>1, <1>4 DEF Numbers
<1> QED  BY <1>2, <1>3, <1>4 DEF Numbers

\* A record gets its number with the claim and is put into one slot.
LEMMA NumbersStep ==
  ASSUME InFlightStop = FALSE, Inv, Numbers, [Next]_vars
  PROVE  Numbers'
<1> USE RecoveryAssumption, NextSlot DEF TypeOK
<1>0. TypeOK  BY DEF Inv
<1>1. ASSUME NEW p \in Producers, Claim(p) PROVE Numbers'
  <2>1. /\ issued' = issued + 1 /\ cell' = cell /\ sent' = sent /\ issued \in Nat
        /\ pc' = [pc EXCEPT ![p] = "claimed"]
    BY <1>1 DEF Inv, Claim, history
  <2>2. PICK m : m = [slot |-> hold_idx, rec |-> issued + 1]  OBVIOUS
  <2>3. mine' = [mine EXCEPT ![p] = m] /\ m.rec = issued + 1  BY <1>1, <2>2 DEF Claim
  <2>4. mine'[p].rec = issued + 1 /\ pc'[p] = "claimed"  BY <2>1, <2>3 DEF Inv
  <2>5. \A q \in Producers : q # p => mine'[q] = mine[q] /\ pc'[q] = pc[q]
    BY <2>1, <2>3 DEF Inv
  <2>6. \A s \in Slots : cell[s].rec <= issued /\ cell[s].rec \in Nat
    BY DEF Inv, Numbers, Cells
  <2>7. \A s \in Slots : cell[s].rec <= issued' /\ cell[s].rec # issued'  BY <2>1, <2>6
  <2>8. sent \subseteq 1 .. issued'  BY <2>1 DEF Numbers
  <2>9. ASSUME NEW q \in Producers, pc'[q] = "claimed"
        PROVE  /\ mine'[q].rec \in 1 .. issued'
               /\ \A s \in Slots : cell[s].rec # mine'[q].rec
               /\ \A r \in Producers : pc'[r] = "claimed" /\ mine'[r].rec = mine'[q].rec => r = q
    <3>1. \A r \in Producers : r # p /\ pc'[r] = "claimed" =>
            mine'[r].rec \in 1 .. issued /\ mine'[r].rec # issued'
      BY <2>1, <2>5 DEF Numbers
    <3>2. CASE q = p  BY <2>1, <2>4, <2>7, <3>1, <3>2
    <3>3. CASE q # p
      <4>1. mine'[q].rec \in 1 .. issued' /\ \A s \in Slots : cell[s].rec # mine'[q].rec
        BY <2>1, <2>5, <2>9, <3>1, <3>3 DEF Numbers
      <4>2. ASSUME NEW r \in Producers, pc'[r] = "claimed", mine'[r].rec = mine'[q].rec
            PROVE  r = q
        BY <2>1, <2>4, <2>5, <2>9, <3>1, <3>3, <4>2 DEF Numbers
      <4> QED  BY <4>1, <4>2
    <3> QED  BY <3>2, <3>3
  <2> QED  BY <2>1, <2>7, <2>8, <2>9 DEF Numbers
<1>2. ASSUME NEW p \in Producers, Fill(p) PROVE Numbers'
  <2>1. PICK d : d = [rec |-> mine[p].rec, whole |-> FALSE, tagged |-> FALSE]  OBVIOUS
  <2>2. /\ cell' = [cell EXCEPT ![mine[p].slot] = d] /\ d.rec = mine[p].rec
        /\ pc' = [pc EXCEPT ![p] = "filling"] /\ pc[p] = "claimed"
        /\ issued' = issued /\ sent' = sent /\ mine' = mine /\ mine[p].slot \in Slots
    BY <1>2, <2>1 DEF Inv, Fill, bounds, history
  <2>3. \A s \in Slots : cell'[s].rec = IF s = mine[p].slot THEN mine[p].rec ELSE cell[s].rec
    BY <2>2 DEF Inv
  <2>4. /\ mine[p].rec \in 1 .. issued
        /\ \A s \in Slots : cell[s].rec # mine[p].rec
        /\ \A q \in Producers : pc[q] = "claimed" /\ mine[q].rec = mine[p].rec => q = p
    BY <2>2 DEF Numbers
  <2>5. \A q \in Producers : pc'[q] = "claimed" => pc[q] = "claimed" /\ q # p
    BY <2>2 DEF Inv
  <2>6. \A s \in Slots : cell'[s].rec <= issued  BY <2>3, <2>4 DEF Numbers, Inv
  <2>7. \A s, t \in Slots : cell'[s].rec = cell'[t].rec /\ cell'[s].rec # 0 => s = t
    BY <2>3, <2>4 DEF Numbers
  <2>8. \A q \in Producers : pc'[q] = "claimed" => \A s \in Slots : cell'[s].rec # mine[q].rec
    BY <2>2, <2>3, <2>5 DEF Numbers
  <2> QED  BY <2>2, <2>5, <2>6, <2>7, <2>8 DEF Numbers
<1>3. ASSUME NEW p \in Producers, Ready(p) PROVE Numbers'
  <2>1. PICK c \in Cells : c = cell[mine[p].slot]  BY DEF Inv
  <2>2. PICK d : d = [c EXCEPT !.whole = c.rec = mine[p].rec]  OBVIOUS
  <2>3. cell' = [cell EXCEPT ![mine[p].slot] = d] \/ cell' = cell
    BY <1>3, <2>1, <2>2 DEF Ready
  <2>4. d.rec = c.rec  BY <2>2 DEF Cells
  <2>5. \A s \in Slots : cell'[s].rec = cell[s].rec  BY <2>1, <2>3, <2>4 DEF Inv
  <2>6. \A q \in Producers : pc'[q] = "claimed" => pc[q] = "claimed" /\ mine'[q] = mine[q]
    BY <1>3 DEF Inv, Ready
  <2>7. issued' = issued /\ sent' = sent  BY <1>3 DEF Ready, bounds
  <2> QED  BY <1>0, <2>5, <2>6, <2>7, NumbersStay DEF Numbers
<1>4. ASSUME Dispatch PROVE Numbers'
  <2>1. UNCHANGED <<issued, cell, pc, mine>>  BY <1>4 DEF Dispatch, bounds
  <2>2. Taken \in Slots  BY <1>4, TakenIsRead DEF Inv, Dispatch, Working
  <2>3. PICK c \in Cells : c = cell[Taken]  BY <2>2 DEF Inv
  <2>4. sent' = IF c.tagged \/ c.rec = 0 THEN sent ELSE sent \cup {c.rec}
    BY <1>4, <2>3 DEF Dispatch
  <2>5. c.rec <= issued /\ c.rec \in Nat  BY <2>2, <2>3 DEF Numbers, Cells
  <2>6. sent \subseteq 1 .. issued /\ issued \in Nat  BY DEF Numbers, Inv
  <2>7. sent' \subseteq 1 .. issued
    <3>1. c.rec # 0 => c.rec \in 1 .. issued  BY <2>5, <2>6
    <3> QED  BY <2>4, <2>6, <3>1
  <2> QED  BY <1>0, <2>1, <2>7, NumbersStay
<1>5. ASSUME RecoverSlot PROVE Numbers'
  <2>1. PICK c \in Cells : c = cell[write_idx]  BY DEF Inv
  <2>2. PICK d : d = [c EXCEPT !.tagged = TRUE]  OBVIOUS
  <2>3. cell' = [cell EXCEPT ![write_idx] = d] /\ d.rec = c.rec
    BY <1>5, <2>1, <2>2 DEF RecoverSlot, Cells
  <2>4. \A s \in Slots : cell'[s].rec = cell[s].rec  BY <2>1, <2>3 DEF Inv
  <2>5. UNCHANGED <<issued, sent, pc, mine>>  BY <1>5 DEF RecoverSlot, bounds, history
  <2> QED  BY <1>0, <2>4, <2>5, NumbersStay DEF Numbers
<1>6. ASSUME Crash PROVE Numbers'
  <2>1. issued' = issued /\ sent' = sent /\ \A p \in Producers : pc'[p] # "claimed"
    BY <1>6 DEF Crash, history
  <2>2. cell' = cell \/ cell' = [s \in Slots |-> Blank]  BY <1>6 DEF Crash, Zeroed
  <2>3. \A s \in Slots : cell'[s].rec \in {0, cell[s].rec}  BY <2>2 DEF Blank
  <2> QED  BY <1>0, <2>1, <2>3, NumbersStay DEF Numbers
<1>7. ASSUME Exit \/ StartHeap \/ Create PROVE Numbers'
  <2>1. UNCHANGED <<issued, sent, pc, mine>> /\ cell' = [s \in Slots |-> Blank]
    BY <1>7 DEF Exit, StartHeap, Create, Zeroed, bounds, history
  <2>2. \A s \in Slots : cell'[s].rec \in {0, cell[s].rec}  BY <2>1 DEF Blank
  <2> QED  BY <1>0, <2>1, <2>2, NumbersStay DEF Numbers
<1>8. ASSUME UNCHANGED <<issued, sent, cell, mine>>,
             \A p \in Producers : pc'[p] = "claimed" => pc[p] = "claimed"
      PROVE  Numbers'
  BY <1>0, <1>8, NumbersStay DEF Numbers
<1>9. ASSUME NEW p \in Producers, Publish(p) PROVE Numbers'
  BY <1>8, <1>9 DEF Publish, bounds, history, Inv
<1>10. CASE Take \/ Release \/ GiveBack \/ StopAsk
  BY <1>8, <1>10 DEF Take, Release, GiveBack, StopAsk, bounds, history
<1>11. CASE Clean
  BY <1>8, <1>11
     DEF Clean, Join, CleanRead, CleanProc, CleanWrite, CleanHold, bounds, history
<1>12. CASE StartAgain \/ Stamp \/ Attach \/ RecoverNext \/ RecoverDone
  BY <1>8, <1>12 DEF StartAgain, Stamp, Attach, RecoverNext, RecoverDone, bounds, history
<1>13. CASE UNCHANGED vars
  BY <1>8, <1>13 DEF vars, bounds, history
<1> QED
  BY <1>1, <1>2, <1>3, <1>4, <1>5, <1>6, <1>7, <1>9, <1>10, <1>11, <1>12, <1>13
     DEF Next, Produce, Work, Load

\* Nothing is dispatched, claimed or marked ready.
LEMMA UnsentStay ==
  ASSUME Unsent, sent' = sent,
         \A p \in Producers : pc'[p] \in {"claimed", "filling"} =>
           pc[p] \in {"claimed", "filling"} /\ mine'[p].rec = mine[p].rec,
         phase' = "running" => \A s \in Slots : ClaimedNext(s) /\ data_mark'[s] = 2 =>
           /\ phase = "running" /\ Claimed(s) /\ data_mark[s] = 2
           /\ cell'[s].rec = cell[s].rec,
         phase' = "recover_next" => cell'[write_idx'].tagged
  PROVE  Unsent'
<1>1. \A s \in Slots : Claimed(s)' <=> ClaimedNext(s)  BY DEF Claimed, ClaimedNext
<1> QED  BY <1>1 DEF Unsent, Running

\* A slot is marked ready with the record its producer claimed it for.
LEMMA UnsentStep ==
  ASSUME InFlightStop = FALSE, Inv, Numbers, Unsent, [Next]_vars
  PROVE  Unsent'
<1> USE RecoveryAssumption, NextSlot DEF TypeOK
<1>0. TypeOK  BY DEF Inv
<1>1. ASSUME NEW p \in Producers, Claim(p) PROVE Unsent'
  <2>1. /\ hold_idx' = Next1(hold_idx) /\ write_idx' = write_idx /\ Next1(hold_idx) # read_idx
        /\ phase = "running" /\ phase' = phase
        /\ UNCHANGED <<cell, data_mark, sent>> /\ pc' = [pc EXCEPT ![p] = "claimed"]
    BY <1>1 DEF Claim, Running, history
  <2>2. PICK m : m = [slot |-> hold_idx, rec |-> issued + 1]  OBVIOUS
  <2>3. mine' = [mine EXCEPT ![p] = m] /\ m.rec = issued + 1  BY <1>1, <2>2 DEF Claim
  <2>4. issued + 1 \notin sent
    <3>1. sent \subseteq 1 .. issued /\ issued \in Nat  BY DEF Numbers, Inv
    <3> QED  BY <3>1
  <2>5. \A q \in Producers : pc'[q] \in {"claimed", "filling"} => mine'[q].rec \notin sent
    BY <2>1, <2>3, <2>4 DEF Unsent, Inv
  <2>6. Next1(hold_idx) # write_idx  BY <2>1, Between DEF Inv, Ordered
  <2>7. data_mark[hold_idx] = 0
    BY <2>1, NoneAhead DEF Inv, FreeUnmarked, InUse, Slots, Ahead
  <2>8. \A s \in Slots : ClaimedNext(s) /\ data_mark[s] = 2 => Claimed(s)
    BY <2>1, <2>6, <2>7, ClaimOne DEF Inv, ClaimedNext, Claimed
  <2>9. \A s \in Slots : Claimed(s)' <=> ClaimedNext(s)  BY DEF Claimed, ClaimedNext
  <2> QED  BY <2>1, <2>5, <2>8, <2>9 DEF Unsent, Running
<1>2. ASSUME NEW p \in Producers, Fill(p) PROVE Unsent'
  <2>1. /\ phase = "running" /\ phase' = phase /\ UNCHANGED <<write_idx, hold_idx, sent, mine>>
        /\ pc' = [pc EXCEPT ![p] = "filling"] /\ pc[p] = "claimed"
        /\ data_mark' = [data_mark EXCEPT ![mine[p].slot] = 1]
    BY <1>2 DEF Inv, Fill, Undisturbed, index, history, Running
  <2>2. PICK d : d = [rec |-> mine[p].rec, whole |-> FALSE, tagged |-> FALSE]  OBVIOUS
  <2>3. cell' = [cell EXCEPT ![mine[p].slot] = d]  BY <1>2, <2>2 DEF Fill
  <2>4. \A s \in Slots : data_mark'[s] = 2 => data_mark[s] = 2 /\ cell'[s] = cell[s]
    BY <2>1, <2>3 DEF Inv
  <2>5. \A s \in Slots : ClaimedNext(s) => Claimed(s)  BY <2>1 DEF Claimed, ClaimedNext
  <2>6. \A q \in Producers : pc'[q] \in {"claimed", "filling"} => pc[q] \in {"claimed", "filling"}
    BY <2>1 DEF Inv
  <2> QED  BY <2>1, <2>4, <2>5, <2>6, UnsentStay
<1>3. ASSUME NEW p \in Producers, Ready(p) PROVE Unsent'
  <2>1. /\ phase = "running" /\ phase' = phase /\ UNCHANGED <<write_idx, hold_idx, sent, mine>>
        /\ pc' = [pc EXCEPT ![p] = "publish"] /\ pc[p] = "filling"
        /\ data_mark' = [data_mark EXCEPT ![mine[p].slot] = 2]
        /\ cell[mine[p].slot].rec = mine[p].rec
    BY <1>3 DEF Inv, Ready, Undisturbed, Owned, index, Running
  <2>2. PICK c \in Cells : c = cell[mine[p].slot]  BY DEF Inv
  <2>3. PICK d : d = [c EXCEPT !.whole = c.rec = mine[p].rec]  OBVIOUS
  <2>4. cell' = [cell EXCEPT ![mine[p].slot] = d]
    BY <1>3, <2>1, <2>2, <2>3 DEF Ready, Running
  <2>5. d.rec = c.rec  BY <2>3 DEF Cells
  <2>6. \A s \in Slots : cell'[s].rec = cell[s].rec  BY <2>2, <2>4, <2>5 DEF Inv
  <2>7. mine[p].rec \notin sent  BY <2>1 DEF Unsent
  <2>8. \A s \in Slots : Claimed(s)' <=> Claimed(s)  BY <2>1 DEF Claimed
  <2>9. ASSUME NEW s \in Slots, Claimed(s)', data_mark'[s] = 2 PROVE cell'[s].rec \notin sent
    BY <2>1, <2>6, <2>7, <2>8, <2>9 DEF Unsent, Running, Inv
  <2>10. \A q \in Producers : pc'[q] \in {"claimed", "filling"} => mine'[q].rec \notin sent
    BY <2>1 DEF Unsent, Inv
  <2> QED  BY <2>1, <2>9, <2>10 DEF Unsent, Running
<1>4. ASSUME NEW p \in Producers, Publish(p) PROVE Unsent'
  <2>1. /\ phase = "running" /\ phase' = phase
        /\ UNCHANGED <<hold_idx, cell, data_mark, sent, mine>>
    BY <1>4 DEF Inv, Publish, Undisturbed, history, Running
  <2>2. \/ write_idx' = write_idx
        \/ write_idx' = Next1(write_idx) /\ write_idx # hold_idx
    BY <1>4 DEF Publish
  <2>3. \A s \in Slots : ClaimedNext(s) => Claimed(s)
    BY <2>1, <2>2, PassOne DEF Inv, Claimed, ClaimedNext
  <2>4. \A q \in Producers : pc'[q] \in {"claimed", "filling"} => pc[q] \in {"claimed", "filling"}
    BY <1>4 DEF Publish, Inv
  <2> QED  BY <2>1, <2>3, <2>4, UnsentStay
<1>5. ASSUME Dispatch PROVE Unsent'
  <2>1. /\ UNCHANGED <<phase, write_idx, hold_idx, cell, data_mark, pc, mine>>
        /\ worker = "taken"
    BY <1>5 DEF Dispatch, index
  <2>2. /\ phase \in {"running", "closing"} /\ Taken = read_idx /\ read_idx # write_idx
        /\ ~Claimed(read_idx)
    BY <1>0, <2>1, TakenIsRead, Between DEF Inv, Working, Ordered, Claimed
  <2>3. PICK c \in Cells : c = cell[read_idx]  BY DEF Inv
  <2>4. sent' = IF c.tagged \/ c.rec = 0 THEN sent ELSE sent \cup {c.rec}
    BY <1>5, <2>2, <2>3 DEF Dispatch
  <2>5. sent' \subseteq sent \cup ({c.rec} \ {0})  BY <2>4
  <2>6. \A s \in Slots : s # read_idx /\ cell[s].rec = c.rec => c.rec = 0
    BY <2>3 DEF Numbers, Inv
  <2>7. ASSUME NEW q \in Producers, pc[q] \in {"claimed", "filling"}
        PROVE  mine[q].rec \notin sent'
    <3>1. mine[q].rec \notin sent  BY <2>7 DEF Unsent
    <3>2. CASE pc[q] = "claimed"
      <4>1. mine[q].rec # c.rec  BY <2>3, <3>2 DEF Numbers, Inv
      <4> QED  BY <2>5, <3>1, <4>1
    <3>3. CASE pc[q] = "filling"
      <4>1. /\ cell[mine[q].slot].rec = mine[q].rec /\ mine[q].rec # 0 /\ Claimed(mine[q].slot)
            /\ mine[q].slot \in Slots
        BY <3>3 DEF Inv, Owned
      <4>2. mine[q].rec # c.rec  BY <2>2, <2>6, <4>1
      <4> QED  BY <2>5, <3>1, <4>2
    <3> QED  BY <2>7, <3>2, <3>3
  <2>8. ASSUME phase = "running", NEW s \in Slots, Claimed(s), data_mark[s] = 2
        PROVE  cell[s].rec \notin sent'
    <3>1. cell[s].rec \notin sent  BY <2>8 DEF Unsent, Running
    <3>2. cell[s].rec = c.rec => c.rec = 0  BY <2>2, <2>6, <2>8
    <3> QED  BY <2>5, <3>1, <3>2
  <2>9. \A s \in Slots : Claimed(s)' <=> Claimed(s)  BY <2>1 DEF Claimed
  <2> QED  BY <2>1, <2>2, <2>7, <2>8, <2>9 DEF Unsent, Running
<1>6. ASSUME Release PROVE Unsent'
  <2>1. /\ UNCHANGED <<phase, write_idx, hold_idx, cell, pc, mine, sent>>
        /\ data_mark' = [data_mark EXCEPT ![Taken] = 0]
    BY <1>6 DEF Release, index, history
  <2>2. \A s \in Slots : data_mark'[s] = 2 => data_mark[s] = 2  BY <2>1 DEF Inv
  <2>3. \A s \in Slots : ClaimedNext(s) => Claimed(s)  BY <2>1 DEF Claimed, ClaimedNext
  <2> QED  BY <2>1, <2>2, <2>3, UnsentStay DEF Unsent
<1>7. ASSUME Take \/ GiveBack PROVE Unsent'
  <2>1. UNCHANGED <<phase, write_idx, hold_idx, cell, data_mark, pc, mine, sent>>
    BY <1>7 DEF Take, GiveBack, history
  <2>2. \A s \in Slots : ClaimedNext(s) => Claimed(s)  BY <2>1 DEF Claimed, ClaimedNext
  <2> QED  BY <2>1, <2>2, UnsentStay DEF Unsent
<1>8. ASSUME UNCHANGED <<sent, pc, mine>>, phase' \notin {"running", "recover_next"}
      PROVE  Unsent'
  BY <1>8, UnsentStay
<1>9. CASE StopAsk \/ Clean
  BY <1>8, <1>9
     DEF StopAsk, Clean, Join, CleanRead, CleanProc, CleanWrite, CleanHold, history
<1>10. CASE Exit \/ Create \/ Stamp \/ Attach \/ RecoverNext
  BY <1>8, <1>10 DEF Exit, Create, Stamp, Attach, RecoverNext, history
<1>11. CASE StartAgain \/ RecoverDone
  <2>1. /\ write_idx = hold_idx /\ UNCHANGED <<write_idx, hold_idx, pc, mine, sent>>
        /\ phase' = "running"
    BY <1>11 DEF StartAgain, RecoverDone, Inv, Cleaning, index, history
  <2>2. \A s \in Slots : ~ClaimedNext(s)  BY <2>1, NoneAhead DEF ClaimedNext, Inv
  <2> QED  BY <2>1, <2>2, UnsentStay
<1>12. CASE StartHeap
  <2>1. /\ UNCHANGED <<pc, mine, sent>> /\ phase' = "running"
        /\ data_mark' = [s \in Slots |-> 0]
    BY <1>12 DEF StartHeap, Zeroed, history
  <2> QED  BY <2>1, UnsentStay
<1>13. CASE RecoverSlot
  <2>1. PICK c \in Cells : c = cell[write_idx]  BY DEF Inv
  <2>2. PICK d : d = [c EXCEPT !.tagged = TRUE]  OBVIOUS
  <2>3. cell' = [cell EXCEPT ![write_idx] = d] /\ d.tagged
    BY <1>13, <2>1, <2>2 DEF RecoverSlot, Cells
  <2>4. UNCHANGED <<sent, pc, mine, write_idx>> /\ phase' = "recover_next"
    BY <1>13 DEF RecoverSlot, index, history
  <2> QED  BY <2>3, <2>4, UnsentStay DEF Inv
<1>14. CASE Crash
  <2>1. sent' = sent /\ phase' = "down" /\ pc' = [p \in Producers |-> "idle"]
    BY <1>14 DEF Crash, history
  <2> QED  BY <2>1, UnsentStay
<1>15. CASE UNCHANGED vars
  <2>1. UNCHANGED <<phase, write_idx, hold_idx, cell, data_mark, pc, mine, sent>>
    BY <1>15 DEF vars, index, history
  <2>2. \A s \in Slots : ClaimedNext(s) => Claimed(s)  BY <2>1 DEF Claimed, ClaimedNext
  <2> QED  BY <2>1, <2>2, UnsentStay DEF Unsent
<1> QED
  BY <1>1, <1>2, <1>3, <1>4, <1>5, <1>6, <1>7, <1>9, <1>10, <1>11, <1>12, <1>13, <1>14, <1>15
     DEF Next, Produce, Work, Load

LEMMA AgainFinite ==
  /\ IsFiniteSet(Slots) /\ Cardinality(Slots) = BUFFER_LEN
  /\ IsFiniteSet(Again) /\ Cardinality(Again) \in Nat
  /\ IsFiniteSet(Again') /\ Cardinality(Again') \in Nat
<1>1. IsFiniteSet(Slots) /\ Cardinality(Slots) = BUFFER_LEN
  <2>1. 0 \in Int /\ BUFFER_LEN - 1 \in Int  BY RecoveryAssumption
  <2>2. /\ IsFiniteSet(0 .. BUFFER_LEN - 1)
        /\ Cardinality(0 .. BUFFER_LEN - 1)
             = IF 0 > BUFFER_LEN - 1 THEN 0 ELSE (BUFFER_LEN - 1) - 0 + 1
    BY <2>1, FS_Interval, Zenon
  <2> QED  BY <2>2, RecoveryAssumption DEF Slots
<1>2. Again \subseteq Slots /\ Again' \subseteq Slots  BY DEF Again
<1> QED  BY <1>1, <1>2, FS_Subset, FS_CardinalityType

\* The slots behind write_idx_ await nothing.
LEMMA ClaimedApart ==
  ASSUME TypeOK, Ordered, NEW s \in Slots, Claimed(s)
  PROVE  ~Awaiting(s)
BY RecoveryAssumption DEF TypeOK, Ordered, Claimed, Awaiting, Ahead, Slots

\* What is dispatched again becomes no more, unless a thread dies.
LEMMA AgainStep ==
  ASSUME InFlightStop = FALSE, Inv, Unsent, [Next]_vars, ~Dispatch, ~Crash
  PROVE  \A s \in Slots : Repeated(s)' => Repeated(s)
<1> DEFINE Goal == \A s \in Slots : Repeated(s)' => Repeated(s)
<1> USE RecoveryAssumption, NextSlot DEF TypeOK
<1>0. TypeOK /\ Ordered  BY DEF Inv
<1>1. ASSUME UNCHANGED <<phase, read_idx, write_idx, worker, sent, cell>> PROVE Goal
  BY <1>1 DEF Repeated, Awaiting
<1>2. ASSUME NEW p \in Producers, Claim(p) PROVE Goal
  BY <1>1, <1>2 DEF Claim, history
<1>3. ASSUME NEW p \in Producers, Fill(p) PROVE Goal
  <2>1. /\ UNCHANGED <<phase, read_idx, write_idx, worker, sent>>
        /\ mine[p].slot \in Slots /\ Claimed(mine[p].slot)
    BY <1>3 DEF Inv, Fill, Owned, index, history
  <2>2. \A s \in Slots : s # mine[p].slot => cell'[s] = cell[s]  BY <1>3 DEF Fill, Inv
  <2>3. \A s \in Slots : Awaiting(s)' <=> Awaiting(s)  BY <2>1 DEF Awaiting
  <2>4. ~Awaiting(mine[p].slot)  BY <1>0, <2>1, ClaimedApart
  <2> QED  BY <2>1, <2>2, <2>3, <2>4 DEF Repeated
<1>4. ASSUME NEW p \in Producers, Ready(p) PROVE Goal
  <2>1. PICK c \in Cells : c = cell[mine[p].slot]  BY DEF Inv
  <2>2. PICK d : d = [c EXCEPT !.whole = c.rec = mine[p].rec]  OBVIOUS
  <2>3. cell' = [cell EXCEPT ![mine[p].slot] = d] \/ cell' = cell
    BY <1>4, <2>1, <2>2 DEF Ready
  <2>4. d.rec = c.rec /\ d.tagged = c.tagged  BY <2>2 DEF Cells
  <2>5. \A s \in Slots : cell'[s].rec = cell[s].rec /\ cell'[s].tagged = cell[s].tagged
    BY <2>1, <2>3, <2>4 DEF Inv
  <2>6. UNCHANGED <<phase, read_idx, write_idx, worker, sent>>  BY <1>4 DEF Ready, index
  <2> QED  BY <2>5, <2>6 DEF Repeated, Awaiting
<1>5. ASSUME NEW p \in Producers, Publish(p) PROVE Goal
  <2>1. /\ phase = "running" /\ UNCHANGED <<phase, read_idx, worker, sent, cell>>
    BY <1>5 DEF Inv, Publish, Undisturbed, history, Running
  <2>2. \/ write_idx' = write_idx
        \/ write_idx' = Next1(write_idx) /\ write_idx # hold_idx /\ data_mark[write_idx] = 2
    BY <1>5 DEF Publish
  <2>3. CASE write_idx' = write_idx  BY <1>1, <2>1, <2>3
  <2>4. CASE write_idx' = Next1(write_idx) /\ write_idx # hold_idx /\ data_mark[write_idx] = 2
    <3>0. Next1(write_idx) # read_idx  BY <1>0, <2>4, Between DEF Ordered
    <3>1. \A s \in Slots : Ahead(read_idx, s) < Ahead(read_idx, write_idx')
                             => Ahead(read_idx, s) < Ahead(read_idx, write_idx) \/ s = write_idx
      BY <1>0, <2>4, <3>0, ClaimOne
    <3>2. Claimed(write_idx)
      <4>1. write_idx \in Slots /\ hold_idx \in Slots /\ write_idx # hold_idx  BY <1>0, <2>4
      <4> QED  BY <4>1 DEF Claimed, Ahead, Slots
    <3>3. cell[write_idx].rec \notin sent  BY <1>0, <2>1, <2>4, <3>2 DEF Unsent, Running
    <3> QED  BY <2>1, <3>1, <3>3 DEF Repeated, Awaiting
  <2> QED  BY <2>2, <2>3, <2>4
<1>6. CASE Take
  <2>1. UNCHANGED <<phase, read_idx, write_idx, sent, cell>> /\ worker = "idle"
    BY <1>6 DEF Take, history
  <2> QED  BY <2>1 DEF Repeated, Awaiting
<1>7. CASE Release
  <2>1. UNCHANGED <<phase, read_idx, write_idx, sent, cell>> /\ worker = "dispatched"
        /\ worker' = "released"
    BY <1>7 DEF Release, index, history
  <2> QED  BY <2>1 DEF Repeated, Awaiting
<1>8. CASE GiveBack
  <2>1. /\ UNCHANGED <<phase, write_idx, sent, cell>> /\ worker = "released"
        /\ read_idx' = Next1(read_idx)
    BY <1>8 DEF GiveBack, history
  <2>2. read_idx # write_idx  BY <2>1 DEF Inv, Working
  <2>3. \A s \in Slots : Ahead(read_idx', s) < Ahead(read_idx', write_idx)
                           => Ahead(read_idx, s) < Ahead(read_idx, write_idx) /\ s # read_idx
    BY <1>0, <2>1, <2>2, PassOne
  <2> QED  BY <2>1, <2>3 DEF Repeated, Awaiting
<1>9. CASE StopAsk \/ Join \/ CleanHold \/ StartAgain \/ Stamp \/ Attach \/ RecoverDone
  <2>1. /\ UNCHANGED <<read_idx, write_idx, worker, sent, cell>>
        /\ phase \notin {"clean_proc", "clean_write"}
    BY <1>9 DEF StopAsk, Join, CleanHold, StartAgain, Stamp, Attach, RecoverDone, Running, index,
                history
  <2> QED  BY <2>1 DEF Repeated, Awaiting
<1>10. CASE CleanRead \/ CleanProc
  BY <1>10 DEF CleanRead, CleanProc, Repeated, Awaiting
<1>11. CASE CleanWrite \/ Exit \/ StartHeap \/ Create
  <2>1. read_idx' = write_idx' /\ read_idx' \in Slots
    BY <1>11 DEF CleanWrite, Exit, StartHeap, Create, Zeroed, Inv, Cleaning, Slots
  <2> QED  BY <2>1, NoneAhead DEF Repeated, Awaiting
<1>12. CASE RecoverSlot
  <2>1. PICK c \in Cells : c = cell[write_idx]  BY DEF Inv
  <2>2. PICK d : d = [c EXCEPT !.tagged = TRUE]  OBVIOUS
  <2>3. cell' = [cell EXCEPT ![write_idx] = d] /\ d.tagged
    BY <1>12, <2>1, <2>2 DEF RecoverSlot, Cells
  <2>4. /\ UNCHANGED <<read_idx, write_idx, worker, sent>>
        /\ phase = "recover"
    BY <1>12 DEF RecoverSlot, index, history
  <2>5. \A s \in Slots : ~cell'[s].tagged => cell'[s] = cell[s]  BY <2>3 DEF Inv
  <2> QED  BY <2>4, <2>5 DEF Repeated, Awaiting
<1>13. CASE RecoverNext
  <2>1. /\ UNCHANGED <<read_idx, worker, sent, cell>> /\ write_idx' = Next1(write_idx)
        /\ phase = "recover_next" /\ write_idx # hold_idx
    BY <1>13 DEF RecoverNext, Inv, Cleaning, history
  <2>2. \A s \in Slots : Ahead(read_idx, s) < Ahead(read_idx, write_idx')
                           => Ahead(read_idx, s) < Ahead(read_idx, write_idx) \/ s = write_idx
    BY <1>0, <2>1, Between, ClaimOne DEF Ordered
  <2>3. cell[write_idx].tagged  BY <2>1 DEF Unsent
  <2> QED  BY <2>1, <2>2, <2>3 DEF Repeated, Awaiting
<1>14. CASE UNCHANGED vars  BY <1>1, <1>14 DEF vars, index, history
<1> QED
  BY <1>2, <1>3, <1>4, <1>5, <1>6, <1>7, <1>8, <1>9, <1>10, <1>11, <1>12, <1>13, <1>14
     DEF Next, Produce, Work, Clean, Load

\* A dispatch repeats what was to be repeated.
LEMMA DispatchPaid ==
  ASSUME InFlightStop = FALSE, Inv, RepeatInv, Dispatch
  PROVE  repeats' \in Nat /\ crashes' = crashes /\ Paid'
<1>0. TypeOK /\ Ordered /\ repeats \in Nat /\ crashes \in [live : Nat, clean : Nat]
  BY DEF Inv, RepeatInv
<1>1. /\ UNCHANGED <<phase, read_idx, write_idx, cell, crashes>>
      /\ worker = "taken" /\ worker' = "dispatched"
  BY DEF Dispatch, bounds, index
<1>2. /\ phase \in {"running", "closing"} /\ Taken = read_idx /\ read_idx # write_idx
      /\ read_idx \in Slots
  BY <1>0, <1>1, TakenIsRead DEF Inv, Working, TypeOK
<1>3. PICK c \in Cells : c = cell[read_idx]  BY <1>2 DEF Inv, TypeOK
<1>4. /\ sent' = IF c.tagged \/ c.rec = 0 THEN sent ELSE sent \cup {c.rec}
      /\ repeats' = IF ~c.tagged /\ c.rec \in sent THEN repeats + 1 ELSE repeats
  BY <1>2, <1>3 DEF Dispatch
<1>5. \A s \in Slots : Awaiting(s)' <=> Awaiting(s) /\ s # read_idx
  BY <1>1 DEF Awaiting
<1>6. \A s \in Slots : s # read_idx /\ cell[s].rec = c.rec => c.rec = 0
  BY <1>2, <1>3 DEF RepeatInv, Numbers
<1>7. \A s \in Slots : Repeated(s)' => Repeated(s) /\ s # read_idx
  BY <1>1, <1>4, <1>5, <1>6 DEF Repeated
<1>8. CASE ~c.tagged /\ c.rec \in sent
  <2>1. Awaiting(read_idx)
    BY <1>0, <1>1, <1>2, RecoveryAssumption DEF Awaiting, Ahead, Slots, TypeOK
  <2>2. read_idx \in Again /\ Again' \subseteq Again \ {read_idx}
    BY <1>2, <1>3, <1>7, <1>8, <2>1 DEF Again, Repeated
  <2>3. Cardinality(Again') + 1 <= Cardinality(Again)
    <3>1. Cardinality(Again \ {read_idx}) = Cardinality(Again) - 1
          /\ IsFiniteSet(Again \ {read_idx})
      BY <2>2, AgainFinite, FS_RemoveElement
    <3>2. Cardinality(Again') <= Cardinality(Again \ {read_idx})
      BY <2>2, <3>1, FS_Subset
    <3> QED  BY <3>1, <3>2, AgainFinite
  <2>4. repeats' = repeats + 1  BY <1>4, <1>8
  <2>5. PICK m \in Nat, n \in Nat : m = Cardinality(Again) /\ n = Cardinality(Again')
    BY AgainFinite
  <2> QED  BY <1>0, <1>1, <2>3, <2>4, <2>5, RecoveryAssumption DEF RepeatInv, Paid
<1>9. CASE ~(~c.tagged /\ c.rec \in sent)
  <2>1. Again' \subseteq Again  BY <1>7 DEF Again
  <2>2. Cardinality(Again') <= Cardinality(Again)  BY <2>1, AgainFinite, FS_Subset
  <2>3. repeats' = repeats  BY <1>4, <1>9
  <2>4. PICK m \in Nat, n \in Nat : m = Cardinality(Again) /\ n = Cardinality(Again')
    BY AgainFinite
  <2> QED  BY <1>0, <1>1, <2>2, <2>3, <2>4, RecoveryAssumption DEF RepeatInv, Paid
<1> QED  BY <1>8, <1>9

\* A crash costs the one record that was dispatched and not given back, or, between the
\* stores of CleanChannels, those from zero to write_idx_.
LEMMA CrashPaid ==
  ASSUME InFlightStop = FALSE, Inv, RepeatInv, Crash
  PROVE  repeats' = repeats /\ crashes' \in [live : Nat, clean : Nat] /\ Paid'
<1>0. TypeOK /\ repeats \in Nat /\ crashes \in [live : Nat, clean : Nat]
  BY DEF Inv, RepeatInv
<1>1. repeats' = repeats /\ sent' = sent /\ phase' = "down" /\ worker' = "idle"
  BY DEF Crash, history
<1>2. PICK m \in Nat, n \in Nat, b \in Nat :
        m = Cardinality(Again) /\ n = Cardinality(Again') /\ b = BUFFER_LEN - 1
  BY AgainFinite, RecoveryAssumption
<1>3. PICK l \in Nat, k \in Nat : crashes = [live |-> l, clean |-> k]  BY <1>0
<1>4. repeats + m <= l + b * k  BY <1>2, <1>3 DEF RepeatInv, Paid
<1>5. 0 \notin sent
  BY DEF RepeatInv, Numbers
<1>6. ASSUME ~shared PROVE Again' = {}
  <2>1. \A s \in Slots : cell'[s].rec = 0  BY <1>6 DEF Crash, Zeroed, Blank
  <2> QED  BY <1>1, <1>5, <2>1 DEF Again, Repeated
<1>7. ASSUME shared PROVE UNCHANGED <<read_idx, write_idx, cell>>
  BY <1>7 DEF Crash, index
<1>8. CASE phase \in {"clean_proc", "clean_write", "clean_hold"}
  <2>1. crashes' = [live |-> l, clean |-> k + 1]  BY <1>3, <1>8 DEF Crash
  <2>2. n <= b
    <3>1. CASE ~shared  BY <1>2, <1>6, <3>1, FS_EmptySet
    <3>2. CASE shared
      <4>1. ~(Ahead(read_idx, write_idx) < Ahead(read_idx, write_idx)) /\ write_idx \in Slots
        BY <1>0, RecoveryAssumption DEF TypeOK, Ahead, Slots
      <4>2. Again' \subseteq Slots \ {write_idx}
        BY <1>7, <3>2, <4>1 DEF Again, Repeated, Awaiting
      <4>3. /\ IsFiniteSet(Slots \ {write_idx})
            /\ Cardinality(Slots \ {write_idx}) = BUFFER_LEN - 1
        BY <4>1, AgainFinite, FS_RemoveElement
      <4> QED  BY <1>2, <4>2, <4>3, FS_Subset
    <3> QED  BY <3>1, <3>2
  <2>3. b * (k + 1) = b * k + b  OBVIOUS
  <2>4. repeats + n <= l + b * (k + 1)
    <3>1. PICK z \in Nat : z = b * k  OBVIOUS
    <3> QED  BY <1>0, <1>4, <2>2, <2>3, <3>1
  <2> QED  BY <1>1, <1>2, <2>1, <2>4 DEF Paid
<1>9. CASE phase \notin {"clean_proc", "clean_write", "clean_hold"}
  <2>1. crashes' = [live |-> l + 1, clean |-> k]  BY <1>3, <1>9 DEF Crash
  <2>2. n <= m + 1
    <3>1. CASE ~shared  BY <1>2, <1>6, <3>1, FS_EmptySet
    <3>2. CASE shared
      <4>1. Again' \subseteq Again \cup {read_idx}
        BY <1>1, <1>7, <1>9, <3>2 DEF Again, Repeated, Awaiting
      <4>2. /\ IsFiniteSet(Again \cup {read_idx})
            /\ Cardinality(Again \cup {read_idx}) \in {m, m + 1}
        BY <1>2, AgainFinite, FS_AddElement
      <4>3. n <= Cardinality(Again \cup {read_idx})  BY <1>2, <4>1, <4>2, FS_Subset
      <4> QED  BY <4>2, <4>3
    <3> QED  BY <3>1, <3>2
  <2>3. repeats + n <= (l + 1) + b * k
    <3>1. PICK z \in Nat : z = b * k  OBVIOUS
    <3> QED  BY <1>0, <1>4, <2>2, <3>1
  <2> QED  BY <1>1, <1>2, <2>1, <2>3 DEF Paid
<1> QED  BY <1>1, <1>8, <1>9

LEMMA RepeatStep ==
  ASSUME InFlightStop = FALSE, Inv, RepeatInv, [Next]_vars
  PROVE  RepeatInv'
<1>1. Numbers' /\ Unsent'  BY NumbersStep, UnsentStep DEF RepeatInv
<1>2. CASE Dispatch  BY <1>1, <1>2, DispatchPaid DEF RepeatInv
<1>3. CASE Crash  BY <1>1, <1>3, CrashPaid DEF RepeatInv
<1>4. CASE ~Dispatch /\ ~Crash
  <2>1. UNCHANGED <<repeats, crashes>>
    BY <1>4
       DEF Next, vars, history, bounds, Produce, Claim, Fill, Ready, Publish, Work, Take, Release,
           GiveBack, StopAsk, Clean, Join, CleanRead, CleanProc, CleanWrite, CleanHold,
           StartAgain, Exit, Load, StartHeap, Create, Stamp, Attach, RecoverSlot, RecoverNext,
           RecoverDone
  <2>2. Again' \subseteq Again  BY <1>4, AgainStep DEF Again, RepeatInv
  <2>3. Cardinality(Again') <= Cardinality(Again)  BY <2>2, AgainFinite, FS_Subset
  <2>4. PICK m \in Nat, n \in Nat : m = Cardinality(Again) /\ n = Cardinality(Again')
    BY AgainFinite
  <2>5. PICK z \in Int : z = crashes.live + (BUFFER_LEN - 1) * crashes.clean
    BY RecoveryAssumption DEF RepeatInv
  <2>6. repeats + m <= z /\ repeats \in Nat  BY <2>4, <2>5 DEF RepeatInv, Paid
  <2>7. repeats + n <= z  BY <2>3, <2>4, <2>6
  <2> QED  BY <1>1, <2>1, <2>4, <2>5, <2>7 DEF RepeatInv, Paid
<1> QED  BY <1>2, <1>3, <1>4

\* A record is dispatched again only after a crash, and at most one for each: that which
\* the thread had dispatched and not given back.  Only a crash between CleanChannels'
\* stores to read_idx_ and write_idx_ costs more, at most a ring (RepeatsBounded;
\* LoadSharedMemory, EnterProcChannel, CleanChannels).
THEOREM RepeatsAreBounded ==
  ASSUME InFlightStop = FALSE
  PROVE  Spec => []RepeatsBounded
<1>1. Init => RepeatInv
  <2> SUFFICES ASSUME Init PROVE RepeatInv
    OBVIOUS
  <2>1. repeats = 0 /\ crashes = [live |-> 0, clean |-> 0] /\ sent = {} /\ issued = 0
    BY DEF Init
  <2>2. Numbers  BY <2>1 DEF Init, Numbers, Blank
  <2>3. Unsent  BY <2>1 DEF Init, Unsent, Running
  <2>4. Again = {}  BY <2>1 DEF Again, Repeated
  <2>5. Cardinality(Again) = 0  BY <2>4, FS_EmptySet
  <2>6. Paid  BY <2>1, <2>5, RecoveryAssumption DEF Paid
  <2> QED  BY <2>1, <2>2, <2>3, <2>6 DEF RepeatInv
<1>2. Inv /\ RepeatInv /\ [Next]_vars => RepeatInv'  BY RepeatStep
<1>3. RepeatInv => RepeatsBounded
  <2> SUFFICES ASSUME RepeatInv PROVE RepeatsBounded
    OBVIOUS
  <2>1. PICK m \in Nat : m = Cardinality(Again)  BY AgainFinite
  <2>2. PICK z \in Int : z = crashes.live + (BUFFER_LEN - 1) * crashes.clean
    BY RecoveryAssumption DEF RepeatInv
  <2>3. repeats + m <= z /\ repeats \in Nat  BY <2>1, <2>2 DEF RepeatInv, Paid
  <2> QED  BY <2>2, <2>3 DEF RepeatsBounded
<1> QED  BY <1>1, <1>2, <1>3, RecoveryInvariant, PTL DEF Spec
=============================================================================
