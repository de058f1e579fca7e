--------------------------- MODULE ChannelProofs ---------------------------
(***************************************************************************)
(* Proofs about Channel, for any set of producers, any ring of at least    *)
(* two slots and both channel types.                                       *)
(***************************************************************************)
EXTENDS Channel, TLAPS

\* An index stays in the ring when it moves.
LEMMA NextIdxType == \A i \in Slots : NextIdx(i) \in Slots
BY ChannelAssumption DEF Slots, NextIdx

\* Every step keeps the variables in their types.
LEMMA TypeStep ==
  ASSUME TypeOK, [Next]_vars
  PROVE  TypeOK'
<1> USE DEF TypeOK, Goto, Threads, ProducerPc, WorkerPc
<1>1. ASSUME NEW p \in Producers, StartLog(p)
      PROVE  TypeOK'
  BY <1>1 DEF StartLog, states, ring
<1>2. ASSUME NEW p \in Producers, HoldState(p)
      PROVE  TypeOK'
  BY <1>2 DEF HoldState, states, ring
<1>3. ASSUME NEW p \in Producers, HoldLoad(p)
      PROVE  TypeOK'
  BY <1>3 DEF HoldLoad, states, ring
<1>4. ASSUME NEW p \in Producers, HoldFull(p)
      PROVE  TypeOK'
  BY <1>4 DEF HoldFull, states, ring
<1>5. ASSUME NEW p \in Producers, HoldCas(p)
      PROVE  TypeOK'
  BY <1>5, NextIdxType DEF HoldCas, states, ring
<1>6. ASSUME NEW p \in Producers, HoldMark(p)
      PROVE  TypeOK'
  BY <1>6 DEF HoldMark, states, ring
<1>7. ASSUME NEW p \in Producers, Fill(p)
      PROVE  TypeOK'
  BY <1>7 DEF Fill, states, ring
<1>8. ASSUME NEW p \in Producers, PushState(p)
      PROVE  TypeOK'
  BY <1>8 DEF PushState, states, ring
<1>9. ASSUME NEW p \in Producers, PushReady(p)
      PROVE  TypeOK'
  BY <1>9 DEF PushReady, states, ring
<1>10. ASSUME NEW p \in Producers, PushStat(p)
      PROVE  TypeOK'
  BY <1>10 DEF PushStat, states, ring
<1>11. ASSUME NEW p \in Producers, PushLoad(p)
      PROVE  TypeOK'
  BY <1>11 DEF PushLoad, states, ring
<1>12. ASSUME NEW p \in Producers, PushHold(p)
      PROVE  TypeOK'
  BY <1>12 DEF PushHold, states, ring
<1>13. ASSUME NEW p \in Producers, PushMark(p)
      PROVE  TypeOK'
  BY <1>13 DEF PushMark, states, ring
<1>14. ASSUME NEW p \in Producers, PushCas(p)
      PROVE  TypeOK'
  BY <1>14, NextIdxType DEF PushCas, states, ring
<1>15. ASSUME NEW p \in Producers, PushWhile(p)
      PROVE  TypeOK'
  BY <1>15 DEF PushWhile, states, ring
<1>16. ASSUME NEW p \in Producers, PushExit(p)
      PROVE  TypeOK'
  BY <1>16, ChannelAssumption DEF PushExit, states, ring, Workers
<1>17. ASSUME NEW w \in Workers, ProcLoad(w)
      PROVE  TypeOK'
  BY <1>17 DEF ProcLoad, states, ring, Workers
<1>18. ASSUME NEW w \in Workers, ProcEmpty(w)
      PROVE  TypeOK'
  BY <1>18 DEF ProcEmpty, states, ring, Workers
<1>19. ASSUME NEW w \in Workers, ProcCas(w)
      PROVE  TypeOK'
  BY <1>19, NextIdxType DEF ProcCas, states, ring, Workers
<1>20. ASSUME NEW w \in Workers, Dispatch(w)
      PROVE  TypeOK'
  BY <1>20 DEF Dispatch, states, ring, Workers
<1>21. ASSUME NEW w \in Workers, Release(w)
      PROVE  TypeOK'
  BY <1>21 DEF Release, states, ring, Workers
<1>22. ASSUME NEW w \in Workers, ProcStat(w)
      PROVE  TypeOK'
  BY <1>22 DEF ProcStat, states, ring, Workers
<1>23. ASSUME NEW w \in Workers, ReadLoad(w)
      PROVE  TypeOK'
  BY <1>23 DEF ReadLoad, states, ring, Workers
<1>24. ASSUME NEW w \in Workers, ReadProc(w)
      PROVE  TypeOK'
  BY <1>24 DEF ReadProc, states, ring, Workers
<1>25. ASSUME NEW w \in Workers, ReadMark(w)
      PROVE  TypeOK'
  BY <1>25 DEF ReadMark, states, ring, Workers
<1>26. ASSUME NEW w \in Workers, ReadCas(w)
      PROVE  TypeOK'
  BY <1>26, NextIdxType DEF ReadCas, states, ring, Workers
<1>27. ASSUME NEW w \in Workers, Tick(w)
      PROVE  TypeOK'
  BY <1>27 DEF Tick, states, ring, Workers
<1>28. ASSUME NEW w \in Workers, LoopState(w)
      PROVE  TypeOK'
  BY <1>28 DEF LoopState, states, ring, Workers
<1>29. ASSUME NEW w \in Workers, LoopDrain(w)
      PROVE  TypeOK'
  BY <1>29 DEF LoopDrain, states, ring, Workers
<1>30. ASSUME NEW w \in Workers, Finish(w)
      PROVE  TypeOK'
  BY <1>30 DEF Finish, states, ring, Workers
<1>31. CASE Stop
  BY <1>31 DEF Stop, ring
<1>32. CASE UNCHANGED vars
  BY <1>32 DEF vars, states, ring
<1> QED
  BY <1>1, <1>2, <1>3, <1>4, <1>5, <1>6, <1>7, <1>8, <1>9, <1>10, <1>11, <1>12, <1>13, <1>14,
     <1>15, <1>16, <1>17, <1>18, <1>19, <1>20, <1>21, <1>22, <1>23, <1>24, <1>25, <1>26, <1>27,
     <1>28, <1>29, <1>30, <1>31, <1>32 DEF Next, Produce, Process

\* The initial state is well typed.
LEMMA InitType == Init => TypeOK
<1> SUFFICES ASSUME Init PROVE TypeOK
  OBVIOUS
<1>1. 0 \in Slots
  BY ChannelAssumption DEF Slots
<1>2. pc \in [Threads -> ProducerPc \cup WorkerPc]
  BY DEF Init, ProducerPc, WorkerPc
<1>3. \A t \in Threads : pc[t] \in ProducerPc => t \in Producers
  BY DEF Init, ProducerPc
<1>4. \A t \in Threads : pc[t] \in WorkerPc \ {"finished"} => t \in Workers
  BY DEF Init, WorkerPc, Workers, Threads
<1> QED
  BY <1>1, <1>2, <1>3, <1>4 DEF Init, TypeOK

\* The variables keep their types: the indices stay inside the ring, and only the
\* threads that may run EnterProcChannel ever run it.
THEOREM TypeCorrect == Spec => []TypeOK
<1> QED
  BY InitType, TypeStep, PTL DEF Spec

-----------------------------------------------------------------------------
(* Positions in the ring, counted from read_idx.                           *)

\* A position is smaller than the ring.
LEMMA PosType == TypeOK => \A i \in Slots : Pos(i) \in 0 .. BUFFER_LEN - 1
BY ChannelAssumption DEF TypeOK, Pos, Dist, Slots

\* Two slots have different positions.
LEMMA PosInjective ==
  ASSUME TypeOK, NEW i \in Slots, NEW j \in Slots, Pos(i) = Pos(j)
  PROVE  i = j
BY ChannelAssumption DEF TypeOK, Pos, Dist, Slots

\* Counting starts at read_idx.
LEMMA PosRead == TypeOK => Pos(read_idx) = 0
BY ChannelAssumption DEF TypeOK, Pos, Dist, Slots

\* The slot after i is one further, unless counting starts there.
LEMMA PosNext ==
  ASSUME TypeOK, NEW i \in Slots, NextIdx(i) # read_idx
  PROVE  Pos(NextIdx(i)) = Pos(i) + 1
BY ChannelAssumption DEF TypeOK, Pos, Dist, Slots, NextIdx

\* When read_idx moves, the slot it leaves becomes the last one and every other
\* slot comes one nearer.
LEMMA PosShift ==
  ASSUME TypeOK, read_idx' = NextIdx(read_idx), NEW i \in Slots
  PROVE  Pos(i)' = IF i = read_idx THEN BUFFER_LEN - 1 ELSE Pos(i) - 1
BY ChannelAssumption DEF TypeOK, Pos, Dist, Slots, NextIdx

\* IndexOrder in terms of positions.
LEMMA Order == IndexOrder <=> Pos(proc_idx) <= Pos(write_idx) /\ Pos(write_idx) <= Pos(hold_idx)
BY DEF IndexOrder, Pos

-----------------------------------------------------------------------------
(* Steps that only move a thread.                                          *)

\* No thread claims, fills or readies a slot, takes one or gives one back.
QuietPc ==
  \A t \in Threads :
    /\ pc'[t] \in Writing => pc[t] \in Writing
    /\ pc'[t] \in Writing => (pc'[t] = "hold_mark" <=> pc[t] = "hold_mark")
    /\ pc'[t] \in {"push_state", "push_ready"} => pc[t] \in {"push_state", "push_ready"}
    /\ pc'[t] \in Reading <=> pc[t] \in Reading

\* A step that leaves the ring and the slots alone keeps the invariant if what the
\* threads tested stays true.
LEMMA QuietStep ==
  ASSUME IndInv, TypeOK', QuietPc, Windows',
         UNCHANGED <<ring, data_mark, content, log>>
  PROVE  IndInv'
<1>1. UNCHANGED <<hold_idx, write_idx, proc_idx, read_idx>>
  BY DEF ring
<1>2. \A i : Pos(i)' = Pos(i)
  BY <1>1 DEF Pos, Dist
<1>3. IndexOrder'
  BY <1>1 DEF IndInv, IndexOrder, Dist
<1>4. ExclusiveSlot'
  BY DEF IndInv, ExclusiveSlot, QuietPc
<1>5. SlotMarks'
  <2> SUFFICES ASSUME NEW i \in Slots
               PROVE  /\ Pos(i)' < Pos(proc_idx)' /\ data_mark[i]' # "INVALID"
                         => \E w \in Workers : pc[w]' \in Reading /\ log[w]' = i
                      /\ Pos(proc_idx)' <= Pos(i)' /\ Pos(i)' < Pos(write_idx)'
                           => data_mark[i]' = "READY"
                      /\ Pos(hold_idx)' <= Pos(i)' => data_mark[i]' = "INVALID"
                      /\ data_mark[i]' = "READY" => content[i]' \in Data
    BY DEF SlotMarks
  <2>1. \A w \in Workers : pc[w] \in Reading => pc'[w] \in Reading
    BY DEF QuietPc, Workers, Threads
  <2> QED
    BY <1>1, <1>2, <2>1 DEF IndInv, SlotMarks, Pos, Dist
<1>6. Writers'
  <2> SUFFICES ASSUME NEW p \in Producers, pc'[p] \in Writing
               PROVE  /\ Pos(write_idx)' <= Pos(log[p])' /\ Pos(log[p])' < Pos(hold_idx)'
                      /\ data_mark[log[p]]' = IF pc'[p] = "hold_mark" THEN "INVALID" ELSE "HOLD"
                      /\ pc'[p] \in {"push_state", "push_ready"} => content[log[p]]' \in Data
    BY DEF Writers
  <2>1. /\ pc[p] \in Writing
        /\ pc'[p] = "hold_mark" <=> pc[p] = "hold_mark"
        /\ pc'[p] \in {"push_state", "push_ready"} => pc[p] \in {"push_state", "push_ready"}
    BY DEF QuietPc, Threads
  <2> QED
    BY <1>1, <1>2, <2>1 DEF IndInv, Writers, Pos, Dist
<1>7. Readers'
  <2>1. \A w \in Workers : pc'[w] \in Reading => pc[w] \in Reading
    BY DEF QuietPc, Workers, Threads
  <2> QED
    BY <1>1, <1>2, <2>1 DEF IndInv, Readers, Pos, Dist
<1> QED
  BY <1>3, <1>4, <1>5, <1>6, <1>7 DEF IndInv

-----------------------------------------------------------------------------
(* Steps that change a slot.                                               *)

\* Where a thread relies on a test it made.
WindowPc == {"hold_cas", "push_mark", "push_cas", "proc_cas", "read_mark", "read_cas"}

\* Tests stay true under a change of marks that spares write_idx and read_idx.
LEMMA WindowsKept ==
  ASSUME TypeOK, Windows, UNCHANGED <<ring, old_idx>>,
         \A t \in Threads : pc'[t] \in WindowPc => pc'[t] = pc[t],
         data_mark[write_idx] = "READY" => data_mark'[write_idx] = "READY",
         read_idx # proc_idx /\ data_mark[read_idx] = "INVALID" => data_mark'[read_idx] = "INVALID"
  PROVE  Windows'
BY DEF Windows, WindowPc, ring

\* HoldChannel marks the slot it claimed.
LEMMA HoldMarkStep ==
  ASSUME IndInv, TypeOK', NEW p \in Producers, HoldMark(p)
  PROVE  IndInv'
<1> USE DEF HoldMark, ring, states, Goto
<1> p \in Threads
  BY DEF Threads
<1>1. \A i : Pos(i)' = Pos(i)
  BY DEF Pos, Dist
<1>2. IndexOrder'
  BY DEF IndInv, IndexOrder, Dist
<1>3. /\ pc[p] = "hold_mark" /\ pc' = [pc EXCEPT ![p] = "fill"]
      /\ log[p] \in Slots
      /\ Pos(write_idx) <= Pos(log[p]) /\ Pos(log[p]) < Pos(hold_idx)
      /\ data_mark[log[p]] = "INVALID"
  BY DEF IndInv, TypeOK, Writers, Writing
<1>4. ExclusiveSlot'
  BY <1>3 DEF IndInv, TypeOK, ExclusiveSlot, Writing, Reading
<1>5. SlotMarks'
  BY <1>1, <1>3, PosType, Order DEF IndInv, TypeOK, SlotMarks, Reading, Workers, Threads
<1>6. Writers'
  BY <1>1, <1>3 DEF IndInv, TypeOK, Writers, Writing, ExclusiveSlot, Threads
<1>7. Readers'
  BY <1>1, <1>3 DEF IndInv, TypeOK, Readers, Reading, Workers, Threads
<1>8. Windows'
  <2>1. \A t \in Threads : pc'[t] \in WindowPc => pc'[t] = pc[t]
    BY <1>3 DEF IndInv, TypeOK, WindowPc
  <2>2. data_mark[write_idx] = "READY" => data_mark'[write_idx] = "READY"
    BY <1>3 DEF IndInv, TypeOK
  <2>3. read_idx # proc_idx => log[p] # read_idx
    BY <1>3, PosType, PosRead, PosInjective, Order DEF IndInv, TypeOK
  <2>4. read_idx # proc_idx => data_mark'[read_idx] = data_mark[read_idx]
    BY <2>3 DEF IndInv, TypeOK
  <2> QED
    BY <2>1, <2>2, <2>4, WindowsKept DEF IndInv
<1> QED
  BY <1>2, <1>4, <1>5, <1>6, <1>7, <1>8 DEF IndInv

\* The thread writes its record into the slot it holds.
LEMMA FillStep ==
  ASSUME IndInv, TypeOK', NEW p \in Producers, Fill(p)
  PROVE  IndInv'
<1> USE DEF Fill, ring, states, Goto
<1> p \in Threads
  BY DEF Threads
<1>1. \A i : Pos(i)' = Pos(i)
  BY DEF Pos, Dist
<1>2. IndexOrder'
  BY DEF IndInv, IndexOrder, Dist
<1>3. /\ pc[p] = "fill" /\ pc' = [pc EXCEPT ![p] = "push_state"]
      /\ log[p] \in Slots
      /\ Pos(write_idx) <= Pos(log[p]) /\ Pos(log[p]) < Pos(hold_idx)
      /\ data_mark[log[p]] = "HOLD"
  BY DEF IndInv, TypeOK, Writers, Writing
<1>4. ExclusiveSlot'
  BY <1>3 DEF IndInv, TypeOK, ExclusiveSlot, Writing, Reading
<1>5. SlotMarks'
  BY <1>1, <1>3 DEF IndInv, TypeOK, SlotMarks, Reading, Workers, Threads
<1>6. Writers'
  BY <1>1, <1>3 DEF IndInv, TypeOK, Writers, Writing, ExclusiveSlot, Threads
<1>7. Readers'
  BY <1>1, <1>3 DEF IndInv, TypeOK, Readers, Reading, Workers, Threads
<1>8. Windows'
  <2>1. \A t \in Threads : pc'[t] \in WindowPc => pc'[t] = pc[t]
    BY <1>3 DEF IndInv, TypeOK, WindowPc
  <2> QED
    BY <2>1, WindowsKept DEF IndInv
<1> QED
  BY <1>2, <1>4, <1>5, <1>6, <1>7, <1>8 DEF IndInv

\* PushChannel marks the record ready.
LEMMA PushReadyStep ==
  ASSUME IndInv, TypeOK', NEW p \in Producers, PushReady(p)
  PROVE  IndInv'
<1> USE DEF PushReady, ring, states, Goto
<1> p \in Threads
  BY DEF Threads
<1>1. \A i : Pos(i)' = Pos(i)
  BY DEF Pos, Dist
<1>2. IndexOrder'
  BY DEF IndInv, IndexOrder, Dist
<1>3. /\ pc[p] = "push_ready" /\ pc' = [pc EXCEPT ![p] = "push_stat"]
      /\ log[p] \in Slots /\ content[log[p]] \in Data
      /\ Pos(write_idx) <= Pos(log[p]) /\ Pos(log[p]) < Pos(hold_idx)
      /\ data_mark[log[p]] = "HOLD"
  BY DEF IndInv, TypeOK, Writers, Writing
<1>4. ExclusiveSlot'
  BY <1>3 DEF IndInv, TypeOK, ExclusiveSlot, Writing, Reading
<1>5. SlotMarks'
  BY <1>1, <1>3, PosType, Order DEF IndInv, TypeOK, SlotMarks, Reading, Workers, Threads
<1>6. Writers'
  BY <1>1, <1>3 DEF IndInv, TypeOK, Writers, Writing, ExclusiveSlot, Threads
<1>7. Readers'
  BY <1>1, <1>3 DEF IndInv, TypeOK, Readers, Reading, Workers, Threads
<1>8. Windows'
  <2>1. \A t \in Threads : pc'[t] \in WindowPc => pc'[t] = pc[t]
    BY <1>3 DEF IndInv, TypeOK, WindowPc
  <2>2. data_mark[write_idx] = "READY" => data_mark'[write_idx] = "READY"
    BY <1>3 DEF IndInv, TypeOK
  <2>3. read_idx # proc_idx => log[p] # read_idx
    BY <1>3, PosType, PosRead, PosInjective, Order DEF IndInv, TypeOK
  <2>4. read_idx # proc_idx => data_mark'[read_idx] = data_mark[read_idx]
    BY <2>3 DEF IndInv, TypeOK
  <2> QED
    BY <2>1, <2>2, <2>4, WindowsKept DEF IndInv
<1> QED
  BY <1>2, <1>4, <1>5, <1>6, <1>7, <1>8 DEF IndInv

\* EnterProcChannel gives a dispatched slot back.
LEMMA ReleaseStep ==
  ASSUME IndInv, TypeOK', NEW w \in Workers, Release(w)
  PROVE  IndInv'
<1> USE DEF Release, ring, states, Goto
<1> w \in Threads
  BY DEF Threads, Workers
<1>1. \A i : Pos(i)' = Pos(i)
  BY DEF Pos, Dist
<1>2. IndexOrder'
  BY DEF IndInv, IndexOrder, Dist
<1>3. /\ pc[w] = "release" /\ pc' = [pc EXCEPT ![w] = "proc_stat"]
      /\ log[w] \in Slots
      /\ Pos(log[w]) < Pos(proc_idx)
      /\ data_mark[log[w]] = "READY"
  BY DEF IndInv, TypeOK, Readers, Reading
<1>4. ExclusiveSlot'
  BY <1>3 DEF IndInv, TypeOK, ExclusiveSlot, Writing, Reading
<1>5. SlotMarks'
  BY <1>1, <1>3, PosType, Order DEF IndInv, TypeOK, SlotMarks, Reading, Workers, Threads
<1>6. Writers'
  BY <1>1, <1>3, PosType, Order DEF IndInv, TypeOK, Writers, Writing, Threads
<1>7. Readers'
  BY <1>1, <1>3 DEF IndInv, TypeOK, Readers, Reading, Workers, Threads, ExclusiveSlot
<1>8. Windows'
  <2>1. \A t \in Threads : pc'[t] \in WindowPc => pc'[t] = pc[t]
    BY <1>3 DEF IndInv, TypeOK, WindowPc
  <2>2. write_idx # log[w]
    BY <1>3, PosType, Order DEF IndInv, TypeOK
  <2>3. data_mark'[write_idx] = data_mark[write_idx]
    BY <2>2 DEF IndInv, TypeOK
  <2>4. data_mark[read_idx] = "INVALID" => data_mark'[read_idx] = "INVALID"
    BY DEF IndInv, TypeOK
  <2> QED
    BY <2>1, <2>3, <2>4, WindowsKept DEF IndInv
<1> QED
  BY <1>2, <1>4, <1>5, <1>6, <1>7, <1>8 DEF IndInv

-----------------------------------------------------------------------------
(* Steps that move an index.                                               *)

\* HoldChannel claims the slot at hold_idx.
LEMMA HoldCasStep ==
  ASSUME IndInv, TypeOK', Lapping = FALSE, NEW p \in Producers, HoldCas(p), hold_idx = old_idx[p]
  PROVE  IndInv'
<1> USE DEF states, Goto
<1> p \in Threads
  BY DEF Threads
<1>1. /\ pc[p] = "hold_cas" /\ pc' = [pc EXCEPT ![p] = "hold_mark"]
      /\ log' = [log EXCEPT ![p] = hold_idx]
      /\ hold_idx' = NextIdx(hold_idx) /\ NextIdx(hold_idx) # read_idx
      /\ \A t \in Threads : pc[t] \in HoldWindow => old_idx[t] # hold_idx'
      /\ UNCHANGED <<write_idx, proc_idx, read_idx, data_mark, content, old_idx>>
  BY DEF HoldCas, IndInv, Windows, Unlapped
<1>2. \A i : Pos(i)' = Pos(i)
  BY <1>1 DEF Pos, Dist
<1>3. Pos(hold_idx') = Pos(hold_idx) + 1
  BY <1>1, PosNext DEF IndInv, TypeOK
<1>4. IndexOrder'
  BY <1>1, <1>2, <1>3, PosType DEF IndInv, TypeOK, IndexOrder, Pos, Dist
<1>5. data_mark[hold_idx] = "INVALID"
  BY PosType DEF IndInv, TypeOK, SlotMarks
<1>6. \A t \in Threads : pc[t] \in Writing \cup Reading => log[t] # hold_idx
  BY PosType, Order, <1>5
     DEF IndInv, TypeOK, Writers, Readers, Writing, Reading, Threads, Workers, ProducerPc, WorkerPc
<1>7. ExclusiveSlot'
  BY <1>1, <1>6 DEF IndInv, TypeOK, ExclusiveSlot, Writing, Reading
<1>8. SlotMarks'
  BY <1>1, <1>2, <1>3, PosType DEF IndInv, TypeOK, SlotMarks, Reading, Workers, Threads
<1>9. Writers'
  BY <1>1, <1>2, <1>3, <1>5, PosType, Order DEF IndInv, TypeOK, Writers, Writing, Threads
<1>10. Readers'
  BY <1>1, <1>2 DEF IndInv, TypeOK, Readers, Reading, Workers, Threads
<1>11. Windows'
  <2>1. hold_idx' # write_idx
    BY <1>3, PosType, Order DEF IndInv, TypeOK
  <2> QED
    BY <1>1, <2>1 DEF IndInv, TypeOK, Windows, HoldWindow
<1> QED
  BY <1>4, <1>7, <1>8, <1>9, <1>10, <1>11 DEF IndInv

\* PushChannel publishes the slot at write_idx.
LEMMA PushCasStep ==
  ASSUME IndInv, TypeOK', Lapping = FALSE, NEW p \in Producers, PushCas(p), write_idx = old_idx[p]
  PROVE  IndInv'
<1> USE DEF states, Goto
<1> p \in Threads
  BY DEF Threads
<1>1. /\ pc[p] = "push_cas" /\ pc' = [pc EXCEPT ![p] = "push_while"]
      /\ write_idx' = NextIdx(write_idx) /\ write_idx # hold_idx /\ data_mark[write_idx] = "READY"
      /\ \A t \in Threads : pc[t] \in WriteWindow => old_idx[t] # write_idx'
      /\ UNCHANGED <<hold_idx, proc_idx, read_idx, data_mark, content, old_idx, log>>
  BY DEF PushCas, IndInv, Windows, Unlapped
<1>2. \A i : Pos(i)' = Pos(i)
  BY <1>1 DEF Pos, Dist
<1>3. Pos(write_idx) < Pos(hold_idx)
  BY <1>1, PosInjective, PosType, Order DEF IndInv, TypeOK
<1>4. write_idx' # read_idx
  BY <1>1, <1>3, ChannelAssumption DEF IndInv, TypeOK, Pos, Dist, NextIdx, Slots
<1>5. Pos(write_idx') = Pos(write_idx) + 1
  BY <1>1, <1>4, PosNext DEF IndInv, TypeOK
<1>6. IndexOrder'
  BY <1>1, <1>3, <1>5, PosType DEF IndInv, TypeOK, IndexOrder, Pos, Dist
<1>7. \A t \in Threads : pc[t] \in Writing => log[t] # write_idx
  BY <1>1 DEF IndInv, TypeOK, Writers, Writing, Threads, ProducerPc
<1>8. ExclusiveSlot'
  BY <1>1 DEF IndInv, TypeOK, ExclusiveSlot, Writing, Reading
<1>9. SlotMarks'
  <2>1. \A i \in Slots : Pos(i) < Pos(write_idx') => i = write_idx \/ Pos(i) < Pos(write_idx)
    BY <1>5, PosType, PosInjective DEF IndInv, TypeOK
  <2> QED
    BY <1>1, <1>2, <2>1, PosType DEF IndInv, TypeOK, SlotMarks, Reading, Workers, Threads
<1>10. Writers'
  <2>1. \A t \in Threads : pc[t] \in Writing => Pos(write_idx') <= Pos(log[t])
    <3> SUFFICES ASSUME NEW t \in Threads, pc[t] \in Writing
                 PROVE  Pos(write_idx') <= Pos(log[t])
      OBVIOUS
    <3>1. Pos(write_idx) <= Pos(log[t]) /\ log[t] \in Slots /\ write_idx \in Slots
      BY DEF IndInv, TypeOK, Writers, Threads, ProducerPc, Writing
    <3>2. Pos(write_idx) # Pos(log[t])
      BY <1>7, <3>1, PosInjective DEF IndInv
    <3> QED
      BY <1>5, <3>1, <3>2, PosType DEF IndInv
  <2> QED
    BY <1>1, <1>2, <2>1 DEF IndInv, TypeOK, Writers, Writing, Threads
<1>11. Readers'
  BY <1>1, <1>2 DEF IndInv, TypeOK, Readers, Reading, Workers, Threads
<1>12. Windows'
  <2>1. write_idx' # proc_idx
    BY <1>5, PosType, Order DEF IndInv, TypeOK
  <2> QED
    BY <1>1, <2>1 DEF IndInv, TypeOK, Windows, WriteWindow
<1> QED
  BY <1>6, <1>8, <1>9, <1>10, <1>11, <1>12 DEF IndInv

\* EnterProcChannel takes the slot at proc_idx.
LEMMA ProcCasStep ==
  ASSUME IndInv, TypeOK', Lapping = FALSE, NEW w \in Workers, ProcCas(w), proc_idx = old_idx[w]
  PROVE  IndInv'
<1> USE DEF states, Goto
<1> w \in Threads
  BY DEF Threads, Workers
<1>1. /\ pc[w] = "proc_cas" /\ pc' = [pc EXCEPT ![w] = "dispatch"]
      /\ log' = [log EXCEPT ![w] = proc_idx]
      /\ proc_idx' = NextIdx(proc_idx) /\ proc_idx # write_idx
      /\ \A t \in Threads : pc[t] \in ProcWindow => old_idx[t] # proc_idx'
      /\ UNCHANGED <<hold_idx, write_idx, read_idx, data_mark, content, old_idx>>
  BY DEF ProcCas, IndInv, Windows, Unlapped
<1>2. \A i : Pos(i)' = Pos(i)
  BY <1>1 DEF Pos, Dist
<1>3. Pos(proc_idx) < Pos(write_idx) /\ Pos(write_idx) <= Pos(hold_idx)
  BY <1>1, PosInjective, PosType, Order DEF IndInv, TypeOK
<1>4. proc_idx' # read_idx
  BY <1>1, <1>3, ChannelAssumption DEF IndInv, TypeOK, Pos, Dist, NextIdx, Slots
<1>5. Pos(proc_idx') = Pos(proc_idx) + 1
  BY <1>1, <1>4, PosNext DEF IndInv, TypeOK
<1>6. IndexOrder'
  BY <1>1, <1>3, <1>5, PosType DEF IndInv, TypeOK, IndexOrder, Pos, Dist
<1>7. data_mark[proc_idx] = "READY"
  BY <1>3, PosType DEF IndInv, TypeOK, SlotMarks
<1>8. \A t \in Threads : pc[t] \in Writing \cup Reading => log[t] # proc_idx
  BY <1>3, PosType
     DEF IndInv, TypeOK, Writers, Readers, Writing, Reading, Threads, Workers, ProducerPc, WorkerPc
<1>9. ExclusiveSlot'
  BY <1>1, <1>8 DEF IndInv, TypeOK, ExclusiveSlot, Writing, Reading
<1>10. SlotMarks'
  <2>1. \A i \in Slots : Pos(i) < Pos(proc_idx') => i = proc_idx \/ Pos(i) < Pos(proc_idx)
    BY <1>5, PosType, PosInjective DEF IndInv, TypeOK
  <2>2. pc'[w] \in Reading /\ log'[w] = proc_idx
    BY <1>1 DEF IndInv, TypeOK, Reading
  <2>3. \A v \in Workers : pc[v] \in Reading => pc'[v] \in Reading /\ log'[v] = log[v]
    BY <1>1 DEF IndInv, TypeOK, Reading, Workers, Threads
  <2>4. \A i \in Slots : Pos(i)' < Pos(proc_idx)' /\ data_mark[i]' # "INVALID"
           => \E v \in Workers : pc[v]' \in Reading /\ log[v]' = i
    BY <1>1, <1>2, <2>1, <2>2, <2>3 DEF IndInv, SlotMarks
  <2> QED
    BY <1>1, <1>2, <1>5, <2>4, PosType DEF IndInv, TypeOK, SlotMarks
<1>11. Writers'
  BY <1>1, <1>2 DEF IndInv, TypeOK, Writers, Writing, Threads
<1>12. Readers'
  BY <1>1, <1>2, <1>5, <1>7, PosType DEF IndInv, TypeOK, Readers, Reading, Workers, Threads
<1>13. Windows'
  <2>1. proc_idx' # read_idx
    BY <1>4
  <2> QED
    BY <1>1, <2>1 DEF IndInv, TypeOK, Windows, ProcWindow
<1> QED
  BY <1>6, <1>9, <1>10, <1>11, <1>12, <1>13 DEF IndInv

\* EnterProcChannel returns the slot at read_idx to the producers.
LEMMA ReadCasStep ==
  ASSUME IndInv, TypeOK', Lapping = FALSE, NEW w \in Workers, ReadCas(w), read_idx = old_idx[w]
  PROVE  IndInv'
<1> USE DEF states, Goto
<1> w \in Threads
  BY DEF Threads, Workers
<1>1. /\ pc[w] = "read_cas" /\ pc' = [pc EXCEPT ![w] = "read_load"]
      /\ read_idx' = NextIdx(read_idx) /\ read_idx # proc_idx /\ data_mark[read_idx] = "INVALID"
      /\ \A t \in Threads : pc[t] \in ReadWindow => old_idx[t] # read_idx'
      /\ UNCHANGED <<hold_idx, write_idx, proc_idx, data_mark, content, old_idx, log>>
  BY DEF ReadCas, IndInv, Windows, Unlapped
<1>2. \A i \in Slots : Pos(i)' = IF i = read_idx THEN BUFFER_LEN - 1 ELSE Pos(i) - 1
  BY <1>1, PosShift DEF IndInv
<1>3. /\ read_idx # write_idx /\ read_idx # hold_idx
      /\ 0 < Pos(proc_idx)
  BY <1>1, PosRead, PosInjective, PosType, Order DEF IndInv, TypeOK
<1>4. /\ Pos(proc_idx)' = Pos(proc_idx) - 1
      /\ Pos(write_idx)' = Pos(write_idx) - 1
      /\ Pos(hold_idx)' = Pos(hold_idx) - 1
  BY <1>1, <1>2, <1>3 DEF IndInv, TypeOK, Pos, Dist
<1>5. IndexOrder'
  BY <1>4, PosType, Order DEF IndInv, TypeOK, IndexOrder, Pos
<1>6. \A t \in Threads : pc[t] \in Writing \cup Reading => log[t] # read_idx
  BY <1>1, <1>3, PosRead, PosType, Order
     DEF IndInv, TypeOK, Writers, Readers, Writing, Reading, Threads, Workers, ProducerPc, WorkerPc
<1>7. ExclusiveSlot'
  BY <1>1 DEF IndInv, TypeOK, ExclusiveSlot, Writing, Reading
<1>8. SlotMarks'
  <2> SUFFICES ASSUME NEW i \in Slots
               PROVE  /\ Pos(i)' < Pos(proc_idx)' /\ data_mark[i]' # "INVALID"
                         => \E v \in Workers : pc[v]' \in Reading /\ log[v]' = i
                      /\ Pos(proc_idx)' <= Pos(i)' /\ Pos(i)' < Pos(write_idx)'
                           => data_mark[i]' = "READY"
                      /\ Pos(hold_idx)' <= Pos(i)' => data_mark[i]' = "INVALID"
                      /\ data_mark[i]' = "READY" => content[i]' \in Data
    BY DEF SlotMarks
  <2>1. \A v \in Workers : pc[v] \in Reading => pc'[v] \in Reading
    BY <1>1 DEF IndInv, TypeOK, Reading, Workers, Threads
  <2>2. CASE i = read_idx
    <3>1. Pos(i)' = BUFFER_LEN - 1
      BY <1>2, <2>2
    <3>2. /\ Pos(proc_idx) <= Pos(hold_idx) /\ Pos(write_idx) <= Pos(hold_idx)
          /\ Pos(hold_idx) \in Nat /\ Pos(write_idx) \in Nat /\ Pos(proc_idx) \in Nat
          /\ Pos(hold_idx) < BUFFER_LEN
      BY ChannelAssumption, PosType, Order DEF IndInv, TypeOK
    <3>3. ~(Pos(i)' < Pos(proc_idx)') /\ ~(Pos(i)' < Pos(write_idx)')
      BY <1>4, <3>1, <3>2, ChannelAssumption
    <3>4. data_mark'[i] = "INVALID"
      BY <1>1, <2>2
    <3> QED
      BY <3>3, <3>4
  <2>3. CASE i # read_idx
    BY <1>1, <1>2, <1>4, <2>1, <2>3, PosType DEF IndInv, TypeOK, SlotMarks
  <2> QED
    BY <2>2, <2>3
<1>9. Writers'
  <2> SUFFICES ASSUME NEW p \in Producers, pc'[p] \in Writing
               PROVE  /\ Pos(write_idx)' <= Pos(log[p])' /\ Pos(log[p])' < Pos(hold_idx)'
                      /\ data_mark[log[p]]' = IF pc'[p] = "hold_mark" THEN "INVALID" ELSE "HOLD"
                      /\ pc'[p] \in {"push_state", "push_ready"} => content[log[p]]' \in Data
    BY DEF Writers
  <2>1. pc[p] = pc'[p] /\ log'[p] = log[p] /\ log[p] # read_idx /\ log[p] \in Slots
    BY <1>1, <1>6 DEF IndInv, TypeOK, Writing, Threads
  <2>2. Pos(log[p])' = Pos(log[p]) - 1
    BY <1>2, <2>1, <1>1
  <2> QED
    BY <1>1, <1>4, <2>1, <2>2, PosType DEF IndInv, TypeOK, Writers
<1>10. Readers'
  <2> SUFFICES ASSUME NEW v \in Workers, pc'[v] \in Reading
               PROVE  Pos(log[v])' < Pos(proc_idx)' /\ data_mark[log[v]]' = "READY"
    BY DEF Readers
  <2>1. pc[v] = pc'[v] /\ log'[v] = log[v] /\ log[v] # read_idx /\ log[v] \in Slots
    BY <1>1, <1>6 DEF IndInv, TypeOK, Reading, Threads, Workers
  <2>2. Pos(log[v])' = Pos(log[v]) - 1
    BY <1>2, <2>1, <1>1
  <2> QED
    BY <1>1, <1>4, <2>1, <2>2, PosType DEF IndInv, TypeOK, Readers
<1>11. Windows'
  <2>1. NextIdx(hold_idx) # read_idx'
    BY <1>1, <1>3, ChannelAssumption DEF IndInv, TypeOK, NextIdx, Slots
  <2> QED
    BY <1>1, <2>1 DEF IndInv, TypeOK, Windows, ReadWindow
<1> QED
  BY <1>5, <1>7, <1>8, <1>9, <1>10, <1>11 DEF IndInv

-----------------------------------------------------------------------------
(* The theorems.                                                           *)

\* What QuietStep asks of a step.
Quiet == QuietPc /\ Windows' /\ UNCHANGED <<ring, data_mark, content, log>>

\* The remaining actions, and a compare-exchange that fails.
QuietProduce(p) ==
  \/ StartLog(p) \/ HoldState(p) \/ HoldLoad(p) \/ HoldFull(p)
  \/ HoldCas(p) /\ hold_idx # old_idx[p]
  \/ PushState(p) \/ PushStat(p) \/ PushLoad(p) \/ PushHold(p) \/ PushMark(p)
  \/ PushCas(p) /\ write_idx # old_idx[p]
  \/ PushWhile(p) \/ PushExit(p)

QuietProcess(w) ==
  \/ ProcLoad(w) \/ ProcEmpty(w)
  \/ ProcCas(w) /\ proc_idx # old_idx[w]
  \/ Dispatch(w) \/ ProcStat(w) \/ ReadLoad(w) \/ ReadProc(w) \/ ReadMark(w)
  \/ ReadCas(w) /\ read_idx # old_idx[w]
  \/ Tick(w) \/ LoopState(w) \/ LoopDrain(w) \/ Finish(w)

\* They are quiet.
LEMMA QuietActions ==
  ASSUME IndInv
  PROVE  /\ \A p \in Producers : QuietProduce(p) => Quiet
         /\ \A w \in Workers : QuietProcess(w) => Quiet
         /\ Stop \/ UNCHANGED vars => Quiet
<1> USE DEF Quiet, QuietPc, IndInv, TypeOK, Windows, Writing, Reading, Goto, ring, Threads, Workers
<1>1. ASSUME NEW p \in Producers, StartLog(p)
      PROVE  Quiet
  BY <1>1 DEF StartLog
<1>2. ASSUME NEW p \in Producers, HoldState(p)
      PROVE  Quiet
  BY <1>2 DEF HoldState
<1>3. ASSUME NEW p \in Producers, HoldLoad(p)
      PROVE  Quiet
  BY <1>3 DEF HoldLoad
<1>4. ASSUME NEW p \in Producers, HoldFull(p)
      PROVE  Quiet
  BY <1>4 DEF HoldFull
<1>5. ASSUME NEW p \in Producers, PushState(p)
      PROVE  Quiet
  BY <1>5 DEF PushState
<1>6. ASSUME NEW p \in Producers, PushStat(p)
      PROVE  Quiet
  BY <1>6 DEF PushStat
<1>7. ASSUME NEW p \in Producers, PushLoad(p)
      PROVE  Quiet
  BY <1>7 DEF PushLoad
<1>8. ASSUME NEW p \in Producers, PushHold(p)
      PROVE  Quiet
  BY <1>8 DEF PushHold
<1>9. ASSUME NEW p \in Producers, PushMark(p)
      PROVE  Quiet
  BY <1>9 DEF PushMark
<1>10. ASSUME NEW p \in Producers, PushWhile(p)
      PROVE  Quiet
  BY <1>10 DEF PushWhile
<1>11. ASSUME NEW p \in Producers, PushExit(p)
      PROVE  Quiet
  BY <1>11 DEF PushExit
<1>12. ASSUME NEW p \in Producers, HoldCas(p), hold_idx # old_idx[p]
      PROVE  Quiet
  BY <1>12 DEF HoldCas
<1>13. ASSUME NEW p \in Producers, PushCas(p), write_idx # old_idx[p]
      PROVE  Quiet
  BY <1>13 DEF PushCas
<1>14. ASSUME NEW w \in Workers, ProcLoad(w)
      PROVE  Quiet
  BY <1>14 DEF ProcLoad
<1>15. ASSUME NEW w \in Workers, ProcEmpty(w)
      PROVE  Quiet
  BY <1>15 DEF ProcEmpty
<1>16. ASSUME NEW w \in Workers, Dispatch(w)
      PROVE  Quiet
  BY <1>16 DEF Dispatch
<1>17. ASSUME NEW w \in Workers, ProcStat(w)
      PROVE  Quiet
  BY <1>17 DEF ProcStat
<1>18. ASSUME NEW w \in Workers, ReadLoad(w)
      PROVE  Quiet
  BY <1>18 DEF ReadLoad
<1>19. ASSUME NEW w \in Workers, ReadProc(w)
      PROVE  Quiet
  BY <1>19 DEF ReadProc
<1>20. ASSUME NEW w \in Workers, ReadMark(w)
      PROVE  Quiet
  BY <1>20 DEF ReadMark
<1>21. ASSUME NEW w \in Workers, Tick(w)
      PROVE  Quiet
  BY <1>21 DEF Tick
<1>22. ASSUME NEW w \in Workers, LoopState(w)
      PROVE  Quiet
  BY <1>22 DEF LoopState
<1>23. ASSUME NEW w \in Workers, LoopDrain(w)
      PROVE  Quiet
  BY <1>23 DEF LoopDrain
<1>24. ASSUME NEW w \in Workers, Finish(w)
      PROVE  Quiet
  BY <1>24 DEF Finish
<1>25. ASSUME NEW w \in Workers, ProcCas(w), proc_idx # old_idx[w]
      PROVE  Quiet
  BY <1>25 DEF ProcCas
<1>26. ASSUME NEW w \in Workers, ReadCas(w), read_idx # old_idx[w]
      PROVE  Quiet
  BY <1>26 DEF ReadCas
<1>27. Stop \/ UNCHANGED vars => Quiet
  BY DEF Stop, vars, states
<1> QED
  BY <1>1, <1>2, <1>3, <1>4, <1>5, <1>6, <1>7, <1>8, <1>9, <1>10, <1>11, <1>12, <1>13, <1>14,
     <1>15, <1>16, <1>17, <1>18, <1>19, <1>20, <1>21, <1>22, <1>23, <1>24, <1>25, <1>26, <1>27
     DEF QuietProduce, QuietProcess

\* The invariant is inductive.
LEMMA IndStep ==
  ASSUME IndInv, [Next]_vars, Lapping = FALSE
  PROVE  IndInv'
<1>1. TypeOK'
  BY TypeStep DEF IndInv
<1>2. Quiet => IndInv'
  BY <1>1, QuietStep DEF Quiet
<1>3. ASSUME NEW p \in Producers, StartLog(p) \/ Produce(p)
      PROVE  IndInv'
  <2>1. CASE HoldCas(p)
    BY <1>1, <1>2, <2>1, QuietActions, HoldCasStep DEF QuietProduce
  <2>2. CASE HoldMark(p)
    BY <1>1, <2>2, HoldMarkStep
  <2>3. CASE Fill(p)
    BY <1>1, <2>3, FillStep
  <2>4. CASE PushReady(p)
    BY <1>1, <2>4, PushReadyStep
  <2>5. CASE PushCas(p)
    BY <1>1, <1>2, <2>5, QuietActions, PushCasStep DEF QuietProduce
  <2>6. CASE ~(HoldCas(p) \/ HoldMark(p) \/ Fill(p) \/ PushReady(p) \/ PushCas(p))
    BY <1>2, <1>3, <2>6, QuietActions DEF Produce, QuietProduce
  <2> QED
    BY <2>1, <2>2, <2>3, <2>4, <2>5, <2>6
<1>4. ASSUME NEW w \in Workers, Process(w)
      PROVE  IndInv'
  <2>1. CASE ProcCas(w)
    BY <1>1, <1>2, <2>1, QuietActions, ProcCasStep DEF QuietProcess
  <2>2. CASE Release(w)
    BY <1>1, <2>2, ReleaseStep
  <2>3. CASE ReadCas(w)
    BY <1>1, <1>2, <2>3, QuietActions, ReadCasStep DEF QuietProcess
  <2>4. CASE ~(ProcCas(w) \/ Release(w) \/ ReadCas(w))
    BY <1>2, <1>4, <2>4, QuietActions DEF Process, QuietProcess
  <2> QED
    BY <2>1, <2>2, <2>3, <2>4
<1>5. CASE Stop \/ UNCHANGED vars
  BY <1>2, <1>5, QuietActions
<1> QED
  BY <1>3, <1>4, <1>5 DEF Next

\* Where no thread sleeps through a lap of the ring, the invariant of the channel
\* holds for any number of threads, any ring and either type of channel.
THEOREM Invariant ==
  ASSUME Lapping = FALSE
  PROVE  Spec => []IndInv
<1>1. Init => IndInv
  <2> SUFFICES ASSUME Init PROVE IndInv
    OBVIOUS
  <2>1. TypeOK
    BY InitType
  <2>2. \A i \in Slots : Pos(i) \in Nat
    BY <2>1, PosType, ChannelAssumption
  <2>3. Pos(proc_idx) = 0 /\ Pos(write_idx) = 0 /\ Pos(hold_idx) = 0
    BY DEF Init, Pos, Dist
  <2>4. IndexOrder
    BY <2>3, Order
  <2>5. \A t \in Threads : pc[t] \in {"idle", "finished", "proc_load"}
    BY DEF Init
  <2>6. ExclusiveSlot /\ Writers /\ Readers /\ Windows
    BY <2>5 DEF ExclusiveSlot, Writers, Readers, Windows, Writing, Reading, Threads, Workers
  <2>7. SlotMarks
    BY <2>2, <2>3 DEF Init, SlotMarks
  <2> QED
    BY <2>1, <2>4, <2>6, <2>7 DEF IndInv
<1>2. IndInv /\ [Next]_vars => IndInv'
  BY IndStep
<1> QED
  BY <1>1, <1>2, PTL DEF Spec

\* Nobody else touches a slot that a thread fills or hands to the devices.
THEOREM Exclusion ==
  ASSUME Lapping = FALSE
  PROVE  Spec => []ExclusiveSlot
<1>1. IndInv => ExclusiveSlot
  BY DEF IndInv
<1> QED
  BY <1>1, Invariant, PTL

\* Only complete records reach the devices.
THEOREM Completeness ==
  ASSUME Lapping = FALSE
  PROVE  Spec => []DispatchComplete
<1>1. IndInv => DispatchComplete
  BY DEF IndInv, TypeOK, DispatchComplete, Readers, SlotMarks, Threads, Workers
<1> QED
  BY <1>1, Invariant, PTL

\* HoldChannel hands out free slots only, no record is overwritten.
THEOREM NoOverwrite ==
  ASSUME Lapping = FALSE
  PROVE  Spec => []ClaimFree
<1>1. IndInv => ClaimFree
  BY DEF IndInv, ClaimFree, Writers, Writing
<1> QED
  BY <1>1, Invariant, PTL

\* The four indices never overtake each other.
THEOREM OrderedIndices ==
  ASSUME Lapping = FALSE
  PROVE  Spec => []IndexOrder
<1>1. IndInv => IndexOrder
  BY DEF IndInv
<1> QED
  BY <1>1, Invariant, PTL

\* The comment in EnterProcChannel is right about an async channel: nobody but its
\* own thread moves proc_idx, so the compare-exchange cannot fail.
THEOREM AsyncSoleDispatcher ==
  ASSUME ChannelType = "CHANNEL_ASYNC"
  PROVE  Spec => []SoleDispatcher
<1> DEFINE Fresh == \A w \in Workers : pc[w] \in ProcWindow => proc_idx = old_idx[w]
<1>1. Workers = {Consumer} /\ Consumer \notin Producers /\ Consumer \in Threads /\ ~Sync
  BY ChannelAssumption DEF Workers, Sync, Threads
<1>2. Init => Fresh
  BY <1>1 DEF Init, ProcWindow, Threads
<1>3. TypeOK /\ Fresh /\ [Next]_vars => Fresh'
  <2> SUFFICES ASSUME TypeOK, Fresh, [Next]_vars
               PROVE  pc'[Consumer] \in ProcWindow => proc_idx' = old_idx'[Consumer]
    BY <1>1
  <2> USE DEF TypeOK, ProcWindow, Goto, Threads
  <2>1. ASSUME NEW p \in Producers, StartLog(p) \/ Produce(p)
        PROVE  UNCHANGED <<proc_idx, pc[Consumer], old_idx[Consumer]>>
    BY <1>1, <2>1
       DEF Produce, StartLog, HoldState, HoldLoad, HoldFull, HoldCas, HoldMark, Fill, PushState,
           PushReady, PushStat, PushLoad, PushHold, PushMark, PushCas, PushWhile, PushExit, ring
  <2>2. CASE Process(Consumer)
    BY <1>1, <2>2
       DEF Process, ProcLoad, ProcEmpty, ProcCas, Dispatch, Release, ProcStat, ReadLoad, ReadProc,
           ReadMark, ReadCas, Tick, LoopState, LoopDrain, Finish, ring
  <2>3. CASE Stop \/ UNCHANGED vars
    BY <1>1, <2>3 DEF Stop, vars, ring
  <2> QED
    BY <1>1, <2>1, <2>2, <2>3 DEF Next
<1>4. Fresh => SoleDispatcher
  BY DEF ProcWindow, SoleDispatcher
<1> QED
  BY <1>2, <1>3, <1>4, TypeCorrect, PTL DEF Spec

-----------------------------------------------------------------------------
(* Nothing is stranded while the channel runs.                             *)

\* While the logger runs and the channel does not yet, nobody has logged, and the
\* channel's thread is on its first pass.
FirstPass ==
  logger_state = "RUNNING" =>
    /\ \A w \in Workers : pc[w] \notin {"loop_drain", "finish"}
    /\ \A w \in Workers : pc[w] = "loop_state" => channel_state = "RUNNING"
    /\ channel_state # "RUNNING" =>
         /\ channel_state = "NULL"
         /\ \A p \in Producers : pc[p] = "idle"
         /\ hold_idx = write_idx /\ write_idx = proc_idx

\* A thread that will find the record at write_idx ready, now or after it has loaded
\* the index again.
Publishes(p) ==
  \/ pc[p] \in {"push_stat", "push_load", "push_cas", "push_while"}
  \/ pc[p] \in {"push_hold", "push_mark"} /\ old_idx[p] = write_idx

\* A worker that will find the slot at read_idx released.
Returns(w) ==
  \/ pc[w] \in {"proc_stat", "read_load", "read_cas"}
  \/ pc[w] \in {"read_proc", "read_mark"} /\ old_idx[w] = read_idx

\* A thread that will find proc_idx behind write_idx.
Takes(w) ==
  \/ pc[w] \in {"push_load", "push_hold", "push_mark", "push_cas", "push_while", "push_exit",
                "proc_load", "dispatch", "release", "proc_stat", "read_load", "read_proc",
                "read_mark", "read_cas"}
  \/ pc[w] \in {"proc_empty", "proc_cas"} /\ old_idx[w] = proc_idx

RecordWatched ==
  Running /\ write_idx # hold_idx /\ data_mark[write_idx] = "READY"
  => \E p \in Producers : Publishes(p)

SlotWatched ==
  read_idx # proc_idx /\ data_mark[read_idx] = "INVALID" => \E w \in Workers : Returns(w)

PublishedWatched ==
  Sync /\ Running /\ proc_idx # write_idx => \E w \in Workers : Takes(w)

\* HoldChannel claims a slot that is not ready, and EnterProcChannel takes one that
\* is not released.
LEMMA Frontier ==
  ASSUME IndInv
  PROVE  /\ data_mark[hold_idx] = "INVALID"
         /\ proc_idx # write_idx => data_mark[proc_idx] = "READY"
<1>1. Pos(hold_idx) <= Pos(hold_idx) /\ Pos(proc_idx) <= Pos(proc_idx)
  BY PosType, ChannelAssumption DEF IndInv, TypeOK
<1>2. proc_idx # write_idx => Pos(proc_idx) < Pos(write_idx)
  BY PosType, PosInjective, Order, ChannelAssumption DEF IndInv, TypeOK
<1> QED
  BY <1>1, <1>2 DEF IndInv, TypeOK, SlotMarks

\* Nobody logs before the channel has been declared running.
LEMMA FirstPassStep ==
  ASSUME IndInv, FirstPass, [Next]_vars
  PROVE  FirstPass'
<1> USE ChannelAssumption DEF
      IndInv, TypeOK, Goto, Threads, Workers, ring, states, FirstPass, Windows
<1>1. ASSUME NEW p \in Producers, StartLog(p)
      PROVE  FirstPass'
  BY <1>1 DEF StartLog
<1>2. ASSUME NEW p \in Producers, HoldState(p)
      PROVE  FirstPass'
  BY <1>2 DEF HoldState
<1>3. ASSUME NEW p \in Producers, HoldLoad(p)
      PROVE  FirstPass'
  BY <1>3 DEF HoldLoad
<1>4. ASSUME NEW p \in Producers, HoldFull(p)
      PROVE  FirstPass'
  BY <1>4 DEF HoldFull
<1>5. ASSUME NEW p \in Producers, HoldCas(p)
      PROVE  FirstPass'
  BY <1>5 DEF HoldCas
<1>6. ASSUME NEW p \in Producers, HoldMark(p)
      PROVE  FirstPass'
  BY <1>6 DEF HoldMark
<1>7. ASSUME NEW p \in Producers, Fill(p)
      PROVE  FirstPass'
  BY <1>7 DEF Fill
<1>8. ASSUME NEW p \in Producers, PushState(p)
      PROVE  FirstPass'
  BY <1>8 DEF PushState
<1>9. ASSUME NEW p \in Producers, PushReady(p)
      PROVE  FirstPass'
  BY <1>9 DEF PushReady
<1>10. ASSUME NEW p \in Producers, PushStat(p)
      PROVE  FirstPass'
  BY <1>10 DEF PushStat
<1>11. ASSUME NEW p \in Producers, PushLoad(p)
      PROVE  FirstPass'
  BY <1>11 DEF PushLoad
<1>12. ASSUME NEW p \in Producers, PushHold(p)
      PROVE  FirstPass'
  BY <1>12 DEF PushHold
<1>13. ASSUME NEW p \in Producers, PushMark(p)
      PROVE  FirstPass'
  BY <1>13 DEF PushMark
<1>14. ASSUME NEW p \in Producers, PushCas(p)
      PROVE  FirstPass'
  BY <1>14 DEF PushCas
<1>15. ASSUME NEW p \in Producers, PushWhile(p)
      PROVE  FirstPass'
  BY <1>15 DEF PushWhile
<1>16. ASSUME NEW p \in Producers, PushExit(p)
      PROVE  FirstPass'
  BY <1>16 DEF PushExit
<1>17. ASSUME NEW w \in Workers, ProcLoad(w)
      PROVE  FirstPass'
  BY <1>17 DEF ProcLoad
<1>18. ASSUME NEW w \in Workers, ProcEmpty(w)
      PROVE  FirstPass'
  BY <1>18 DEF ProcEmpty
<1>19. ASSUME NEW w \in Workers, ProcCas(w)
      PROVE  FirstPass'
  BY <1>19 DEF ProcCas
<1>20. ASSUME NEW w \in Workers, Dispatch(w)
      PROVE  FirstPass'
  BY <1>20 DEF Dispatch
<1>21. ASSUME NEW w \in Workers, Release(w)
      PROVE  FirstPass'
  BY <1>21 DEF Release
<1>22. ASSUME NEW w \in Workers, ProcStat(w)
      PROVE  FirstPass'
  BY <1>22 DEF ProcStat
<1>23. ASSUME NEW w \in Workers, ReadLoad(w)
      PROVE  FirstPass'
  BY <1>23 DEF ReadLoad
<1>24. ASSUME NEW w \in Workers, ReadProc(w)
      PROVE  FirstPass'
  BY <1>24 DEF ReadProc
<1>25. ASSUME NEW w \in Workers, ReadMark(w)
      PROVE  FirstPass'
  BY <1>25 DEF ReadMark
<1>26. ASSUME NEW w \in Workers, ReadCas(w)
      PROVE  FirstPass'
  BY <1>26 DEF ReadCas
<1>27. ASSUME NEW w \in Workers, Tick(w)
      PROVE  FirstPass'
  BY <1>27 DEF Tick
<1>28. ASSUME NEW w \in Workers, LoopState(w)
      PROVE  FirstPass'
  BY <1>28 DEF LoopState
<1>29. ASSUME NEW w \in Workers, LoopDrain(w)
      PROVE  FirstPass'
  BY <1>29 DEF LoopDrain
<1>30. ASSUME NEW w \in Workers, Finish(w)
      PROVE  FirstPass'
  BY <1>30 DEF Finish
<1>31. CASE Stop
  BY <1>31 DEF Stop
<1>32. CASE UNCHANGED vars
  BY <1>32 DEF vars
<1> QED
  BY <1>1, <1>2, <1>3, <1>4, <1>5, <1>6, <1>7, <1>8, <1>9, <1>10, <1>11, <1>12, <1>13,
     <1>14, <1>15, <1>16, <1>17, <1>18, <1>19, <1>20, <1>21, <1>22, <1>23, <1>24, <1>25,
     <1>26, <1>27, <1>28, <1>29, <1>30, <1>31, <1>32
     DEF Next, Produce, Process

\* Whoever leaves a ready record at write_idx leaves it to a thread that will see it.
LEMMA RecordStep ==
  ASSUME IndInv, FirstPass, RecordWatched, [Next]_vars
  PROVE  RecordWatched'
<1> USE ChannelAssumption DEF
      IndInv, TypeOK, Goto, Threads, Workers, ring, states, RecordWatched, Running,
      Publishes
<1>1. ASSUME NEW p \in Producers, StartLog(p)
      PROVE  RecordWatched'
  BY <1>1 DEF StartLog
<1>2. ASSUME NEW p \in Producers, HoldState(p)
      PROVE  RecordWatched'
  BY <1>2 DEF HoldState
<1>3. ASSUME NEW p \in Producers, HoldLoad(p)
      PROVE  RecordWatched'
  BY <1>3 DEF HoldLoad
<1>4. ASSUME NEW p \in Producers, HoldFull(p)
      PROVE  RecordWatched'
  BY <1>4 DEF HoldFull
<1>5. ASSUME NEW p \in Producers, HoldCas(p)
      PROVE  RecordWatched'
  BY <1>5, Frontier DEF HoldCas
<1>6. ASSUME NEW p \in Producers, HoldMark(p)
      PROVE  RecordWatched'
  BY <1>6 DEF HoldMark
<1>7. ASSUME NEW p \in Producers, Fill(p)
      PROVE  RecordWatched'
  BY <1>7 DEF Fill
<1>8. ASSUME NEW p \in Producers, PushState(p)
      PROVE  RecordWatched'
  BY <1>8 DEF PushState
<1>9. ASSUME NEW p \in Producers, PushReady(p)
      PROVE  RecordWatched'
  BY <1>9 DEF PushReady
<1>10. ASSUME NEW p \in Producers, PushStat(p)
      PROVE  RecordWatched'
  BY <1>10 DEF PushStat
<1>11. ASSUME NEW p \in Producers, PushLoad(p)
      PROVE  RecordWatched'
  BY <1>11 DEF PushLoad
<1>12. ASSUME NEW p \in Producers, PushHold(p)
      PROVE  RecordWatched'
  BY <1>12 DEF PushHold
<1>13. ASSUME NEW p \in Producers, PushMark(p)
      PROVE  RecordWatched'
  BY <1>13 DEF PushMark
<1>14. ASSUME NEW p \in Producers, PushCas(p)
      PROVE  RecordWatched'
  BY <1>14 DEF PushCas
<1>15. ASSUME NEW p \in Producers, PushWhile(p)
      PROVE  RecordWatched'
  BY <1>15 DEF PushWhile
<1>16. ASSUME NEW p \in Producers, PushExit(p)
      PROVE  RecordWatched'
  BY <1>16 DEF PushExit
<1>17. ASSUME NEW w \in Workers, ProcLoad(w)
      PROVE  RecordWatched'
  BY <1>17 DEF ProcLoad
<1>18. ASSUME NEW w \in Workers, ProcEmpty(w)
      PROVE  RecordWatched'
  BY <1>18 DEF ProcEmpty
<1>19. ASSUME NEW w \in Workers, ProcCas(w)
      PROVE  RecordWatched'
  BY <1>19 DEF ProcCas
<1>20. ASSUME NEW w \in Workers, Dispatch(w)
      PROVE  RecordWatched'
  BY <1>20 DEF Dispatch
<1>21. ASSUME NEW w \in Workers, Release(w)
      PROVE  RecordWatched'
  BY <1>21 DEF Release
<1>22. ASSUME NEW w \in Workers, ProcStat(w)
      PROVE  RecordWatched'
  BY <1>22 DEF ProcStat
<1>23. ASSUME NEW w \in Workers, ReadLoad(w)
      PROVE  RecordWatched'
  BY <1>23 DEF ReadLoad
<1>24. ASSUME NEW w \in Workers, ReadProc(w)
      PROVE  RecordWatched'
  BY <1>24 DEF ReadProc
<1>25. ASSUME NEW w \in Workers, ReadMark(w)
      PROVE  RecordWatched'
  BY <1>25 DEF ReadMark
<1>26. ASSUME NEW w \in Workers, ReadCas(w)
      PROVE  RecordWatched'
  BY <1>26 DEF ReadCas
<1>27. ASSUME NEW w \in Workers, Tick(w)
      PROVE  RecordWatched'
  BY <1>27 DEF Tick, FirstPass
<1>28. ASSUME NEW w \in Workers, LoopState(w)
      PROVE  RecordWatched'
  BY <1>28 DEF LoopState
<1>29. ASSUME NEW w \in Workers, LoopDrain(w)
      PROVE  RecordWatched'
  BY <1>29 DEF LoopDrain
<1>30. ASSUME NEW w \in Workers, Finish(w)
      PROVE  RecordWatched'
  BY <1>30 DEF Finish
<1>31. CASE Stop
  BY <1>31 DEF Stop
<1>32. CASE UNCHANGED vars
  BY <1>32 DEF vars
<1> QED
  BY <1>1, <1>2, <1>3, <1>4, <1>5, <1>6, <1>7, <1>8, <1>9, <1>10, <1>11, <1>12, <1>13,
     <1>14, <1>15, <1>16, <1>17, <1>18, <1>19, <1>20, <1>21, <1>22, <1>23, <1>24, <1>25,
     <1>26, <1>27, <1>28, <1>29, <1>30, <1>31, <1>32
     DEF Next, Produce, Process

\* Whoever leaves a released slot at read_idx leaves it to a worker that will see it.
LEMMA SlotStep ==
  ASSUME IndInv, SlotWatched, [Next]_vars
  PROVE  SlotWatched'
<1> USE ChannelAssumption DEF
      IndInv, TypeOK, Goto, Threads, Workers, ring, states, SlotWatched, Returns
<1>1. ASSUME NEW p \in Producers, StartLog(p)
      PROVE  SlotWatched'
  BY <1>1 DEF StartLog
<1>2. ASSUME NEW p \in Producers, HoldState(p)
      PROVE  SlotWatched'
  BY <1>2 DEF HoldState
<1>3. ASSUME NEW p \in Producers, HoldLoad(p)
      PROVE  SlotWatched'
  BY <1>3 DEF HoldLoad
<1>4. ASSUME NEW p \in Producers, HoldFull(p)
      PROVE  SlotWatched'
  BY <1>4 DEF HoldFull
<1>5. ASSUME NEW p \in Producers, HoldCas(p)
      PROVE  SlotWatched'
  BY <1>5 DEF HoldCas
<1>6. ASSUME NEW p \in Producers, HoldMark(p)
      PROVE  SlotWatched'
  BY <1>6 DEF HoldMark
<1>7. ASSUME NEW p \in Producers, Fill(p)
      PROVE  SlotWatched'
  BY <1>7 DEF Fill
<1>8. ASSUME NEW p \in Producers, PushState(p)
      PROVE  SlotWatched'
  BY <1>8 DEF PushState
<1>9. ASSUME NEW p \in Producers, PushReady(p)
      PROVE  SlotWatched'
  BY <1>9 DEF PushReady
<1>10. ASSUME NEW p \in Producers, PushStat(p)
      PROVE  SlotWatched'
  BY <1>10 DEF PushStat
<1>11. ASSUME NEW p \in Producers, PushLoad(p)
      PROVE  SlotWatched'
  BY <1>11 DEF PushLoad
<1>12. ASSUME NEW p \in Producers, PushHold(p)
      PROVE  SlotWatched'
  BY <1>12 DEF PushHold
<1>13. ASSUME NEW p \in Producers, PushMark(p)
      PROVE  SlotWatched'
  BY <1>13 DEF PushMark
<1>14. ASSUME NEW p \in Producers, PushCas(p)
      PROVE  SlotWatched'
  BY <1>14 DEF PushCas
<1>15. ASSUME NEW p \in Producers, PushWhile(p)
      PROVE  SlotWatched'
  BY <1>15 DEF PushWhile
<1>16. ASSUME NEW p \in Producers, PushExit(p)
      PROVE  SlotWatched'
  BY <1>16 DEF PushExit
<1>17. ASSUME NEW w \in Workers, ProcLoad(w)
      PROVE  SlotWatched'
  BY <1>17 DEF ProcLoad
<1>18. ASSUME NEW w \in Workers, ProcEmpty(w)
      PROVE  SlotWatched'
  BY <1>18 DEF ProcEmpty
<1>19. ASSUME NEW w \in Workers, ProcCas(w)
      PROVE  SlotWatched'
  BY <1>19, Frontier DEF ProcCas, Windows
<1>20. ASSUME NEW w \in Workers, Dispatch(w)
      PROVE  SlotWatched'
  BY <1>20 DEF Dispatch
<1>21. ASSUME NEW w \in Workers, Release(w)
      PROVE  SlotWatched'
  BY <1>21 DEF Release
<1>22. ASSUME NEW w \in Workers, ProcStat(w)
      PROVE  SlotWatched'
  BY <1>22 DEF ProcStat
<1>23. ASSUME NEW w \in Workers, ReadLoad(w)
      PROVE  SlotWatched'
  BY <1>23 DEF ReadLoad
<1>24. ASSUME NEW w \in Workers, ReadProc(w)
      PROVE  SlotWatched'
  BY <1>24 DEF ReadProc
<1>25. ASSUME NEW w \in Workers, ReadMark(w)
      PROVE  SlotWatched'
  BY <1>25 DEF ReadMark
<1>26. ASSUME NEW w \in Workers, ReadCas(w)
      PROVE  SlotWatched'
  BY <1>26 DEF ReadCas
<1>27. ASSUME NEW w \in Workers, Tick(w)
      PROVE  SlotWatched'
  BY <1>27 DEF Tick
<1>28. ASSUME NEW w \in Workers, LoopState(w)
      PROVE  SlotWatched'
  BY <1>28 DEF LoopState
<1>29. ASSUME NEW w \in Workers, LoopDrain(w)
      PROVE  SlotWatched'
  BY <1>29 DEF LoopDrain
<1>30. ASSUME NEW w \in Workers, Finish(w)
      PROVE  SlotWatched'
  BY <1>30 DEF Finish
<1>31. CASE Stop
  BY <1>31 DEF Stop
<1>32. CASE UNCHANGED vars
  BY <1>32 DEF vars
<1> QED
  BY <1>1, <1>2, <1>3, <1>4, <1>5, <1>6, <1>7, <1>8, <1>9, <1>10, <1>11, <1>12, <1>13,
     <1>14, <1>15, <1>16, <1>17, <1>18, <1>19, <1>20, <1>21, <1>22, <1>23, <1>24, <1>25,
     <1>26, <1>27, <1>28, <1>29, <1>30, <1>31, <1>32
     DEF Next, Produce, Process

\* Whoever leaves a published record behind leaves it to a thread that will take it.
LEMMA PublishedStep ==
  ASSUME IndInv, FirstPass, PublishedWatched, [Next]_vars
  PROVE  PublishedWatched'
<1> USE ChannelAssumption DEF
      IndInv, TypeOK, Goto, Threads, Workers, ring, states, PublishedWatched, Running,
      Takes, Sync
<1>1. ASSUME NEW p \in Producers, StartLog(p)
      PROVE  PublishedWatched'
  BY <1>1 DEF StartLog
<1>2. ASSUME NEW p \in Producers, HoldState(p)
      PROVE  PublishedWatched'
  BY <1>2 DEF HoldState
<1>3. ASSUME NEW p \in Producers, HoldLoad(p)
      PROVE  PublishedWatched'
  BY <1>3 DEF HoldLoad
<1>4. ASSUME NEW p \in Producers, HoldFull(p)
      PROVE  PublishedWatched'
  BY <1>4 DEF HoldFull
<1>5. ASSUME NEW p \in Producers, HoldCas(p)
      PROVE  PublishedWatched'
  BY <1>5 DEF HoldCas
<1>6. ASSUME NEW p \in Producers, HoldMark(p)
      PROVE  PublishedWatched'
  BY <1>6 DEF HoldMark
<1>7. ASSUME NEW p \in Producers, Fill(p)
      PROVE  PublishedWatched'
  BY <1>7 DEF Fill
<1>8. ASSUME NEW p \in Producers, PushState(p)
      PROVE  PublishedWatched'
  BY <1>8 DEF PushState
<1>9. ASSUME NEW p \in Producers, PushReady(p)
      PROVE  PublishedWatched'
  BY <1>9 DEF PushReady
<1>10. ASSUME NEW p \in Producers, PushStat(p)
      PROVE  PublishedWatched'
  BY <1>10 DEF PushStat
<1>11. ASSUME NEW p \in Producers, PushLoad(p)
      PROVE  PublishedWatched'
  BY <1>11 DEF PushLoad
<1>12. ASSUME NEW p \in Producers, PushHold(p)
      PROVE  PublishedWatched'
  BY <1>12 DEF PushHold
<1>13. ASSUME NEW p \in Producers, PushMark(p)
      PROVE  PublishedWatched'
  BY <1>13 DEF PushMark
<1>14. ASSUME NEW p \in Producers, PushCas(p)
      PROVE  PublishedWatched'
  BY <1>14 DEF PushCas
<1>15. ASSUME NEW p \in Producers, PushWhile(p)
      PROVE  PublishedWatched'
  BY <1>15 DEF PushWhile
<1>16. ASSUME NEW p \in Producers, PushExit(p)
      PROVE  PublishedWatched'
  BY <1>16 DEF PushExit
<1>17. ASSUME NEW w \in Workers, ProcLoad(w)
      PROVE  PublishedWatched'
  BY <1>17 DEF ProcLoad
<1>18. ASSUME NEW w \in Workers, ProcEmpty(w)
      PROVE  PublishedWatched'
  BY <1>18 DEF ProcEmpty
<1>19. ASSUME NEW w \in Workers, ProcCas(w)
      PROVE  PublishedWatched'
  BY <1>19 DEF ProcCas
<1>20. ASSUME NEW w \in Workers, Dispatch(w)
      PROVE  PublishedWatched'
  BY <1>20 DEF Dispatch
<1>21. ASSUME NEW w \in Workers, Release(w)
      PROVE  PublishedWatched'
  BY <1>21 DEF Release
<1>22. ASSUME NEW w \in Workers, ProcStat(w)
      PROVE  PublishedWatched'
  BY <1>22 DEF ProcStat
<1>23. ASSUME NEW w \in Workers, ReadLoad(w)
      PROVE  PublishedWatched'
  BY <1>23 DEF ReadLoad
<1>24. ASSUME NEW w \in Workers, ReadProc(w)
      PROVE  PublishedWatched'
  BY <1>24 DEF ReadProc
<1>25. ASSUME NEW w \in Workers, ReadMark(w)
      PROVE  PublishedWatched'
  BY <1>25 DEF ReadMark
<1>26. ASSUME NEW w \in Workers, ReadCas(w)
      PROVE  PublishedWatched'
  BY <1>26 DEF ReadCas
<1>27. ASSUME NEW w \in Workers, Tick(w)
      PROVE  PublishedWatched'
  BY <1>27 DEF Tick, FirstPass
<1>28. ASSUME NEW w \in Workers, LoopState(w)
      PROVE  PublishedWatched'
  BY <1>28 DEF LoopState
<1>29. ASSUME NEW w \in Workers, LoopDrain(w)
      PROVE  PublishedWatched'
  BY <1>29 DEF LoopDrain
<1>30. ASSUME NEW w \in Workers, Finish(w)
      PROVE  PublishedWatched'
  BY <1>30 DEF Finish
<1>31. CASE Stop
  BY <1>31 DEF Stop
<1>32. CASE UNCHANGED vars
  BY <1>32 DEF vars
<1> QED
  BY <1>1, <1>2, <1>3, <1>4, <1>5, <1>6, <1>7, <1>8, <1>9, <1>10, <1>11, <1>12, <1>13,
     <1>14, <1>15, <1>16, <1>17, <1>18, <1>19, <1>20, <1>21, <1>22, <1>23, <1>24, <1>25,
     <1>26, <1>27, <1>28, <1>29, <1>30, <1>31, <1>32
     DEF Next, Produce, Process

\* Every record and slot that waits is watched, while nobody sleeps through a lap.
LEMMA Watched ==
  ASSUME Lapping = FALSE
  PROVE  Spec => [](RecordWatched /\ SlotWatched /\ PublishedWatched)
<1> DEFINE All == FirstPass /\ RecordWatched /\ SlotWatched /\ PublishedWatched
<1>1. Init => All
  BY ChannelAssumption
     DEF Init, FirstPass, RecordWatched, SlotWatched, PublishedWatched, Threads, Workers, Sync
<1>2. IndInv /\ All /\ [Next]_vars => All'
  BY FirstPassStep, RecordStep, SlotStep, PublishedStep
<1>3. All => RecordWatched /\ SlotWatched /\ PublishedWatched
  OBVIOUS
<1> QED
  BY <1>1, <1>2, <1>3, Invariant, PTL DEF Spec

\* No two pushers, each publishing whatever it finds ready at write_idx, leave a ready
\* record to nobody in a running channel.
THEOREM RecordNotStranded ==
  ASSUME Lapping = FALSE
  PROVE  Spec => []NoStrandedRecord
<1>1. RecordWatched => NoStrandedRecord
  BY DEF RecordWatched, NoStrandedRecord, Publishes
<1> QED
  BY <1>1, Watched, PTL

\* No slot that was dispatched and released is lost to the ring: a worker is still on
\* its way to move read_idx over it.
THEOREM SlotNotStranded ==
  ASSUME Lapping = FALSE
  PROVE  Spec => []NoStrandedSlot
<1>1. SlotWatched => NoStrandedSlot
  BY DEF SlotWatched, NoStrandedSlot, Returns
<1> QED
  BY <1>1, Watched, PTL

\* On a sync channel, where no thread waits for records, the threads that log leave no
\* published record behind while the channel runs.
THEOREM PublishedNotStranded ==
  ASSUME Lapping = FALSE
  PROVE  Spec => []NoStrandedPublished
<1>1. PublishedWatched => NoStrandedPublished
  BY DEF PublishedWatched, NoStrandedPublished, Takes
<1> QED
  BY <1>1, Watched, PTL
=============================================================================
