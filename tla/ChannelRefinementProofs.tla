----------------------- MODULE ChannelRefinementProofs -----------------------
(***************************************************************************)
(* Channel implements LogQueue, for any set of producers, any ring of at   *)
(* least two slots and both channel types.                                 *)
(***************************************************************************)
EXTENDS ChannelRefinement, ChannelProofs, SequenceTheorems

-----------------------------------------------------------------------------
(* Slots and cells.                                                        *)

\* SlotAt counts slots from read_idx, as Pos does.
LEMMA SlotAtPos ==
  ASSUME TypeOK
  PROVE  /\ \A k \in 0 .. BUFFER_LEN - 1 : SlotAt(k) \in Slots /\ Pos(SlotAt(k)) = k
         /\ \A i \in Slots : SlotAt(Pos(i)) = i
BY ChannelAssumption DEF TypeOK, SlotAt, Pos, Dist, Slots

CellSet == [state : {"pending", "filled", "delivered"}, data : Data \cup {NoData}]

CellsOK ==
  /\ Pos(hold_idx) \in 0 .. BUFFER_LEN - 1
  /\ Cells \in Seq(CellSet)
  /\ Len(Cells) = Pos(hold_idx)
  /\ \A k \in 1 .. Pos(hold_idx) : Cells[k] = Cell(SlotAt(k - 1))
  /\ \A i \in Slots : Pos(i) < Pos(hold_idx) => Cells[Pos(i) + 1] = Cell(i)

\* The cells form a sequence, one for each slot from read_idx to hold_idx.
LEMMA CellsSeq == TypeOK => CellsOK
<1> SUFFICES ASSUME TypeOK PROVE CellsOK
  OBVIOUS
<1>1. Pos(hold_idx) \in 0 .. BUFFER_LEN - 1
  BY PosType DEF TypeOK
<1>2. Cells = [k \in 1 .. Pos(hold_idx) |-> Cell(SlotAt(k - 1))]
  BY DEF Cells, Pos
<1>3. \A k \in 1 .. Pos(hold_idx) : k - 1 \in 0 .. BUFFER_LEN - 1
  BY <1>1, ChannelAssumption
<1>4. \A i \in Slots : Cell(i) \in CellSet
  BY DEF Cell, CellSet, TypeOK
<1>5. \A k \in 1 .. Pos(hold_idx) : Cell(SlotAt(k - 1)) \in CellSet
  BY <1>3, <1>4, SlotAtPos
<1>6. \A i \in Slots : Pos(i) < Pos(hold_idx) => Pos(i) + 1 \in 1 .. Pos(hold_idx)
  BY <1>1, PosType, ChannelAssumption
<1>7. \A i \in Slots : Pos(i) < Pos(hold_idx) => Cells[Pos(i) + 1] = Cell(SlotAt(Pos(i)))
  BY <1>2, <1>6, PosType, ChannelAssumption
<1>8. Cells \in Seq(CellSet) /\ Len(Cells) = Pos(hold_idx)
  BY <1>1, <1>2, <1>5
<1> QED
  BY <1>1, <1>2, <1>7, <1>8, SlotAtPos DEF CellsOK

\* The cells stay as they are when every claimed slot's cell does.
LEMMA CellsSame ==
  ASSUME TypeOK, UNCHANGED <<read_idx, hold_idx>>,
         \A i \in Slots : Cell(i)' = Cell(i)
  PROVE  Cells' = Cells
<1>1. Cells' = [k \in 1 .. Pos(hold_idx) |-> Cell(SlotAt(k - 1))']
  BY DEF Cells, Pos, Dist
<1>2. Cells = [k \in 1 .. Pos(hold_idx) |-> Cell(SlotAt(k - 1))]
  BY DEF Cells, Pos
<1>3. ASSUME NEW k \in 1 .. Pos(hold_idx)
      PROVE  Cell(SlotAt(k - 1))' = Cell(SlotAt(k - 1))
  <2>1. k - 1 \in 0 .. BUFFER_LEN - 1
    BY PosType, ChannelAssumption DEF TypeOK
  <2>2. SlotAt(k - 1) \in Slots /\ SlotAt(k - 1)' = SlotAt(k - 1)
    BY <2>1, SlotAtPos DEF SlotAt
  <2> QED
    BY <2>2
<1> QED
  BY <1>1, <1>2, <1>3

-----------------------------------------------------------------------------
(* Steps that leave the queue alone.                                       *)

\* What a step that changes no cell may do.
Still ==
  /\ UNCHANGED <<ring, data_mark, content, log, out>>
  /\ \A w \in Workers : pc'[w] = "dispatch" <=> pc[w] = "dispatch"

\* It changes no cell, indeed.
LEMMA StillStep ==
  ASSUME TypeOK, Still
  PROVE  Cells' = Cells /\ out' = out
<1>1. UNCHANGED <<hold_idx, write_idx, proc_idx, read_idx>>
  BY DEF Still, ring
<1>2. \A i \in Slots : Cell(i)' = Cell(i)
  BY <1>1 DEF Still, Cell, PastDispatch, Dist
<1> QED
  BY <1>1, <1>2, CellsSame DEF Still

\* Steps that only move a thread, and compare-exchanges that fail, are still, except
\* that Dispatch delivers.
LEMMA StillActions ==
  ASSUME TypeOK
  PROVE  /\ \A p \in Producers : QuietProduce(p) => Still
         /\ \A w \in Workers : QuietProcess(w) /\ ~Dispatch(w) => Still
         /\ Stop \/ UNCHANGED vars => Still
<1> USE DEF Still, TypeOK, Goto, ring, Threads, Workers
<1>1. ASSUME NEW p \in Producers, QuietProduce(p)
      PROVE  Still
  BY <1>1
     DEF QuietProduce, StartLog, HoldState, HoldLoad, HoldFull, HoldCas, PushState, PushStat,
         PushLoad, PushHold, PushMark, PushCas, PushWhile, PushExit
<1>2. ASSUME NEW w \in Workers, QuietProcess(w), ~Dispatch(w)
      PROVE  Still
  BY <1>2
     DEF QuietProcess, ProcLoad, ProcEmpty, ProcCas, ProcStat, ReadLoad, ReadProc, ReadMark,
         ReadCas, Tick, LoopState, LoopDrain, Finish
<1>3. Stop \/ UNCHANGED vars => Still
  BY DEF Stop, vars, states
<1> QED
  BY <1>1, <1>2, <1>3

\* HoldChannel marks its slot held, which is not ready before or after.
LEMMA HoldMarkCells ==
  ASSUME IndInv, NEW p \in Producers, HoldMark(p)
  PROVE  Cells' = Cells /\ out' = out
<1>1. data_mark[log[p]] = "INVALID" /\ data_mark' = [data_mark EXCEPT ![log[p]] = "HOLD"]
  BY DEF HoldMark, Goto, IndInv, Writers, Writing
<1>2. \A w \in Workers : pc'[w] = "dispatch" <=> pc[w] = "dispatch"
  BY DEF HoldMark, Goto, IndInv, TypeOK, Workers, Threads
<1>3. \A i \in Slots : PastDispatch(i)' <=> PastDispatch(i)
  BY <1>2 DEF HoldMark, ring, PastDispatch, Dist
<1>4. \A i \in Slots : Cell(i)' = Cell(i)
  BY <1>1, <1>3 DEF HoldMark, Cell, IndInv, TypeOK
<1> QED
  BY <1>4, CellsSame DEF HoldMark, ring, IndInv

\* A record is written into a slot that is not ready.
LEMMA FillCells ==
  ASSUME IndInv, NEW p \in Producers, Fill(p)
  PROVE  Cells' = Cells /\ out' = out
<1>1. data_mark[log[p]] = "HOLD"
  BY DEF Fill, Goto, IndInv, Writers, Writing
<1>2. \A w \in Workers : pc'[w] = "dispatch" <=> pc[w] = "dispatch"
  BY DEF Fill, Goto, IndInv, TypeOK, Workers, Threads
<1>3. \A i \in Slots : PastDispatch(i)' <=> PastDispatch(i)
  BY <1>2 DEF Fill, ring, PastDispatch, Dist
<1>4. \A i \in Slots : i # log[p] => content'[i] = content[i]
  BY DEF Fill, IndInv, TypeOK
<1>5. \A i \in Slots : Cell(i)' = Cell(i)
  BY <1>1, <1>3, <1>4 DEF Fill, Cell
<1> QED
  BY <1>5, CellsSame DEF Fill, ring, IndInv

\* Publishing a record moves write_idx, which no cell depends on.
LEMMA PushCasCells ==
  ASSUME IndInv, NEW p \in Producers, PushCas(p)
  PROVE  Cells' = Cells /\ out' = out
<1>1. \A w \in Workers : pc'[w] = "dispatch" <=> pc[w] = "dispatch"
  BY DEF PushCas, Goto, IndInv, TypeOK, Workers, Threads
<1>2. \A i \in Slots : Cell(i)' = Cell(i)
  BY <1>1 DEF PushCas, Cell, PastDispatch, Dist
<1> QED
  BY <1>2, CellsSame DEF PushCas, IndInv

\* The slot at proc_idx is taken by a worker that has yet to dispatch it.
LEMMA ProcCasCells ==
  ASSUME IndInv, IndInv', NEW w \in Workers, ProcCas(w), proc_idx = old_idx[w]
  PROVE  Cells' = Cells /\ out' = out
<1>1. /\ pc[w] = "proc_cas" /\ pc'[w] = "dispatch" /\ log'[w] = proc_idx
      /\ \A v \in Workers : v # w => pc'[v] = pc[v] /\ log'[v] = log[v]
      /\ proc_idx' = NextIdx(proc_idx) /\ proc_idx # write_idx
      /\ UNCHANGED <<hold_idx, write_idx, read_idx, data_mark, content, out>>
  BY DEF ProcCas, Goto, IndInv, TypeOK, Windows, Workers, Threads
<1>2. Pos(proc_idx') = Pos(proc_idx) + 1
  <2>1. Pos(proc_idx) < Pos(write_idx)
    BY <1>1, PosInjective, PosType, Order, ChannelAssumption DEF IndInv, TypeOK
  <2>2. NextIdx(proc_idx) # read_idx
    <3>1. proc_idx \in Slots /\ write_idx \in Slots /\ read_idx \in Slots
      BY DEF IndInv, TypeOK
    <3> QED
      BY <2>1, <3>1, ChannelAssumption DEF Pos, Dist, NextIdx, Slots
  <2> QED
    BY <1>1, <2>2, PosNext DEF IndInv, TypeOK
<1>3. \A i \in Slots : Pos(i) < Pos(proc_idx') <=> Pos(i) < Pos(proc_idx) \/ i = proc_idx
  BY <1>2, PosType, PosInjective, ChannelAssumption DEF IndInv, TypeOK
<1>4. \A i \in Slots : i # proc_idx => (PastDispatch(i)' <=> PastDispatch(i))
  BY <1>1, <1>3 DEF PastDispatch, Pos, Dist
<1>5. \A i \in Slots : i = proc_idx => ~PastDispatch(i) /\ ~PastDispatch(i)'
  BY <1>1, PosType, ChannelAssumption DEF IndInv, TypeOK, PastDispatch, Pos, Dist
<1>6. \A i \in Slots : PastDispatch(i)' <=> PastDispatch(i)
  BY <1>4, <1>5
<1>7. \A i \in Slots : Cell(i)' = Cell(i)
  BY <1>1, <1>6 DEF Cell
<1> QED
  BY <1>1, <1>7, CellsSame DEF IndInv

\* A worker gives back a slot that it has dispatched.
LEMMA ReleaseCells ==
  ASSUME IndInv, NEW w \in Workers, Release(w)
  PROVE  Cells' = Cells /\ out' = out
<1>1. /\ pc[w] = "release" /\ w \in Threads
      /\ data_mark' = [data_mark EXCEPT ![log[w]] = "INVALID"]
      /\ log[w] \in Slots /\ Pos(log[w]) < Pos(proc_idx)
      /\ UNCHANGED <<hold_idx, proc_idx, read_idx, content, log, out>>
  BY DEF Release, Goto, ring, IndInv, TypeOK, Readers, Reading, Workers, Threads
<1>2. \A v \in Workers : pc'[v] = "dispatch" <=> pc[v] = "dispatch"
  BY DEF Release, Goto, IndInv, TypeOK, Workers, Threads
<1>3. \A i \in Slots : PastDispatch(i)' <=> PastDispatch(i)
  BY <1>1, <1>2 DEF PastDispatch, Dist
<1>4. \A v \in Workers : pc[v] = "dispatch" => log[v] # log[w]
  BY <1>1 DEF IndInv, ExclusiveSlot, Reading, Workers, Threads
<1>5. PastDispatch(log[w])
  BY <1>1, <1>4 DEF PastDispatch, Pos
<1>6. \A i \in Slots : i # log[w] => data_mark'[i] = data_mark[i]
  BY <1>1 DEF IndInv, TypeOK
<1>7. \A i \in Slots : Cell(i)' = Cell(i)
  BY <1>1, <1>3, <1>5, <1>6 DEF Cell
<1> QED
  BY <1>1, <1>7, CellsSame DEF IndInv

-----------------------------------------------------------------------------
(* Steps that change the queue.                                            *)

\* HoldChannel reserves a cell at the end.
LEMMA HoldCasReserves ==
  ASSUME IndInv, IndInv', NEW p \in Producers, HoldCas(p), hold_idx = old_idx[p]
  PROVE  Queue!Reserve
<1>1. /\ pc[p] = "hold_cas" /\ pc' = [pc EXCEPT ![p] = "hold_mark"]
      /\ log' = [log EXCEPT ![p] = hold_idx]
      /\ hold_idx' = NextIdx(hold_idx) /\ NextIdx(hold_idx) # read_idx
      /\ UNCHANGED <<write_idx, proc_idx, read_idx, data_mark, content, out>>
  BY DEF HoldCas, Goto, IndInv, Windows, Threads
<1>2. Pos(hold_idx') = Pos(hold_idx) + 1 /\ Pos(hold_idx)' = Pos(hold_idx')
  BY <1>1, PosNext DEF IndInv, TypeOK, Pos, Dist
<1>3. \A w \in Workers : pc'[w] = "dispatch" <=> pc[w] = "dispatch"
  BY <1>1 DEF IndInv, TypeOK, Workers, Threads
<1>4. \A w \in Workers : pc[w] = "dispatch" => log'[w] = log[w]
  BY <1>1 DEF IndInv, TypeOK, Workers, Threads
<1>5. \A i \in Slots : Cell(i)' = Cell(i)
  BY <1>1, <1>3, <1>4 DEF Cell, PastDispatch, Dist
<1>6. Cell(hold_idx) = Queue!Pending
  <2>1. ~PastDispatch(hold_idx)
    BY PosType, Order, ChannelAssumption DEF IndInv, TypeOK, PastDispatch, Pos
  <2> QED
    BY <2>1, Frontier DEF Cell, Queue!Pending
<1>7. \A k \in 0 .. BUFFER_LEN - 1 : SlotAt(k)' = SlotAt(k)
  BY <1>1 DEF SlotAt
<1>8. /\ Cells \in Seq(CellSet) /\ Len(Cells) = Pos(hold_idx)
      /\ Cells' \in Seq(CellSet) /\ Len(Cells') = Pos(hold_idx) + 1
      /\ Pos(hold_idx) \in Nat /\ Pos(hold_idx) + 1 <= BUFFER_LEN - 1
      /\ \A k \in 1 .. Pos(hold_idx) + 1 : Cells'[k] = Cell(SlotAt(k - 1))'
  <2>1. CellsOK /\ CellsOK'
    BY CellsSeq, PTL DEF IndInv
  <2> QED
    BY <1>2, <2>1, ChannelAssumption DEF CellsOK
<1>9. ASSUME NEW k \in 1 .. Pos(hold_idx) + 1
      PROVE  Cells'[k] = IF k = Pos(hold_idx) + 1 THEN Queue!Pending ELSE Cells[k]
  <2>1. k - 1 \in 0 .. BUFFER_LEN - 1
    BY <1>8, ChannelAssumption
  <2>2. SlotAt(k - 1) \in Slots /\ SlotAt(k - 1)' = SlotAt(k - 1)
    BY <2>1, <1>7, SlotAtPos DEF IndInv
  <2>3. Cells'[k] = Cell(SlotAt(k - 1))
    BY <1>5, <1>8, <2>2
  <2>4. CASE k = Pos(hold_idx) + 1
    <3>1. k - 1 = Pos(hold_idx) /\ SlotAt(Pos(hold_idx)) = hold_idx
      BY <2>4, <1>8, SlotAtPos DEF IndInv, TypeOK
    <3> QED
      BY <1>6, <2>3, <2>4, <3>1
  <2>5. CASE k # Pos(hold_idx) + 1
    BY <1>8, <2>3, <2>5, CellsSeq DEF IndInv, CellsOK
  <2> QED
    BY <2>4, <2>5
<1>10. Cells' = Append(Cells, Queue!Pending)
  <2>1. Queue!Pending \in CellSet
    BY DEF CellSet, Queue!Pending
  <2>2. /\ Append(Cells, Queue!Pending) \in Seq(CellSet)
        /\ Len(Append(Cells, Queue!Pending)) = Pos(hold_idx) + 1
        /\ \A k \in 1 .. Pos(hold_idx) : Append(Cells, Queue!Pending)[k] = Cells[k]
        /\ Append(Cells, Queue!Pending)[Pos(hold_idx) + 1] = Queue!Pending
    BY <1>8, <2>1, AppendProperties
  <2>3. \A k \in 1 .. Pos(hold_idx) + 1 : Cells'[k] = Append(Cells, Queue!Pending)[k]
    BY <1>8, <1>9, <2>2
  <2>4. Len(Cells') = Len(Append(Cells, Queue!Pending))
    BY <1>8, <2>2
  <2>5. \A k \in 1 .. Len(Cells') : Cells'[k] = Append(Cells, Queue!Pending)[k]
    BY <1>8, <2>3
  <2> QED
    BY <1>8, <2>2, <2>4, <2>5, SeqEqual
<1> QED
  BY <1>1, <1>8, <1>10, ChannelAssumption DEF Queue!Reserve

\* What one cell is after a step is all there is to show of a step that changes one.
LEMMA OneCell ==
  ASSUME IndInv, IndInv', UNCHANGED <<read_idx, hold_idx>>, NEW s \in Slots,
         Pos(s) < Pos(hold_idx), NEW c \in CellSet, \A i \in Slots : i = s => Cell(i)' = c,
         \A i \in Slots : i # s => Cell(i)' = Cell(i)
  PROVE  /\ Pos(s) + 1 \in DOMAIN Cells /\ Cells[Pos(s) + 1] = Cell(s)
         /\ Cells' = [Cells EXCEPT ![Pos(s) + 1] = c]
<1>1. /\ CellsOK /\ CellsOK' /\ Pos(hold_idx)' = Pos(hold_idx)
      /\ Pos(s) \in Nat /\ Pos(hold_idx) \in Nat
  <2>1. CellsOK /\ CellsOK'
    BY CellsSeq, PTL DEF IndInv
  <2>2. Pos(hold_idx)' = Pos(hold_idx)
    BY DEF Pos, Dist
  <2>3. Pos(s) \in Nat /\ Pos(hold_idx) \in Nat
    BY PosType, ChannelAssumption DEF IndInv, TypeOK
  <2> QED
    BY <2>1, <2>2, <2>3
<1>2. /\ Cells \in Seq(CellSet) /\ Len(Cells) = Pos(hold_idx)
      /\ Cells' \in Seq(CellSet) /\ Len(Cells') = Pos(hold_idx)
      /\ \A k \in 1 .. Pos(hold_idx) : Cells[k] = Cell(SlotAt(k - 1))
      /\ \A k \in 1 .. Pos(hold_idx) : Cells'[k] = Cell(SlotAt(k - 1))'
  BY <1>1 DEF CellsOK
<1>3. Pos(s) + 1 \in 1 .. Len(Cells) /\ DOMAIN Cells = 1 .. Len(Cells)
  BY <1>1, <1>2, LenProperties
<1>4. ASSUME NEW k \in 1 .. Pos(hold_idx)
      PROVE  Cells'[k] = IF k = Pos(s) + 1 THEN c ELSE Cells[k]
  <2>1. k - 1 \in 0 .. BUFFER_LEN - 1
    BY <1>1, PosType, ChannelAssumption DEF IndInv, TypeOK
  <2>2. SlotAt(k - 1) \in Slots /\ Pos(SlotAt(k - 1)) = k - 1 /\ SlotAt(k - 1)' = SlotAt(k - 1)
    BY <2>1, SlotAtPos DEF IndInv, SlotAt
  <2>3. k = Pos(s) + 1 <=> SlotAt(k - 1) = s
    BY <1>1, <2>2, PosInjective DEF IndInv
  <2> QED
    BY <1>2, <2>2, <2>3
<1>5. /\ [Cells EXCEPT ![Pos(s) + 1] = c] \in Seq(CellSet)
      /\ Len([Cells EXCEPT ![Pos(s) + 1] = c]) = Pos(hold_idx)
      /\ \A k \in 1 .. Pos(hold_idx) :
           [Cells EXCEPT ![Pos(s) + 1] = c][k] = IF k = Pos(s) + 1 THEN c ELSE Cells[k]
  BY <1>2, <1>3, ExceptSeq
<1>6. Len(Cells') = Len([Cells EXCEPT ![Pos(s) + 1] = c])
  BY <1>2, <1>5
<1>7. \A k \in 1 .. Len(Cells') : Cells'[k] = [Cells EXCEPT ![Pos(s) + 1] = c][k]
  BY <1>2, <1>4, <1>5
<1>8. Cells' = [Cells EXCEPT ![Pos(s) + 1] = c]
  BY <1>2, <1>5, <1>6, <1>7, SeqEqual
<1>9. Cells[Pos(s) + 1] = Cell(s)
  BY <1>1 DEF CellsOK
<1> QED
  BY <1>3, <1>8, <1>9

\* PushChannel commits a record: its cell was pending and is filled.
LEMMA PushReadyCommits ==
  ASSUME IndInv, IndInv', NEW p \in Producers, PushReady(p)
  PROVE  Queue!Commit
<1>1. /\ pc[p] = "push_ready" /\ p \in Threads
      /\ log[p] \in Slots /\ content[log[p]] \in Data /\ data_mark[log[p]] = "HOLD"
      /\ Pos(write_idx) <= Pos(log[p]) /\ Pos(log[p]) < Pos(hold_idx)
      /\ data_mark' = [data_mark EXCEPT ![log[p]] = "READY"]
      /\ UNCHANGED <<hold_idx, proc_idx, read_idx, content, log, out>>
  BY DEF PushReady, Goto, ring, IndInv, TypeOK, Writers, Writing, Threads
<1>2. \A w \in Workers : pc'[w] = "dispatch" <=> pc[w] = "dispatch"
  BY DEF PushReady, Goto, IndInv, TypeOK, Workers, Threads
<1>3. \A i \in Slots : PastDispatch(i)' <=> PastDispatch(i)
  BY <1>1, <1>2 DEF PastDispatch, Dist
<1>4. ~PastDispatch(log[p])
  BY <1>1, PosType, Order, ChannelAssumption DEF IndInv, TypeOK, PastDispatch, Pos
<1>5. Cell(log[p]) = Queue!Pending
  BY <1>1, <1>4 DEF Cell, Queue!Pending
<1>6. \A i \in Slots : i = log[p] => Cell(i)' = Queue!Filled(content[log[p]])
  BY <1>1, <1>3, <1>4 DEF Cell, Queue!Filled, IndInv, TypeOK
<1>7. \A i \in Slots : i # log[p] => Cell(i)' = Cell(i)
  BY <1>1, <1>3 DEF Cell, IndInv, TypeOK
<1>8. Queue!Filled(content[log[p]]) \in CellSet
  BY <1>1 DEF CellSet, Queue!Filled
<1>9. /\ Pos(log[p]) + 1 \in DOMAIN Cells /\ Cells[Pos(log[p]) + 1] = Queue!Pending
      /\ Cells' = [Cells EXCEPT ![Pos(log[p]) + 1] = Queue!Filled(content[log[p]])]
  BY <1>1, <1>5, <1>6, <1>7, <1>8, OneCell
<1> QED
  BY <1>1, <1>9 DEF Queue!Commit

\* DispatchLog delivers the record of its slot, from a cell that no pending one
\* precedes; an async channel has delivered all those before it.
LEMMA DispatchDelivers ==
  ASSUME IndInv, IndInv', NEW w \in Workers, Dispatch(w)
  PROVE  Queue!Deliver
<1>1. /\ pc[w] = "dispatch" /\ pc' = [pc EXCEPT ![w] = "release"] /\ w \in Threads
      /\ log[w] \in Slots /\ Pos(log[w]) < Pos(proc_idx) /\ data_mark[log[w]] = "READY"
      /\ content[log[w]] \in Data /\ out' = content[log[w]]
      /\ UNCHANGED <<hold_idx, write_idx, proc_idx, read_idx, data_mark, content, log>>
  BY DEF Dispatch, Goto, ring, IndInv, TypeOK, Readers, Reading, SlotMarks, Workers, Threads
<1>2. Pos(log[w]) < Pos(hold_idx)
  BY <1>1, PosType, Order, ChannelAssumption DEF IndInv, TypeOK
<1>3. \A v \in Workers : v # w /\ pc[v] = "dispatch" => log[v] # log[w]
  BY <1>1 DEF IndInv, ExclusiveSlot, Reading, Workers, Threads
<1>4. pc'[w] = "release" /\ \A v \in Workers : v # w => pc'[v] = pc[v]
  BY <1>1 DEF IndInv, TypeOK, Workers, Threads
<1>5. Cell(log[w]) = Queue!Filled(content[log[w]])
  BY <1>1 DEF Cell, PastDispatch, Queue!Filled
<1>6. \A i \in Slots : i = log[w] => Cell(i)' = Queue!Delivered
  BY <1>1, <1>3, <1>4 DEF Cell, PastDispatch, Pos, Queue!Delivered
<1>7. \A i \in Slots : i # log[w] => Cell(i)' = Cell(i)
  BY <1>1, <1>4 DEF Cell, PastDispatch, Dist
<1>8. Queue!Delivered \in CellSet
  BY DEF CellSet, Queue!Delivered
<1>9. /\ Pos(log[w]) + 1 \in DOMAIN Cells
      /\ Cells[Pos(log[w]) + 1] = Queue!Filled(content[log[w]])
      /\ Cells' = [Cells EXCEPT ![Pos(log[w]) + 1] = Queue!Delivered]
  BY <1>1, <1>2, <1>5, <1>6, <1>7, <1>8, OneCell
<1>10. ASSUME NEW i \in Slots, Pos(i) < Pos(proc_idx), i # log[w]
       PROVE  Cell(i) # Queue!Pending /\ (~Sync => Cell(i) = Queue!Delivered)
  <2>1. CASE PastDispatch(i)
    BY <2>1 DEF Cell, Queue!Delivered, Queue!Pending
  <2>2. CASE ~PastDispatch(i)
    <3>1. PICK v \in Workers : pc[v] = "dispatch" /\ log[v] = i
      BY <1>10, <2>2 DEF PastDispatch, Pos
    <3>2. data_mark[i] = "READY"
      BY <3>1 DEF IndInv, Readers, Reading
    <3>3. Sync
      BY <1>10, <3>1 DEF Workers
    <3> QED
      BY <2>2, <3>2, <3>3 DEF Cell, Queue!Pending
  <2> QED
    BY <2>1, <2>2
<1>11. ASSUME NEW j \in 1 .. (Pos(log[w]) + 1) - 1
       PROVE  Cells[j] # Queue!Pending /\ (~Sync => Cells[j] = Queue!Delivered)
  <2>1. /\ j - 1 \in 0 .. BUFFER_LEN - 1 /\ j - 1 < Pos(log[w])
        /\ j \in 1 .. Pos(hold_idx) /\ j - 1 < Pos(proc_idx)
    BY <1>1, <1>2, PosType, ChannelAssumption DEF IndInv, TypeOK
  <2>2. /\ SlotAt(j - 1) \in Slots /\ Pos(SlotAt(j - 1)) = j - 1
        /\ Cells[j] = Cell(SlotAt(j - 1))
    BY <2>1, SlotAtPos, CellsSeq DEF IndInv, CellsOK
  <2>3. SlotAt(j - 1) # log[w]
    BY <2>1, <2>2, PosType, ChannelAssumption DEF IndInv
  <2> QED
    BY <1>10, <2>1, <2>2, <2>3
<1> QED
  BY <1>1, <1>9, <1>11 DEF Queue!Deliver

\* EnterProcChannel gives back the slot at read_idx: its cell was delivered.
LEMMA ReadCasGivesBack ==
  ASSUME IndInv, IndInv', NEW w \in Workers, ReadCas(w), read_idx = old_idx[w]
  PROVE  Queue!GiveBack
<1>1. /\ pc[w] = "read_cas" /\ pc' = [pc EXCEPT ![w] = "read_load"]
      /\ read_idx' = NextIdx(read_idx) /\ read_idx # proc_idx /\ data_mark[read_idx] = "INVALID"
      /\ UNCHANGED <<hold_idx, write_idx, proc_idx, data_mark, content, log, out>>
  BY DEF ReadCas, Goto, IndInv, Windows, Workers, Threads
<1>2. \A v \in Workers : pc'[v] = "dispatch" <=> pc[v] = "dispatch"
  BY <1>1 DEF IndInv, TypeOK, Workers, Threads
<1>3. \A i \in Slots : Pos(i)' = IF i = read_idx THEN BUFFER_LEN - 1 ELSE Pos(i) - 1
  BY <1>1, PosShift DEF IndInv
<1>4. /\ Pos(read_idx) = 0 /\ 0 < Pos(proc_idx) /\ Pos(proc_idx) <= Pos(hold_idx)
      /\ Pos(hold_idx) \in 0 .. BUFFER_LEN - 1 /\ Pos(proc_idx) \in 0 .. BUFFER_LEN - 1
  BY <1>1, PosRead, PosInjective, PosType, Order, ChannelAssumption DEF IndInv, TypeOK
<1>5. /\ Pos(proc_idx)' = Pos(proc_idx) - 1
      /\ Pos(hold_idx)' = Pos(hold_idx) - 1
  <2>1. read_idx # hold_idx /\ proc_idx' = proc_idx /\ hold_idx' = hold_idx
    BY <1>1, <1>4
  <2> QED
    BY <1>1, <1>3, <2>1 DEF IndInv, TypeOK, Pos, Dist
<1>6. ASSUME NEW i \in Slots, i # read_idx
      PROVE  Cell(i)' = Cell(i)
  <2>1. Pos(i)' < Pos(proc_idx)' <=> Pos(i) < Pos(proc_idx)
    BY <1>3, <1>4, <1>5, <1>6, PosType, ChannelAssumption DEF IndInv
  <2> QED
    BY <1>1, <1>2, <2>1 DEF Cell, PastDispatch, Pos
<1>7. Cell(read_idx) = Queue!Delivered
  <2>1. PastDispatch(read_idx)
    BY <1>1, <1>4 DEF PastDispatch, Pos, IndInv, Readers, Reading
  <2> QED
    BY <2>1 DEF Cell, Queue!Delivered
<1>8. /\ Cells \in Seq(CellSet) /\ Len(Cells) = Pos(hold_idx)
      /\ Cells' \in Seq(CellSet) /\ Len(Cells') = Pos(hold_idx) - 1
      /\ \A k \in 1 .. Pos(hold_idx) : Cells[k] = Cell(SlotAt(k - 1))
      /\ \A k \in 1 .. Pos(hold_idx) - 1 : Cells'[k] = Cell(SlotAt(k - 1))'
  <2>1. CellsOK /\ CellsOK'
    BY CellsSeq, PTL DEF IndInv
  <2> QED
    BY <1>5, <2>1 DEF CellsOK
<1>9. Cells # <<>> /\ Head(Cells) = Queue!Delivered
  <2>1. Len(Cells) > 0 /\ 1 \in 1 .. Pos(hold_idx) /\ 1 - 1 = 0
    BY <1>4, <1>8
  <2>2. SlotAt(0) = read_idx
    BY <1>4, SlotAtPos DEF IndInv, TypeOK
  <2>3. Cells[1] = Cell(read_idx)
    BY <1>8, <2>1, <2>2
  <2> QED
    BY <1>7, <1>8, <2>1, <2>3
<1>10. ASSUME NEW k \in 1 .. Pos(hold_idx) - 1
       PROVE  Cells'[k] = Cells[k + 1]
  <2>1. /\ k \in 0 .. BUFFER_LEN - 1 /\ k - 1 \in 0 .. BUFFER_LEN - 1
        /\ k + 1 \in 1 .. Pos(hold_idx) /\ (k + 1) - 1 = k
    BY <1>4, ChannelAssumption
  <2>2. SlotAt(k) \in Slots /\ Pos(SlotAt(k)) = k
    BY <2>1, SlotAtPos DEF IndInv
  <2>3. SlotAt(k - 1)' = SlotAt(k)
    <3>1. read_idx \in 0 .. BUFFER_LEN - 1 /\ BUFFER_LEN \in Nat
      BY ChannelAssumption DEF IndInv, TypeOK, Slots
    <3>2. SlotAt(k - 1)' = IF NextIdx(read_idx) + (k - 1) < BUFFER_LEN
                           THEN NextIdx(read_idx) + (k - 1)
                           ELSE NextIdx(read_idx) + (k - 1) - BUFFER_LEN
      BY <1>1 DEF SlotAt
    <3> QED
      BY <2>1, <3>1, <3>2 DEF SlotAt, NextIdx
  <2>4. SlotAt(k) # read_idx
    BY <1>4, <2>2
  <2>5. Cell(SlotAt(k - 1))' = Cell(SlotAt(k))
    BY <1>6, <2>2, <2>3, <2>4 DEF Cell, PastDispatch
  <2> QED
    BY <1>8, <2>1, <2>5
<1>11. Cells' = Tail(Cells)
  <2>1. /\ Tail(Cells) \in Seq(CellSet) /\ Len(Tail(Cells)) = Pos(hold_idx) - 1
        /\ \A k \in 1 .. Len(Tail(Cells)) : Tail(Cells)[k] = Cells[k + 1]
    BY <1>8, <1>9, HeadTailProperties
  <2>2. Len(Cells') = Len(Tail(Cells)) /\ \A k \in 1 .. Len(Cells') : Cells'[k] = Tail(Cells)[k]
    BY <1>8, <1>10, <2>1
  <2> QED
    BY <1>8, <2>1, <2>2, SeqEqual
<1> QED
  BY <1>1, <1>9, <1>11 DEF Queue!GiveBack

-----------------------------------------------------------------------------
(* The theorem.                                                            *)

\* A started channel is an empty queue.
LEMMA InitQueue == Init => Queue!Init
<1> SUFFICES ASSUME Init PROVE Queue!Init
  OBVIOUS
<1>1. TypeOK /\ Pos(hold_idx) = 0
  BY InitType DEF Init, Pos, Dist
<1>2. Cells \in Seq(CellSet) /\ Len(Cells) = 0
  BY <1>1, CellsSeq DEF CellsOK
<1>3. Cells = <<>>
  BY <1>2, EmptySeq
<1> QED
  BY <1>3 DEF Init, Queue!Init

\* Every step of the channel is a step of the queue or leaves it alone.
LEMMA NextQueue ==
  ASSUME IndInv, IndInv', [Next]_vars
  PROVE  [Queue!Next]_<<Cells, out>>
<1>1. Still => UNCHANGED <<Cells, out>>
  BY StillStep DEF IndInv
<1>2. ASSUME NEW p \in Producers, StartLog(p) \/ Produce(p)
      PROVE  [Queue!Next]_<<Cells, out>>
  <2>1. CASE HoldCas(p) /\ hold_idx = old_idx[p]
    BY <2>1, HoldCasReserves DEF Queue!Next
  <2>2. CASE HoldMark(p)
    BY <2>2, HoldMarkCells
  <2>3. CASE Fill(p)
    BY <2>3, FillCells
  <2>4. CASE PushReady(p)
    BY <2>4, PushReadyCommits DEF Queue!Next
  <2>5. CASE PushCas(p) /\ write_idx = old_idx[p]
    BY <2>5, PushCasCells
  <2>6. CASE QuietProduce(p)
    BY <1>1, <2>6, StillActions DEF IndInv
  <2> QED
    BY <1>2, <2>1, <2>2, <2>3, <2>4, <2>5, <2>6 DEF Produce, QuietProduce
<1>3. ASSUME NEW w \in Workers, Process(w)
      PROVE  [Queue!Next]_<<Cells, out>>
  <2>1. CASE ProcCas(w) /\ proc_idx = old_idx[w]
    BY <2>1, ProcCasCells
  <2>2. CASE Dispatch(w)
    BY <2>2, DispatchDelivers DEF Queue!Next
  <2>3. CASE Release(w)
    BY <2>3, ReleaseCells
  <2>4. CASE ReadCas(w) /\ read_idx = old_idx[w]
    BY <2>4, ReadCasGivesBack DEF Queue!Next
  <2>5. CASE QuietProcess(w) /\ ~Dispatch(w)
    BY <1>1, <2>5, StillActions DEF IndInv
  <2> QED
    BY <1>3, <2>1, <2>2, <2>3, <2>4, <2>5 DEF Process, QuietProcess
<1>4. CASE Stop \/ UNCHANGED vars
  BY <1>1, <1>4, StillActions DEF IndInv
<1> QED
  BY <1>2, <1>3, <1>4 DEF Next

\* The ring of four indices, with all its threads, is the queue that LogQueue
\* describes: every record that PushChannel made ready is delivered once and
\* unchanged, never before an earlier one is complete, in order on an async channel,
\* and HoldChannel never has more than BUFFER_LEN - 1 slots out.
THEOREM ChannelImplementsQueue ==
  ASSUME Lapping = FALSE
  PROVE  Spec => ImplementsQueue
<1>1. IndInv /\ IndInv' /\ [Next]_vars => [Queue!Next]_<<Cells, out>>
  BY NextQueue
<1> QED
  BY <1>1, InitQueue, Invariant, PTL DEF Spec, ImplementsQueue, Queue!Spec
=============================================================================
