------------------------------- MODULE Channel -------------------------------
(***************************************************************************)
(* One channel of fn-log at run time (src/include/fn_channel.h): the ring  *)
(* buffer of LogData slots, the threads that log into it (HoldChannel,     *)
(* fill the slot, PushChannel) and the threads that run EnterProcChannel.  *)
(*                                                                         *)
(* Every load, store and compare-exchange of a shared word is one step, in *)
(* the order the code performs them, under sequential consistency.  The    *)
(* four indices are the code's own: they live in 0 .. BUFFER_LEN-1 and     *)
(* wrap.  A compare-exchange compares index values, exactly as the code    *)
(* does, so it cannot tell an index that stood still from one that went    *)
(* once round the ring.                                                    *)
(***************************************************************************)
EXTENDS Naturals

CONSTANTS
  Producers,    \* the threads that log
  Consumer,     \* the thread StartChannels creates for an async channel
  BUFFER_LEN,   \* slots in the ring (FN_LOG_MAX_LOG_QUEUE_SIZE)
  ChannelType,  \* "CHANNEL_ASYNC" or "CHANNEL_SYNC"
  Data,         \* what a log record can say
  NoData,       \* what a slot of the zeroed ring says
  Lapping       \* see Unlapped

ASSUME ChannelAssumption ==
  /\ Consumer \notin Producers
  /\ BUFFER_LEN \in Nat /\ BUFFER_LEN > 1
  /\ ChannelType \in {"CHANNEL_ASYNC", "CHANNEL_SYNC"}
  /\ NoData \notin Data
  /\ Lapping \in BOOLEAN

VARIABLES
  logger_state,                             \* Logger::logger_state_
  channel_state,                            \* Channel::channel_state_
  hold_idx, write_idx, proc_idx, read_idx,  \* the indices of RingBuffer
  data_mark,  \* LogData::data_mark_ of each slot
  content,    \* the rest of LogData of each slot
  pc,         \* where each thread is
  old_idx,    \* each thread's local old_idx
  log,        \* the slot each thread's LogData& refers to
  out         \* the record last handed to the devices by DispatchLog

ring == <<hold_idx, write_idx, proc_idx, read_idx>>
states == <<logger_state, channel_state>>
vars == <<states, ring, data_mark, content, pc, old_idx, log, out>>

Slots   == 0 .. BUFFER_LEN - 1
Threads == Producers \cup {Consumer}
Sync    == ChannelType = "CHANNEL_SYNC"

\* EnterProcChannel runs on the channel's own thread, or, on a sync channel, on
\* every thread that pushed.
Workers == IF Sync THEN Producers ELSE {Consumer}

\* (i + 1) % BUFFER_LEN for i \in Slots
NextIdx(i) == IF i + 1 = BUFFER_LEN THEN 0 ELSE i + 1

\* How far index j is ahead of index i.
Dist(i, j) == IF i <= j THEN j - i ELSE j + BUFFER_LEN - i

\* What a thread executes between loading an index and its compare-exchange.
HoldWindow  == {"hold_full", "hold_cas"}
WriteWindow == {"push_hold", "push_mark", "push_cas"}
ProcWindow  == {"proc_empty", "proc_cas"}
ReadWindow  == {"read_proc", "read_mark", "read_cas"}

\* The scheduling assumption that makes an index comparison as good as a
\* comparison of counters: an index does not come round to a value that a
\* thread loaded before and has not compared yet, that is, no thread sleeps
\* through a whole lap of the ring inside one of its windows.  The code relies
\* on BUFFER_LEN being large for it; Lapping = TRUE drops the assumption.
Unlapped(window, i) ==
  Lapping \/ \A t \in Threads : pc[t] \in window => old_idx[t] # i

Goto(t, from, to) ==
  /\ pc[t] = from
  /\ pc' = [pc EXCEPT ![t] = to]

-----------------------------------------------------------------------------
(* HoldChannel: claim a slot.                                              *)

\* LogStream's constructor, past BlockInput's filters.
StartLog(p) ==
  /\ logger_state = "RUNNING" /\ channel_state = "RUNNING"
  /\ Goto(p, "idle", "hold_state")
  /\ UNCHANGED <<states, ring, data_mark, content, old_idx, log, out>>

\* Both tests of channel_state_: in the retry loop and after it.
HoldState(p) ==
  /\ Goto(p, "hold_state", IF channel_state = "RUNNING" THEN "hold_load" ELSE "idle")
  /\ UNCHANGED <<states, ring, data_mark, content, old_idx, log, out>>

HoldLoad(p) ==
  /\ Goto(p, "hold_load", "hold_full")
  /\ old_idx' = [old_idx EXCEPT ![p] = hold_idx]
  /\ UNCHANGED <<states, ring, data_mark, content, log, out>>

\* Mutant: no test for a full ring.
HoldFullUntested(p) ==
  /\ Goto(p, "hold_full", "hold_cas")
  /\ UNCHANGED <<states, ring, data_mark, content, old_idx, log, out>>

\* A full ring sends the thread to sleep and back to the start of the loop.
HoldFull(p) ==
  /\ Goto(p, "hold_full",
          IF NextIdx(old_idx[p]) = read_idx THEN "hold_state" ELSE "hold_cas")
  /\ UNCHANGED <<states, ring, data_mark, content, old_idx, log, out>>

\* Mutant: a store where the code compares and exchanges.
HoldStore(p) ==
  /\ Goto(p, "hold_cas", "hold_mark")
  /\ hold_idx' = NextIdx(old_idx[p])
  /\ log' = [log EXCEPT ![p] = old_idx[p]]
  /\ UNCHANGED <<states, write_idx, proc_idx, read_idx, data_mark, content, old_idx, out>>

HoldCas(p) ==
  /\ \/ /\ hold_idx = old_idx[p]
        /\ Unlapped(HoldWindow, NextIdx(hold_idx))
        /\ hold_idx' = NextIdx(hold_idx)
        /\ log' = [log EXCEPT ![p] = old_idx[p]]
        /\ Goto(p, "hold_cas", "hold_mark")
     \/ /\ hold_idx # old_idx[p]
        /\ Goto(p, "hold_cas", "hold_state")
        /\ UNCHANGED <<hold_idx, log>>
  /\ UNCHANGED <<states, write_idx, proc_idx, read_idx, data_mark, content, old_idx, out>>

HoldMark(p) ==
  /\ Goto(p, "hold_mark", "fill")
  /\ data_mark' = [data_mark EXCEPT ![log[p]] = "HOLD"]
  /\ UNCHANGED <<states, ring, content, old_idx, log, out>>

\* InitLogData and the stream operators write the record into the held slot.
Fill(p) ==
  /\ Goto(p, "fill", "push_state")
  /\ \E d \in Data : content' = [content EXCEPT ![log[p]] = d]
  /\ UNCHANGED <<states, ring, data_mark, old_idx, log, out>>

-----------------------------------------------------------------------------
(* PushChannel: make the record ready, then publish every ready record at  *)
(* the write index, one's own or another thread's.                         *)

\* A channel that stopped meanwhile leaves the slot held for good.
PushState(p) ==
  /\ Goto(p, "push_state", IF channel_state = "RUNNING" THEN "push_ready" ELSE "idle")
  /\ UNCHANGED <<states, ring, data_mark, content, old_idx, log, out>>

PushReady(p) ==
  /\ Goto(p, "push_ready", "push_stat")
  /\ data_mark' = [data_mark EXCEPT ![log[p]] = "READY"]
  /\ UNCHANGED <<states, ring, content, old_idx, log, out>>

\* Reads priority_ and content_len_ of the slot to account for them.
PushStat(p) ==
  /\ Goto(p, "push_stat", "push_load")
  /\ UNCHANGED <<states, ring, data_mark, content, old_idx, log, out>>

PushLoad(p) ==
  /\ Goto(p, "push_load", "push_hold")
  /\ old_idx' = [old_idx EXCEPT ![p] = write_idx]
  /\ UNCHANGED <<states, ring, data_mark, content, log, out>>

\* Mutant: the last held slot is taken for the end of the queue.
PushHoldShort(p) ==
  /\ Goto(p, "push_hold",
          IF NextIdx(old_idx[p]) = hold_idx THEN "push_exit" ELSE "push_mark")
  /\ UNCHANGED <<states, ring, data_mark, content, old_idx, log, out>>

PushHold(p) ==
  /\ Goto(p, "push_hold", IF old_idx[p] = hold_idx THEN "push_exit" ELSE "push_mark")
  /\ UNCHANGED <<states, ring, data_mark, content, old_idx, log, out>>

\* Mutant: a slot that is merely held is published too.
PushMarkHeld(p) ==
  /\ Goto(p, "push_mark", IF data_mark[old_idx[p]] # "INVALID" THEN "push_cas" ELSE "push_exit")
  /\ UNCHANGED <<states, ring, data_mark, content, old_idx, log, out>>

PushMark(p) ==
  /\ Goto(p, "push_mark", IF data_mark[old_idx[p]] = "READY" THEN "push_cas" ELSE "push_exit")
  /\ UNCHANGED <<states, ring, data_mark, content, old_idx, log, out>>

\* Mutant: a thread publishes one record and leaves.
PushCasOnce(p) ==
  /\ Goto(p, "push_cas", "push_exit")
  /\ \/ /\ write_idx = old_idx[p]
        /\ Unlapped(WriteWindow, NextIdx(write_idx))
        /\ write_idx' = NextIdx(write_idx)
     \/ /\ write_idx # old_idx[p]
        /\ UNCHANGED write_idx
  /\ UNCHANGED <<states, hold_idx, proc_idx, read_idx, data_mark, content, old_idx, log, out>>

PushCas(p) ==
  /\ Goto(p, "push_cas", "push_while")
  /\ \/ /\ write_idx = old_idx[p]
        /\ Unlapped(WriteWindow, NextIdx(write_idx))
        /\ write_idx' = NextIdx(write_idx)
     \/ /\ write_idx # old_idx[p]
        /\ UNCHANGED write_idx
  /\ UNCHANGED <<states, hold_idx, proc_idx, read_idx, data_mark, content, old_idx, log, out>>

PushWhile(p) ==
  /\ Goto(p, "push_while", IF channel_state = "RUNNING" THEN "push_load" ELSE "push_exit")
  /\ UNCHANGED <<states, ring, data_mark, content, old_idx, log, out>>

\* Mutant: a sync channel's thread leaves without processing.
PushExitIdle(p) ==
  /\ Goto(p, "push_exit", "idle")
  /\ UNCHANGED <<states, ring, data_mark, content, old_idx, log, out>>

PushExit(p) ==
  /\ Goto(p, "push_exit",
          IF Sync /\ channel_state = "RUNNING" THEN "proc_load" ELSE "idle")
  /\ UNCHANGED <<states, ring, data_mark, content, old_idx, log, out>>

Produce(p) ==
  \/ HoldState(p) \/ HoldLoad(p) \/ HoldFull(p) \/ HoldCas(p) \/ HoldMark(p) \/ Fill(p)
  \/ PushState(p) \/ PushReady(p) \/ PushStat(p) \/ PushLoad(p) \/ PushHold(p)
  \/ PushMark(p) \/ PushCas(p) \/ PushWhile(p) \/ PushExit(p)

-----------------------------------------------------------------------------
(* EnterProcChannel: take published records, hand them to the devices, and *)
(* give the slots back.                                                    *)

ProcLoad(w) ==
  /\ Goto(w, "proc_load", "proc_empty")
  /\ old_idx' = [old_idx EXCEPT ![w] = proc_idx]
  /\ UNCHANGED <<states, ring, data_mark, content, log, out>>

ProcEmpty(w) ==
  /\ Goto(w, "proc_empty", IF old_idx[w] = write_idx THEN "tick" ELSE "proc_cas")
  /\ UNCHANGED <<states, ring, data_mark, content, old_idx, log, out>>

\* Mutant: a store where the code compares and exchanges.
ProcStore(w) ==
  /\ Goto(w, "proc_cas", "dispatch")
  /\ proc_idx' = NextIdx(old_idx[w])
  /\ log' = [log EXCEPT ![w] = old_idx[w]]
  /\ UNCHANGED <<states, hold_idx, write_idx, read_idx, data_mark, content, old_idx, out>>

ProcCas(w) ==
  /\ \/ /\ proc_idx = old_idx[w]
        /\ Unlapped(ProcWindow, NextIdx(proc_idx))
        /\ proc_idx' = NextIdx(proc_idx)
        /\ log' = [log EXCEPT ![w] = old_idx[w]]
        /\ Goto(w, "proc_cas", "dispatch")
     \/ /\ proc_idx # old_idx[w]
        /\ Goto(w, "proc_cas", "tick")
        /\ UNCHANGED <<proc_idx, log>>
  /\ UNCHANGED <<states, hold_idx, write_idx, read_idx, data_mark, content, old_idx, out>>

Dispatch(w) ==
  /\ Goto(w, "dispatch", "release")
  /\ out' = content[log[w]]
  /\ UNCHANGED <<states, ring, data_mark, content, old_idx, log>>

Release(w) ==
  /\ Goto(w, "release", "proc_stat")
  /\ data_mark' = [data_mark EXCEPT ![log[w]] = "INVALID"]
  /\ UNCHANGED <<states, ring, content, old_idx, log, out>>

\* Mutant: the worker takes the next record without moving read_idx.
ProcStatSkipRead(w) ==
  /\ Goto(w, "proc_stat", "proc_load")
  /\ UNCHANGED <<states, ring, data_mark, content, old_idx, log, out>>

\* Reads content_len_ and timestamp_ of the slot just given up.
ProcStat(w) ==
  /\ Goto(w, "proc_stat", "read_load")
  /\ UNCHANGED <<states, ring, data_mark, content, old_idx, log, out>>

ReadLoad(w) ==
  /\ Goto(w, "read_load", "read_proc")
  /\ old_idx' = [old_idx EXCEPT ![w] = read_idx]
  /\ UNCHANGED <<states, ring, data_mark, content, log, out>>

ReadProc(w) ==
  /\ Goto(w, "read_proc", IF old_idx[w] = proc_idx THEN "proc_load" ELSE "read_mark")
  /\ UNCHANGED <<states, ring, data_mark, content, old_idx, log, out>>

ReadMark(w) ==
  /\ Goto(w, "read_mark", IF data_mark[old_idx[w]] = "INVALID" THEN "read_cas" ELSE "proc_load")
  /\ UNCHANGED <<states, ring, data_mark, content, old_idx, log, out>>

\* Mutant: proc_idx is not loaded again after the inner loop reused old_idx.
ReadCasKeepIdx(w) ==
  /\ Goto(w, "read_cas", "proc_empty")
  /\ read_idx' = IF read_idx = old_idx[w] THEN NextIdx(read_idx) ELSE read_idx
  /\ UNCHANGED <<states, hold_idx, write_idx, proc_idx, data_mark, content, old_idx, log, out>>

\* Mutant: a worker gives back one slot and leaves the rest.
ReadCasOnce(w) ==
  /\ Goto(w, "read_cas", "proc_load")
  /\ \/ /\ read_idx = old_idx[w]
        /\ Unlapped(ReadWindow, NextIdx(read_idx))
        /\ read_idx' = NextIdx(read_idx)
     \/ /\ read_idx # old_idx[w]
        /\ UNCHANGED read_idx
  /\ UNCHANGED <<states, hold_idx, write_idx, proc_idx, data_mark, content, old_idx, log, out>>

ReadCas(w) ==
  /\ Goto(w, "read_cas", "read_load")
  /\ \/ /\ read_idx = old_idx[w]
        /\ Unlapped(ReadWindow, NextIdx(read_idx))
        /\ read_idx' = NextIdx(read_idx)
     \/ /\ read_idx # old_idx[w]
        /\ UNCHANGED read_idx
  /\ UNCHANGED <<states, hold_idx, write_idx, proc_idx, data_mark, content, old_idx, log, out>>

\* After a drained ring: the first pass declares the channel running, whatever
\* its type; a sync channel's caller then returns, the thread looks again.
Tick(w) ==
  /\ Goto(w, "tick", IF Sync THEN "idle" ELSE "loop_state")
  /\ channel_state' = IF channel_state = "NULL" THEN "RUNNING" ELSE channel_state
  /\ UNCHANGED <<logger_state, ring, data_mark, content, old_idx, log, out>>

LoopState(w) ==
  /\ Goto(w, "loop_state", IF channel_state = "RUNNING" THEN "proc_load" ELSE "loop_drain")
  /\ UNCHANGED <<states, ring, data_mark, content, old_idx, log, out>>

\* Mutant: the thread waits for slots that are held but were never pushed.
LoopDrainHeld(w) ==
  /\ Goto(w, "loop_drain", IF hold_idx # read_idx THEN "proc_load" ELSE "finish")
  /\ UNCHANGED <<states, ring, data_mark, content, old_idx, log, out>>

LoopDrain(w) ==
  /\ Goto(w, "loop_drain", IF write_idx # read_idx THEN "proc_load" ELSE "finish")
  /\ UNCHANGED <<states, ring, data_mark, content, old_idx, log, out>>

Finish(w) ==
  /\ Goto(w, "finish", "finished")
  /\ channel_state' = "FINISH"
  /\ UNCHANGED <<logger_state, ring, data_mark, content, old_idx, log, out>>

Process(w) ==
  \/ ProcLoad(w) \/ ProcEmpty(w) \/ ProcCas(w) \/ Dispatch(w) \/ Release(w) \/ ProcStat(w)
  \/ ReadLoad(w) \/ ReadProc(w) \/ ReadMark(w) \/ ReadCas(w)
  \/ Tick(w) \/ LoopState(w) \/ LoopDrain(w) \/ Finish(w)

-----------------------------------------------------------------------------
\* StopLogger and StopChannels, up to the join with the channel's thread.
Stop ==
  /\ logger_state = "RUNNING" /\ channel_state = "RUNNING"
  /\ logger_state' = "CLOSING"
  /\ channel_state' = IF Sync THEN "NULL" ELSE "WAITING_FINISH"
  /\ UNCHANGED <<ring, data_mark, content, pc, old_idx, log, out>>

\* A started channel: StartChannels set a sync channel running, and created the
\* thread of an async one.
Init ==
  /\ logger_state = "RUNNING"
  /\ channel_state = IF Sync THEN "RUNNING" ELSE "NULL"
  /\ hold_idx = 0 /\ write_idx = 0 /\ proc_idx = 0 /\ read_idx = 0
  /\ data_mark = [i \in Slots |-> "INVALID"]
  /\ content = [i \in Slots |-> NoData]
  /\ pc = [t \in Threads |-> IF t \in Producers THEN "idle"
                             ELSE IF Sync THEN "finished" ELSE "proc_load"]
  /\ old_idx = [t \in Threads |-> 0]
  /\ log = [t \in Threads |-> 0]
  /\ out = NoData

Next ==
  \/ \E p \in Producers : StartLog(p) \/ Produce(p)
  \/ \E w \in Workers : Process(w)
  \/ Stop

\* A thread that is inside the library keeps running; nobody has to log again,
\* and nobody has to stop the channel.
Fairness ==
  /\ \A p \in Producers : WF_vars(Produce(p))
  /\ \A w \in Workers : WF_vars(Process(w))

Spec == Init /\ [][Next]_vars
FairSpec == Spec /\ Fairness

-----------------------------------------------------------------------------
(* Properties.                                                             *)

ProducerPc ==
  {"idle", "hold_state", "hold_load", "hold_full", "hold_cas", "hold_mark", "fill", "push_state",
   "push_ready", "push_stat", "push_load", "push_hold", "push_mark", "push_cas", "push_while",
   "push_exit"}
WorkerPc ==
  {"proc_load", "proc_empty", "proc_cas", "dispatch", "release", "proc_stat", "read_load",
   "read_proc", "read_mark", "read_cas", "tick", "loop_state", "loop_drain", "finish", "finished"}

TypeOK ==
  /\ logger_state \in {"RUNNING", "CLOSING"}
  /\ channel_state \in {"NULL", "RUNNING", "WAITING_FINISH", "FINISH"}
  /\ hold_idx \in Slots /\ write_idx \in Slots /\ proc_idx \in Slots /\ read_idx \in Slots
  /\ data_mark \in [Slots -> {"INVALID", "HOLD", "READY"}]
  /\ content \in [Slots -> Data \cup {NoData}]
  /\ pc \in [Threads -> ProducerPc \cup WorkerPc]
  /\ \A t \in Threads : pc[t] \in ProducerPc => t \in Producers
  /\ \A t \in Threads : pc[t] \in WorkerPc \ {"finished"} => t \in Workers
  /\ old_idx \in [Threads -> Slots]
  /\ log \in [Threads -> Slots]
  /\ out \in Data \cup {NoData}

\* Going round the ring from read_idx one meets proc_idx, write_idx and hold_idx
\* in this order: no index overtakes the one that guards it (HoldChannel's full
\* test, PushChannel's and EnterProcChannel's empty tests), although each test
\* and the step it allows are separate and other threads move in between.
IndexOrder ==
  /\ Dist(read_idx, proc_idx) <= Dist(read_idx, write_idx)
  /\ Dist(read_idx, write_idx) <= Dist(read_idx, hold_idx)

Writing == {"hold_mark", "fill", "push_state", "push_ready"}
Reading == {"dispatch", "release"}

\* Nobody else touches a slot that one thread writes (HoldChannel's claim up to
\* PushChannel's ready mark) or hands to the devices (EnterProcChannel).
ExclusiveSlot ==
  \A t, u \in Threads :
    /\ t # u
    /\ pc[t] \in Writing \cup Reading
    /\ pc[u] \in Writing \cup Reading
    => log[t] # log[u]

\* Only a complete record is dispatched: the slot a worker took is still marked
\* ready and holds what a thread wrote into it, never the zeroed slot.
DispatchComplete ==
  \A w \in Workers :
    pc[w] \in Reading => data_mark[log[w]] = "READY" /\ content[log[w]] \in Data

\* A claimed slot is a free one: whatever HoldChannel hands out has been
\* dispatched and given back, no record is overwritten before it was taken.
ClaimFree ==
  \A p \in Producers : pc[p] = "hold_mark" => data_mark[log[p]] = "INVALID"

\* What follows is promised until StopLogger is called.  (A sync channel may run
\* again after that: a thread leaving EnterProcChannel sets NULL to RUNNING.)
Running == logger_state = "RUNNING" /\ channel_state = "RUNNING"

\* A record that stands ready at write_idx has somebody who will still look at
\* it: no interleaving of two pushers, each publishing what it finds ready,
\* leaves one stranded in a running channel.
NoStrandedRecord ==
  Running /\ write_idx # hold_idx /\ data_mark[write_idx] = "READY"
  => \E p \in Producers :
       pc[p] \in {"push_stat", "push_load", "push_hold", "push_mark", "push_cas", "push_while"}

\* A slot that was dispatched and released at read_idx has a worker that will
\* still move read_idx over it: no slot is lost to the ring.
NoStrandedSlot ==
  Running /\ read_idx # proc_idx /\ data_mark[read_idx] = "INVALID"
  => \E w \in Workers :
       pc[w] \in {"proc_stat", "read_load", "read_proc", "read_mark", "read_cas"}

\* On a sync channel no published record is left behind: while the channel runs,
\* some thread is on its way into EnterProcChannel's loop or inside it.
NoStrandedPublished ==
  Sync /\ Running /\ proc_idx # write_idx
  => \E w \in Workers :
       pc[w] \in {"push_load", "push_hold", "push_mark", "push_cas", "push_while", "push_exit",
                  "proc_load", "proc_empty", "proc_cas", "dispatch", "release", "proc_stat",
                  "read_load", "read_proc", "read_mark", "read_cas"}

\* Every record made ready in a channel that keeps running is dispatched and its
\* slot given back.
RecordDispatched ==
  \A i \in Slots :
    data_mark[i] = "READY" ~> (data_mark[i] # "READY" \/ ~Running)

\* A full ring does not stay full while the channel runs: HoldChannel's retry
\* loop is woken by the threads that hold the slots.
RingDrains ==
  NextIdx(hold_idx) = read_idx ~> (NextIdx(hold_idx) # read_idx \/ ~Running)

\* StopChannels' join returns: a channel asked to finish drains what was
\* published and its thread ends, whatever the producers are doing.
StopJoins == channel_state = "WAITING_FINISH" ~> channel_state = "FINISH"

-----------------------------------------------------------------------------
(* The inductive invariant behind the safety properties.                   *)

\* How far slot i is from read_idx; the ring's regions are intervals of it.
Pos(i) == Dist(read_idx, i)

\* From read_idx to proc_idx a slot is released or in the hands of a worker;
\* from proc_idx to write_idx it is ready; from hold_idx round to read_idx it is
\* free.  A ready slot holds a record.
SlotMarks ==
  \A i \in Slots :
    /\ Pos(i) < Pos(proc_idx) /\ data_mark[i] # "INVALID"
       => \E w \in Workers : pc[w] \in Reading /\ log[w] = i
    /\ Pos(proc_idx) <= Pos(i) /\ Pos(i) < Pos(write_idx) => data_mark[i] = "READY"
    /\ Pos(hold_idx) <= Pos(i) => data_mark[i] = "INVALID"
    /\ data_mark[i] = "READY" => content[i] \in Data

\* A slot that a thread writes is held and not published.
Writers ==
  \A p \in Producers :
    pc[p] \in Writing =>
      /\ Pos(write_idx) <= Pos(log[p]) /\ Pos(log[p]) < Pos(hold_idx)
      /\ data_mark[log[p]] = IF pc[p] = "hold_mark" THEN "INVALID" ELSE "HOLD"
      /\ pc[p] \in {"push_state", "push_ready"} => content[log[p]] \in Data

\* A slot that a worker reads is taken and not given back.
Readers ==
  \A w \in Workers :
    pc[w] \in Reading => Pos(log[w]) < Pos(proc_idx) /\ data_mark[log[w]] = "READY"

\* What a thread tested still holds when its compare-exchange is about to
\* succeed.
Windows ==
  \A t \in Threads :
    /\ pc[t] = "hold_cas" /\ old_idx[t] = hold_idx => NextIdx(hold_idx) # read_idx
    /\ pc[t] \in {"push_mark", "push_cas"} /\ old_idx[t] = write_idx => write_idx # hold_idx
    /\ pc[t] = "push_cas" /\ old_idx[t] = write_idx => data_mark[write_idx] = "READY"
    /\ pc[t] = "proc_cas" /\ old_idx[t] = proc_idx => proc_idx # write_idx
    /\ pc[t] \in {"read_mark", "read_cas"} /\ old_idx[t] = read_idx => read_idx # proc_idx
    /\ pc[t] = "read_cas" /\ old_idx[t] = read_idx => data_mark[read_idx] = "INVALID"

\* What the code keeps true at every step, strong enough to be inductive: where
\* each slot of the ring stands, who may touch it, and that no test is stale
\* when the compare-exchange that relies on it succeeds.
IndInv == TypeOK /\ IndexOrder /\ ExclusiveSlot /\ SlotMarks /\ Writers /\ Readers /\ Windows

-----------------------------------------------------------------------------
(* What a comment says of every channel and the code keeps on one type.    *)

\* "only one thread get log. this branch will not hit" (EnterProcChannel): the
\* compare-exchange of proc_idx always succeeds.  True of an async channel only.
SoleDispatcher == \A w \in Workers : pc[w] = "proc_cas" => proc_idx = old_idx[w]
=============================================================================
