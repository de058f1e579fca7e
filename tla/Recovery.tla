------------------------------ MODULE Recovery ------------------------------
(***************************************************************************)
(* One async channel's ring over several lives of its logger: the process  *)
(* starts (LoadSharedMemory), logs, stops (CleanChannels), starts again in *)
(* the same process, ends (UnloadSharedMemory), or crashes at any step and *)
(* is started anew on the shared memory it left behind.                    *)
(*                                                                         *)
(* HoldChannel, PushChannel and EnterProcChannel take one step for each    *)
(* effect a crash can fall behind; the interleaving of the loads and       *)
(* compare-exchanges inside those steps is the subject of module Channel.  *)
(***************************************************************************)
EXTENDS Naturals

CONSTANTS
  Producers,     \* the threads that log
  BUFFER_LEN,    \* slots in the ring
  MaxRecords,    \* bound: records logged in all
  MaxCrashes,    \* bound: crashes
  MaxStops,      \* bound: calls to StopLogger
  InFlightStop   \* may StopLogger be called while a producer holds a slot?

ASSUME RecoveryAssumption ==
  /\ BUFFER_LEN \in Nat /\ BUFFER_LEN > 1
  /\ {MaxRecords, MaxCrashes, MaxStops} \subseteq Nat
  /\ InFlightStop \in BOOLEAN

VARIABLES
  shared,      \* shm_key_ > 0: the ring survives the process
  segment,     \* the shared memory: "none", "raw" (created, not stamped), "stamped"
  phase,       \* what the process is doing
  hold_idx, write_idx, proc_idx, read_idx,
  data_mark,   \* data_mark_ of each slot
  cell,        \* what each slot holds: a record, whether whole, whether tagged
  pc, mine,    \* where each producer is, its slot and its record
  worker,      \* where the channel's thread is
  issued,      \* history: records claimed so far
  committed,   \* history: records PushChannel marked ready
  sent,        \* history: the records dispatched untagged
  repeats,     \* history: how often one of them was dispatched again
  out,         \* history: what was dispatched last
  delivered,   \* history: every record dispatched
  crashes,     \* history: crashes outside CleanChannels and inside it
  stops

index   == <<hold_idx, write_idx, proc_idx, read_idx>>
history == <<committed, sent, repeats, out, delivered>>
bounds  == <<shared, issued, crashes, stops>>
vars    == <<bounds, segment, phase, index, data_mark, cell, pc, mine, worker, history>>

Slots   == 0 .. BUFFER_LEN - 1
Records == 1 .. MaxRecords
Next1(i) == (i + 1) % BUFFER_LEN
Blank   == [rec |-> 0, whole |-> FALSE, tagged |-> FALSE]   \* a zeroed LogData
Cells   == [rec : 0 .. MaxRecords, whole : BOOLEAN, tagged : BOOLEAN]

Running == phase = "running"
Alive   == phase # "down"

Zeroed == /\ hold_idx' = 0 /\ write_idx' = 0 /\ proc_idx' = 0 /\ read_idx' = 0
          /\ data_mark' = [s \in Slots |-> 0]
          /\ cell' = [s \in Slots |-> Blank]

-----------------------------------------------------------------------------
(* Producers.                                                              *)

\* The compare-exchange in HoldChannel.
Claim(p) ==
  /\ Running /\ pc[p] = "idle" /\ issued < MaxRecords
  /\ Next1(hold_idx) # read_idx
  /\ hold_idx' = Next1(hold_idx)
  /\ issued' = issued + 1
  /\ mine' = [mine EXCEPT ![p] = [slot |-> hold_idx, rec |-> issued + 1]]
  /\ pc' = [pc EXCEPT ![p] = "claimed"]
  /\ UNCHANGED <<shared, crashes, stops, segment, phase, write_idx, proc_idx,
                 read_idx, data_mark, cell, worker, history>>

\* MARK_HOLD; then InitLogData empties the slot and the text is being written.
Fill(p) ==
  /\ Alive /\ pc[p] = "claimed"
  /\ data_mark' = [data_mark EXCEPT ![mine[p].slot] = 1]
  /\ cell' = [cell EXCEPT ![mine[p].slot] =
                [rec |-> mine[p].rec, whole |-> FALSE, tagged |-> FALSE]]
  /\ pc' = [pc EXCEPT ![p] = "filling"]
  /\ UNCHANGED <<bounds, segment, phase, index, mine, worker, history>>

\* PushChannel up to the ready mark.  A stopped channel makes it return; the
\* slot stays held.
Ready(p) ==
  /\ Alive /\ pc[p] = "filling"
  /\ IF Running
     THEN /\ data_mark' = [data_mark EXCEPT ![mine[p].slot] = 2]
          /\ cell' = [cell EXCEPT ![mine[p].slot].whole = cell[mine[p].slot].rec = mine[p].rec]
          /\ committed' = committed \cup {mine[p].rec}
          /\ pc' = [pc EXCEPT ![p] = "publish"]
     ELSE /\ pc' = [pc EXCEPT ![p] = "idle"]
          /\ UNCHANGED <<data_mark, cell, committed>>
  /\ UNCHANGED <<bounds, segment, phase, index, mine, worker, sent, repeats, out, delivered>>

\* One round of PushChannel's loop.
Publish(p) ==
  /\ Alive /\ pc[p] = "publish"
  /\ LET more == write_idx # hold_idx /\ data_mark[write_idx] = 2 IN
       /\ write_idx' = IF more THEN Next1(write_idx) ELSE write_idx
       /\ pc' = [pc EXCEPT ![p] = IF more /\ Running THEN "publish" ELSE "idle"]
  /\ UNCHANGED <<bounds, segment, phase, hold_idx, proc_idx, read_idx, data_mark,
                 cell, mine, worker, history>>

-----------------------------------------------------------------------------
(* The channel's thread, EnterProcChannel.                                 *)

Take ==
  /\ phase \in {"running", "closing"} /\ worker = "idle"
  /\ proc_idx # write_idx
  /\ proc_idx' = Next1(proc_idx)
  /\ worker' = "taken"
  /\ UNCHANGED <<bounds, segment, phase, hold_idx, write_idx, read_idx, data_mark,
                 cell, pc, mine, history>>

\* The slot the thread took: cur_log.
Taken == (proc_idx + BUFFER_LEN - 1) % BUFFER_LEN

\* DispatchLog.
Dispatch ==
  /\ worker = "taken"
  /\ LET c == cell[Taken] IN
       /\ out' = c
       /\ delivered' = delivered \cup {c.rec}
       /\ sent' = IF c.tagged \/ c.rec = 0 THEN sent ELSE sent \cup {c.rec}
       /\ repeats' = IF ~c.tagged /\ c.rec \in sent THEN repeats + 1 ELSE repeats
  /\ worker' = "dispatched"
  /\ UNCHANGED <<bounds, segment, phase, index, data_mark, cell, pc, mine, committed>>

Release ==
  /\ worker = "dispatched"
  /\ data_mark' = [data_mark EXCEPT ![Taken] = 0]
  /\ worker' = "released"
  /\ UNCHANGED <<bounds, segment, phase, index, cell, pc, mine, history>>

\* Mutant: the slot is not given back.
GiveBackNot ==
  /\ worker = "released" /\ worker' = "idle"
  /\ UNCHANGED <<bounds, segment, phase, index, data_mark, cell, pc, mine, history>>

GiveBack ==
  /\ worker = "released"
  /\ read_idx' = Next1(read_idx)
  /\ worker' = "idle"
  /\ UNCHANGED <<bounds, segment, phase, hold_idx, write_idx, proc_idx, data_mark,
                 cell, pc, mine, history>>

-----------------------------------------------------------------------------
(* StopLogger, one step for each index CleanChannels resets.               *)

StopAsk ==
  /\ Running /\ stops < MaxStops
  /\ InFlightStop \/ \A p \in Producers : pc[p] = "idle"
  /\ stops' = stops + 1
  /\ phase' = "closing"
  /\ UNCHANGED <<shared, issued, crashes, segment, index, data_mark, cell, pc, mine,
                 worker, history>>

\* The thread finds the ring drained and ends, and is joined.
Join ==
  /\ phase = "closing" /\ worker = "idle" /\ proc_idx = write_idx
  /\ phase' = "clean_read"
  /\ UNCHANGED <<bounds, segment, index, data_mark, cell, pc, mine, worker, history>>

\* The marks from read_idx_ to write_idx_ are cleared on the way to read_idx_ = 0:
\* what was published after the thread ended is dropped.
CleanRead ==
  /\ phase = "clean_read"
  /\ data_mark' = [s \in Slots |->
       IF (s + BUFFER_LEN - read_idx) % BUFFER_LEN < (write_idx + BUFFER_LEN - read_idx) % BUFFER_LEN
       THEN 0 ELSE data_mark[s]]
  /\ read_idx' = 0
  /\ phase' = "clean_proc"
  /\ UNCHANGED <<bounds, segment, hold_idx, write_idx, proc_idx, cell, pc, mine, worker, history>>

CleanProc ==
  /\ phase = "clean_proc" /\ proc_idx' = 0 /\ phase' = "clean_write"
  /\ UNCHANGED <<bounds, segment, hold_idx, write_idx, read_idx, data_mark, cell, pc,
                 mine, worker, history>>

CleanWrite ==
  /\ phase = "clean_write" /\ write_idx' = 0 /\ phase' = "clean_hold"
  /\ UNCHANGED <<bounds, segment, hold_idx, proc_idx, read_idx, data_mark, cell, pc,
                 mine, worker, history>>

CleanHold ==
  /\ phase = "clean_hold" /\ hold_idx' = 0 /\ phase' = "stopped"
  /\ UNCHANGED <<bounds, segment, write_idx, proc_idx, read_idx, data_mark, cell, pc,
                 mine, worker, history>>

\* InitFromYMAL in a process that still has shm_: the ring is taken as it is.
StartAgain ==
  /\ phase = "stopped" /\ phase' = "running"
  /\ UNCHANGED <<bounds, segment, index, data_mark, cell, pc, mine, worker, history>>

\* ~Logger: UnloadSharedMemory destroys the segment, or the heap's ring.
Exit ==
  /\ phase = "stopped" /\ \A p \in Producers : pc[p] = "idle"
  /\ phase' = "down" /\ segment' = "none"
  /\ Zeroed
  /\ UNCHANGED <<bounds, pc, mine, worker, history>>

-----------------------------------------------------------------------------
(* LoadSharedMemory.                                                       *)

\* No key: new SHMLogger() and ResetSHMLogger.
StartHeap ==
  /\ phase = "down" /\ ~shared
  /\ phase' = "running"
  /\ Zeroed
  /\ UNCHANGED <<bounds, segment, pc, mine, worker, history>>

\* shmget(IPC_CREAT): zeroed pages.
Create ==
  /\ phase = "down" /\ shared /\ segment = "none"
  /\ segment' = "raw" /\ phase' = "create"
  /\ Zeroed
  /\ UNCHANGED <<bounds, pc, mine, worker, history>>

\* ResetSHMLogger, shm_size_ and shm_id_.
Stamp ==
  /\ phase = "create"
  /\ segment' = "stamped" /\ phase' = "recover"
  /\ UNCHANGED <<bounds, index, data_mark, cell, pc, mine, worker, history>>

\* shmat of an existing segment and the version check.  One that its creator
\* did not live to stamp is refused (E_SHM_VERSION_WRONG): phase stays "down".
Attach ==
  /\ phase = "down" /\ shared /\ segment = "stamped"
  /\ phase' = "recover"
  /\ UNCHANGED <<bounds, segment, index, data_mark, cell, pc, mine, worker, history>>

\* Mutant: a recovered slot is not marked as such.
RecoverSlotUntagged ==
  /\ phase = "recover" /\ write_idx # hold_idx
  /\ data_mark' = [data_mark EXCEPT ![write_idx] = 2]
  /\ phase' = "recover_next"
  /\ UNCHANGED <<bounds, segment, index, cell, pc, mine, worker, history>>

\* The slot at write_idx_ is declared ready whatever it contains; priority
\* FATAL and "!!!core recover!!!" tell the reader.
RecoverSlot ==
  /\ phase = "recover" /\ write_idx # hold_idx
  /\ data_mark' = [data_mark EXCEPT ![write_idx] = 2]
  /\ cell' = [cell EXCEPT ![write_idx].tagged = TRUE]
  /\ phase' = "recover_next"
  /\ UNCHANGED <<bounds, segment, index, pc, mine, worker, history>>

\* Mutant: write_idx_ is not advanced.
RecoverNextNot ==
  /\ phase = "recover_next" /\ phase' = "recover"
  /\ UNCHANGED <<bounds, segment, index, data_mark, cell, pc, mine, worker, history>>

RecoverNext ==
  /\ phase = "recover_next"
  /\ write_idx' = Next1(write_idx)
  /\ phase' = "recover"
  /\ UNCHANGED <<bounds, segment, hold_idx, proc_idx, read_idx, data_mark, cell, pc,
                 mine, worker, history>>

\* Mutant: proc_idx_ is left where the crash found it.
RecoverDoneProcKept ==
  /\ phase = "recover" /\ write_idx = hold_idx
  /\ phase' = "running"
  /\ UNCHANGED <<bounds, segment, index, data_mark, cell, pc, mine, worker, history>>

\* What was dispatched and not given back is to be dispatched again.
RecoverDone ==
  /\ phase = "recover" /\ write_idx = hold_idx
  /\ proc_idx' = read_idx
  /\ phase' = "running"
  /\ UNCHANGED <<bounds, segment, hold_idx, write_idx, read_idx, data_mark, cell, pc,
                 mine, worker, history>>

\* The process dies: its threads are gone, and the ring if it was on the heap.
Crash ==
  /\ Alive /\ crashes.live + crashes.clean < MaxCrashes
  /\ LET kind == IF phase \in {"clean_proc", "clean_write", "clean_hold"}
                 THEN "clean" ELSE "live"
     IN  crashes' = [crashes EXCEPT ![kind] = @ + 1]
  /\ phase' = "down"
  /\ pc' = [p \in Producers |-> "idle"] /\ worker' = "idle"
  /\ mine' = [p \in Producers |-> [slot |-> 0, rec |-> 0]]
  /\ IF shared THEN UNCHANGED <<index, data_mark, cell>> ELSE Zeroed
  /\ UNCHANGED <<shared, issued, stops, segment, history>>

-----------------------------------------------------------------------------
Init ==
  /\ shared \in BOOLEAN /\ segment = "none" /\ phase = "down"
  /\ hold_idx = 0 /\ write_idx = 0 /\ proc_idx = 0 /\ read_idx = 0
  /\ data_mark = [s \in Slots |-> 0] /\ cell = [s \in Slots |-> Blank]
  /\ pc = [p \in Producers |-> "idle"] /\ worker = "idle"
  /\ mine = [p \in Producers |-> [slot |-> 0, rec |-> 0]]
  /\ issued = 0 /\ committed = {} /\ delivered = {} /\ out = Blank
  /\ sent = {} /\ repeats = 0
  /\ crashes = [live |-> 0, clean |-> 0] /\ stops = 0

Produce(p) == Fill(p) \/ Ready(p) \/ Publish(p)
Work  == Take \/ Dispatch \/ Release \/ GiveBack
Clean == Join \/ CleanRead \/ CleanProc \/ CleanWrite \/ CleanHold
Load  == StartHeap \/ Create \/ Stamp \/ Attach \/ RecoverSlot \/ RecoverNext \/ RecoverDone

Next ==
  \/ \E p \in Producers : Claim(p) \/ Produce(p)
  \/ Work \/ StopAsk \/ Clean \/ StartAgain \/ Exit \/ Load \/ Crash

Spec == Init /\ [][Next]_vars

\* Threads are scheduled, StopLogger goes on, and whoever finds the process
\* down starts it again.  Nothing obliges anybody to log, stop or crash.
FairSpec ==
  /\ Spec
  /\ \A p \in Producers : WF_vars(Produce(p))
  /\ WF_vars(Work) /\ WF_vars(Clean) /\ WF_vars(Load)

-----------------------------------------------------------------------------
(* Properties.                                                             *)

\* A record that reaches the devices without the recovery tag is one that its
\* producer finished: whatever a crash, a stop or a restart leaves in the ring,
\* half a record or an old one is never passed off as a good one.
UntaggedIsWhole == out.rec # 0 /\ ~out.tagged => out.whole /\ out.rec \in committed

\* Records dispatched once more without the tag: at most one for each crash (the
\* one dispatched and not given back), but a whole ring for a crash between
\* CleanChannels' stores to read_idx_ and write_idx_.
RepeatsBounded == repeats <= crashes.live + (BUFFER_LEN - 1) * crashes.clean

\* At least once: a record PushChannel marked ready reaches the devices, however
\* often the process crashes, if the ring is in shared memory.
CommittedIsDelivered ==
  \A r \in Records : shared /\ r \in committed ~> r \in delivered

\* A logger that is down comes up again, unless its creator died between
\* creating the segment and stamping it: that segment is refused for ever.
Restarts == phase = "down" ~> phase = "running" \/ segment = "raw"
=============================================================================
