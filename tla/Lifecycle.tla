------------------------------ MODULE Lifecycle ------------------------------
(***************************************************************************)
(* Starting, stopping and hot-updating a Logger (src/include/fn_core.h,    *)
(* HotUpdateLogger in fn_load.h) from any number of threads: the double    *)
(* checks of logger_state_ around the recursive state_lock_, the thread    *)
(* that StartChannels creates for an async channel and the handshake with  *)
(* it, and the join in StopChannels.                                       *)
(*                                                                         *)
(* The ring is Channel's business: here a thread in EnterProcChannel has   *)
(* drained it and is between two passes of the outer loop.  An async       *)
(* channel has a thread of its own; a sync channel is visited by threads   *)
(* that log, one at a time here.                                           *)
(***************************************************************************)
EXTENDS Integers

CONSTANTS
  Callers,      \* the threads that start and stop the logger
  ChannelSize,  \* channels 1 .. ChannelSize (0 .. channel_size_ - 1 in the code)
  ChannelType,  \* the type of each channel
  NoThread      \* who holds a free lock

Channels == 1 .. ChannelSize
Async(c) == ChannelType[c] = "CHANNEL_ASYNC"

ASSUME LifecycleAssumption ==
  /\ ChannelSize \in Nat \ {0}
  /\ ChannelType \in [Channels -> {"CHANNEL_ASYNC", "CHANNEL_SYNC"}]
  /\ NoThread \notin Callers \cup Channels
  /\ Callers \cap Channels = {}

VARIABLES
  logger_state,   \* Logger::logger_state_
  channel_state,  \* Channel::channel_state_ of each channel
  owner,          \* who holds state_lock_
  joinable,       \* Logger::async_threads[c].joinable()
  pc,             \* where each caller is
  cursor,         \* channel_id of each caller's loop over the channels
  thread          \* where the thread in each channel's EnterProcChannel is

vars == <<logger_state, channel_state, owner, joinable, pc, cursor, thread>>

Goto(t, from, to) ==
  /\ pc[t] = from
  /\ pc' = [pc EXCEPT ![t] = to]

\* state_lock_ is recursive, but the depth never matters: InitFromYMAL and
\* StartLogger take it again under LoadAndStartLogger's guard, and every guard is
\* released when its function returns.
Lock(t)   == owner = NoThread /\ owner' = t
Unlock(t) == owner = t /\ owner' = NoThread

-----------------------------------------------------------------------------
(* ParseAndStartLogger: InitFromYMAL and StartLogger under one lock.       *)

\* The unlocked test; a logger in use is an error, nothing happens.
StartTry(t) ==
  /\ logger_state = "UNINIT"
  /\ Goto(t, "idle", "start_lock")
  /\ UNCHANGED <<logger_state, channel_state, owner, joinable, cursor, thread>>

StartLock(t) ==
  /\ Goto(t, "start_lock", "start_check")
  /\ Lock(t)
  /\ UNCHANGED <<logger_state, channel_state, joinable, cursor, thread>>

\* The same test under the lock.
StartInUse(t) ==
  /\ logger_state # "UNINIT"
  /\ Goto(t, "start_check", "idle")
  /\ Unlock(t)
  /\ UNCHANGED <<logger_state, channel_state, joinable, cursor, thread>>

\* A configuration that does not parse, or shared memory that does not attach, leaves
\* the channels as they are; one without a channel is refused when it has been copied
\* over them.
InitFailed(t) ==
  /\ logger_state = "UNINIT"
  /\ Goto(t, "start_check", "idle")
  /\ Unlock(t)
  /\ channel_state' \in {channel_state, [c \in Channels |-> "NULL"]}
  /\ UNCHANGED <<logger_state, joinable, cursor, thread>>

\* InitFromYMAL copies the parsed channels over the old ones, states included, and
\* StartLogger begins.
StartInit(t) ==
  /\ logger_state = "UNINIT"
  /\ Goto(t, "start_check", "start_channel")
  /\ channel_state' = [c \in Channels |-> "NULL"]
  /\ logger_state' = "INITING"
  /\ cursor' = [cursor EXCEPT ![t] = 1]
  /\ UNCHANGED <<owner, joinable, thread>>

\* StartChannels: a sync channel runs at once.
StartSync(t) ==
  /\ cursor[t] \in Channels /\ ~Async(cursor[t])
  /\ Goto(t, "start_channel", "start_channel")
  /\ channel_state' = [channel_state EXCEPT ![cursor[t]] = "RUNNING"]
  /\ cursor' = [cursor EXCEPT ![t] = @ + 1]
  /\ UNCHANGED <<logger_state, owner, joinable, thread>>

\* Mutant: the starter does not wait for the thread.
StartAsyncNoWait(t) ==
  /\ cursor[t] \in Channels /\ Async(cursor[t])
  /\ Goto(t, "start_channel", "start_channel")
  /\ joinable' = [joinable EXCEPT ![cursor[t]] = TRUE]
  /\ thread' = [thread EXCEPT ![cursor[t]] = "tick"]
  /\ cursor' = [cursor EXCEPT ![t] = @ + 1]
  /\ UNCHANGED <<logger_state, channel_state, owner>>

\* An async channel gets its thread; the starter waits for it.
StartAsync(t) ==
  /\ cursor[t] \in Channels /\ Async(cursor[t])
  /\ Goto(t, "start_channel", "start_wait")
  /\ joinable' = [joinable EXCEPT ![cursor[t]] = TRUE]
  /\ thread' = [thread EXCEPT ![cursor[t]] = "tick"]
  /\ UNCHANGED <<logger_state, channel_state, owner, cursor>>

StartSeen(t) ==
  /\ Goto(t, "start_wait", "start_channel")
  /\ channel_state[cursor[t]] = "RUNNING"
  /\ cursor' = [cursor EXCEPT ![t] = @ + 1]
  /\ UNCHANGED <<logger_state, channel_state, owner, joinable, thread>>

\* Mutant: a failed start does not stop the channels it started.
StartTimeoutLeave(t) ==
  /\ Goto(t, "start_wait", "fail_channel")
  /\ channel_state[cursor[t]] = "NULL"
  /\ cursor' = [cursor EXCEPT ![t] = ChannelSize + 1]
  /\ UNCHANGED <<logger_state, channel_state, owner, joinable, thread>>

\* A hundred waits of 10 ms have passed and the thread has not come round.
StartTimeout(t) ==
  /\ Goto(t, "start_wait", "fail_channel")
  /\ channel_state[cursor[t]] = "NULL"
  /\ cursor' = [cursor EXCEPT ![t] = 1]
  /\ UNCHANGED <<logger_state, channel_state, owner, joinable, thread>>

StartDone(t) ==
  /\ cursor[t] \notin Channels
  /\ Goto(t, "start_channel", "idle")
  /\ logger_state' = "RUNNING"
  /\ Unlock(t)
  /\ UNCHANGED <<channel_state, joinable, cursor, thread>>

-----------------------------------------------------------------------------
(* StopChannels, called by StopLogger and by a StartLogger that failed.    *)

Stopping == {"stop_channel", "fail_channel"}
Joining  == {"stop_join", "fail_join"}
Join(at) == IF at = "stop_channel" THEN "stop_join" ELSE "fail_join"

\* A sync channel, or an async one whose thread was never created, is just marked.
StopMark(t) ==
  /\ pc[t] \in Stopping
  /\ cursor[t] \in Channels /\ ~joinable[cursor[t]]
  /\ channel_state' = [channel_state EXCEPT ![cursor[t]] = "NULL"]
  /\ cursor' = [cursor EXCEPT ![t] = @ + 1]
  /\ UNCHANGED <<logger_state, owner, joinable, pc, thread>>

\* Mutant: the thread is joined without being asked to finish.
StopAskNot(t) ==
  /\ pc[t] \in Stopping
  /\ cursor[t] \in Channels /\ joinable[cursor[t]]
  /\ pc' = [pc EXCEPT ![t] = Join(pc[t])]
  /\ UNCHANGED <<logger_state, channel_state, owner, joinable, cursor, thread>>

\* A running channel's thread is asked to finish; then it is joined.
StopAsk(t) ==
  /\ pc[t] \in Stopping
  /\ cursor[t] \in Channels /\ joinable[cursor[t]]
  /\ channel_state' = [channel_state EXCEPT ![cursor[t]] =
                         IF @ = "RUNNING" THEN "WAITING_FINISH" ELSE @]
  /\ pc' = [pc EXCEPT ![t] = Join(pc[t])]
  /\ UNCHANGED <<logger_state, owner, joinable, cursor, thread>>

StopJoined(t) ==
  /\ pc[t] \in Joining
  /\ thread[cursor[t]] = "ended"
  /\ joinable' = [joinable EXCEPT ![cursor[t]] = FALSE]
  /\ channel_state' = [channel_state EXCEPT ![cursor[t]] = "NULL"]
  /\ cursor' = [cursor EXCEPT ![t] = @ + 1]
  /\ pc' = [pc EXCEPT ![t] = IF @ = "stop_join" THEN "stop_channel" ELSE "fail_channel"]
  /\ UNCHANGED <<logger_state, owner, thread>>

\* StopLogger then cleans the rings and closes the files.
StopDone(t) ==
  /\ pc[t] \in Stopping
  /\ cursor[t] \notin Channels
  /\ pc' = [pc EXCEPT ![t] = "idle"]
  /\ logger_state' = "UNINIT"
  /\ Unlock(t)
  /\ UNCHANGED <<channel_state, joinable, cursor, thread>>

-----------------------------------------------------------------------------
(* StopLogger.                                                             *)

StopTry(t) ==
  /\ logger_state = "RUNNING"
  /\ Goto(t, "idle", "stop_lock")
  /\ UNCHANGED <<logger_state, channel_state, owner, joinable, cursor, thread>>

StopLock(t) ==
  /\ Goto(t, "stop_lock", "stop_check")
  /\ Lock(t)
  /\ UNCHANGED <<logger_state, channel_state, joinable, cursor, thread>>

StopNotRunning(t) ==
  /\ logger_state # "RUNNING"
  /\ Goto(t, "stop_check", "idle")
  /\ Unlock(t)
  /\ UNCHANGED <<logger_state, channel_state, joinable, cursor, thread>>

\* Mutant: the test is not repeated under the lock.
StopBeginUnchecked(t) ==
  /\ Goto(t, "stop_check", "stop_channel")
  /\ logger_state' = "CLOSING"
  /\ cursor' = [cursor EXCEPT ![t] = 1]
  /\ UNCHANGED <<channel_state, owner, joinable, thread>>

StopBegin(t) ==
  /\ logger_state = "RUNNING"
  /\ Goto(t, "stop_check", "stop_channel")
  /\ logger_state' = "CLOSING"
  /\ cursor' = [cursor EXCEPT ![t] = 1]
  /\ UNCHANGED <<channel_state, owner, joinable, thread>>

Step(t) ==
  \/ StartLock(t) \/ StartInUse(t) \/ InitFailed(t) \/ StartInit(t) \/ StartSync(t)
  \/ StartAsync(t) \/ StartSeen(t) \/ StartTimeout(t) \/ StartDone(t)
  \/ StopLock(t) \/ StopNotRunning(t) \/ StopBegin(t)
  \/ StopMark(t) \/ StopAsk(t) \/ StopJoined(t) \/ StopDone(t)

-----------------------------------------------------------------------------
(* EnterProcChannel: the end of a pass.                                     *)

ThreadGoto(c, from, to) ==
  /\ thread[c] = from
  /\ thread' = [thread EXCEPT ![c] = to]

\* PushChannel on a sync channel: a thread that logged processes the ring.
Enter(c) ==
  /\ ~Async(c) /\ channel_state[c] = "RUNNING"
  /\ ThreadGoto(c, "none", "tick")
  /\ UNCHANGED <<logger_state, channel_state, owner, joinable, pc, cursor>>

\* The first pass declares the channel running.
Tick(c) ==
  /\ ThreadGoto(c, "tick", "hot_check")
  /\ channel_state' = [channel_state EXCEPT ![c] = IF @ = "NULL" THEN "RUNNING" ELSE @]
  /\ UNCHANGED <<logger_state, owner, joinable, pc, cursor>>

\* HotUpdateLogger finds nothing to do: disabled, too soon, or no change.
HotSkip(c) ==
  /\ ThreadGoto(c, "hot_check", "loop")
  /\ UNCHANGED <<logger_state, channel_state, owner, joinable, pc, cursor>>

\* The file has changed and the logger was running when the thread looked.
HotTry(c) ==
  /\ logger_state = "RUNNING"
  /\ ThreadGoto(c, "hot_check", "hot_lock")
  /\ UNCHANGED <<logger_state, channel_state, owner, joinable, pc, cursor>>

\* Mutant: the test is not repeated under the lock.
HotLockUntested(c) ==
  /\ ThreadGoto(c, "hot_lock", "hot_apply")
  /\ Lock(c)
  /\ UNCHANGED <<logger_state, channel_state, joinable, pc, cursor>>

\* The test is repeated under the lock; the configuration is copied if it holds.
HotLock(c) ==
  /\ ThreadGoto(c, "hot_lock", IF logger_state = "RUNNING" THEN "hot_apply" ELSE "hot_refuse")
  /\ Lock(c)
  /\ UNCHANGED <<logger_state, channel_state, joinable, pc, cursor>>

HotReturn(c) ==
  /\ \/ ThreadGoto(c, "hot_apply", "loop")
     \/ ThreadGoto(c, "hot_refuse", "loop")
  /\ Unlock(c)
  /\ UNCHANGED <<logger_state, channel_state, joinable, pc, cursor>>

\* Mutant: the thread goes on until it is marked finished.
LoopUntilFinish(c) ==
  /\ ThreadGoto(c, "loop", IF ~Async(c) THEN "none"
                           ELSE IF channel_state[c] # "FINISH" THEN "tick" ELSE "finish")
  /\ UNCHANGED <<logger_state, channel_state, owner, joinable, pc, cursor>>

\* A sync channel's visitor leaves; the channel's own thread stays while it runs.
Loop(c) ==
  /\ ThreadGoto(c, "loop", IF ~Async(c) THEN "none"
                           ELSE IF channel_state[c] = "RUNNING" THEN "tick" ELSE "finish")
  /\ UNCHANGED <<logger_state, channel_state, owner, joinable, pc, cursor>>

Finish(c) ==
  /\ ThreadGoto(c, "finish", "ended")
  /\ channel_state' = [channel_state EXCEPT ![c] = "FINISH"]
  /\ UNCHANGED <<logger_state, owner, joinable, pc, cursor>>

Pass(c) ==
  \/ Tick(c) \/ HotSkip(c) \/ HotTry(c) \/ HotLock(c) \/ HotReturn(c) \/ Loop(c) \/ Finish(c)

-----------------------------------------------------------------------------
Init ==
  /\ logger_state = "UNINIT"
  /\ channel_state = [c \in Channels |-> "NULL"]
  /\ owner = NoThread
  /\ joinable = [c \in Channels |-> FALSE]
  /\ pc = [t \in Callers |-> "idle"]
  /\ cursor = [t \in Callers |-> 1]
  /\ thread = [c \in Channels |-> "none"]

Next ==
  \/ \E t \in Callers : StartTry(t) \/ StopTry(t) \/ Step(t)
  \/ \E c \in Channels : Enter(c) \/ Pass(c)

\* A call that began goes on, and so does a thread; the lock need not be fair.
Fairness ==
  /\ \A t \in Callers : WF_vars(Step(t))
  /\ \A c \in Channels : WF_vars(Pass(c))

Spec == Init /\ [][Next]_vars
FairSpec == Spec /\ Fairness

-----------------------------------------------------------------------------
(* Properties.                                                             *)

InStart == {"start_check", "start_channel", "start_wait", "fail_channel", "fail_join"}
InStop  == {"stop_check", "stop_channel", "stop_join"}
Alive   == {"tick", "hot_check", "hot_lock", "hot_apply", "hot_refuse", "loop", "finish"}

LoggerStep ==
  CASE logger_state = "UNINIT"  -> logger_state' = "INITING"
    [] logger_state = "INITING" -> logger_state' \in {"RUNNING", "UNINIT"}
    [] logger_state = "RUNNING" -> logger_state' = "CLOSING"
    [] logger_state = "CLOSING" -> logger_state' = "UNINIT"

\* However starters, stoppers and hot updates race, the logger only ever goes
\* round UNINIT, INITING, RUNNING, CLOSING, or back from INITING when a start fails.
StateCycle == [][LoggerStep]_logger_state

\* A logger that says it is running is: every channel accepts logs and every async
\* channel has a live thread to take them.
RunningIsStarted ==
  logger_state = "RUNNING" =>
    \A c \in Channels : channel_state[c] = "RUNNING" /\ (Async(c) => thread[c] \in Alive)

\* A logger that is down left nothing behind: no thread of an async channel runs or
\* waits to be joined, none of them accepts logs (a sync channel may, see Finish of
\* Channel), and StartChannels assigns a new thread only over one that was joined
\* (std::thread would terminate the program otherwise).
UninitIsQuiet ==
  /\ logger_state = "UNINIT" =>
       \A c \in Channels : Async(c) =>
         thread[c] \notin Alive /\ ~joinable[c] /\ channel_state[c] = "NULL"
  /\ \A t \in Callers : pc[t] = "start_channel" /\ cursor[t] \in Channels => ~joinable[cursor[t]]

\* A new configuration is never copied into the channels while the logger starts
\* or stops.
UpdateAlone ==
  \A c \in Channels : thread[c] = "hot_apply" =>
    logger_state = "RUNNING" /\ \A t \in Callers : pc[t] \notin InStart \cup InStop

\* StopLogger waits, holding state_lock_, for a thread that waits for state_lock_.
CircularWait(t) == pc[t] \in Joining /\ thread[cursor[t]] = "hot_lock"

\* StartLogger gave up on a thread before its first pass: nobody asked it to
\* finish, and it is joined.
Abandoned(t) == pc[t] = "fail_join" /\ channel_state[cursor[t]] \in {"NULL", "RUNNING"}

\* A stop that began comes to an end, unless a thread it joins went for a hot
\* update just before.
StopReturns ==
  \A t \in Callers : pc[t] = "stop_channel" ~> (pc[t] = "idle" \/ CircularWait(t))

\* A start that began comes to an end, unless it timed out on a thread that then
\* starts running.
StartReturns ==
  \A t \in Callers : pc[t] = "start_channel" ~> (pc[t] = "idle" \/ Abandoned(t))

-----------------------------------------------------------------------------
(* What the README says of the lifecycle and the code does not keep: any   *)
(* thread may start and stop the logger and change its configuration.      *)

\* Stopping never waits for a hot update that waits for the stop.
NoCircularWait == \A t \in Callers : ~CircularWait(t)

\* A start that times out does not wait for the thread it gave up on to finish
\* by itself.
NoAbandonedJoin == \A t \in Callers : ~Abandoned(t)
=============================================================================
