--------------------------- MODULE LifecycleProofs ---------------------------
(***************************************************************************)
(* Proofs about Lifecycle, for any set of callers and any number of        *)
(* channels of either type.                                                *)
(***************************************************************************)
EXTENDS Lifecycle, TLAPS

Hot      == {"hot_apply", "hot_refuse"}
Initing  == {"start_channel", "start_wait", "fail_channel", "fail_join"}
Closing  == {"stop_channel", "stop_join"}
Visiting == Alive \ {"finish"}

TypeOK ==
  /\ logger_state \in {"UNINIT", "INITING", "RUNNING", "CLOSING"}
  /\ channel_state \in [Channels -> {"NULL", "RUNNING", "WAITING_FINISH", "FINISH"}]
  /\ owner \in Callers \cup Channels \cup {NoThread}
  /\ joinable \in [Channels -> BOOLEAN]
  /\ pc \in [Callers -> {"idle", "start_lock", "stop_lock"} \cup InStart \cup InStop]
  /\ cursor \in [Callers -> 1 .. ChannelSize + 1]
  /\ thread \in [Channels -> Alive \cup {"none", "ended"}]

\* state_lock_ is held by the caller between its lock and its return, or by the
\* thread that applies or refuses a hot update.
LockOwned ==
  /\ \A t \in Callers : pc[t] \in InStart \cup InStop <=> owner = t
  /\ \A c \in Channels : thread[c] \in Hot <=> owner = c

\* What logger_state_ is while somebody holds the lock to change it or relies on it.
StateHeld ==
  /\ \A t \in Callers : pc[t] \in Initing => logger_state = "INITING"
  /\ \A t \in Callers : pc[t] \in Closing => logger_state = "CLOSING"
  /\ \A c \in Channels : thread[c] = "hot_apply" => logger_state = "RUNNING"

\* A sync channel has no thread of its own and is never asked to finish.
Visited(c) ==
  /\ ~joinable[c]
  /\ channel_state[c] \in {"NULL", "RUNNING"}
  /\ thread[c] \in Visiting \cup {"none"}
SyncVisited == \A c \in Channels : ~Async(c) => Visited(c)

\* An async channel without a thread; one whose thread has begun; one that runs.
Down(c) == ~joinable[c] /\ channel_state[c] = "NULL" /\ thread[c] \in {"none", "ended"}
Begun(c) ==
  /\ joinable[c] /\ thread[c] \in Visiting
  /\ channel_state[c] = "RUNNING" \/ (channel_state[c] = "NULL" /\ thread[c] = "tick")
Up(c) ==
  /\ channel_state[c] = "RUNNING"
  /\ Async(c) => joinable[c] /\ thread[c] \in Visiting

\* The channels of a logger at rest.
Rest ==
  /\ logger_state = "UNINIT"  => \A c \in Channels : Async(c) => Down(c)
  /\ logger_state = "RUNNING" => \A c \in Channels : Up(c)

\* StartChannels: the channels before the cursor run, those after it are down.
Starts(t) ==
  /\ \A c \in Channels : c < cursor[t] => Up(c)
  /\ \A c \in Channels : c > cursor[t] /\ Async(c) => Down(c)
  /\ pc[t] = "start_channel" =>
       \A c \in Channels : c = cursor[t] /\ Async(c) => Down(c)
  /\ pc[t] = "start_wait" =>
       cursor[t] \in Channels /\ Async(cursor[t]) /\ Begun(cursor[t])
Starting == \A t \in Callers : pc[t] \in {"start_channel", "start_wait"} => Starts(t)

\* StopChannels: those before the cursor are down, those after it are down or have
\* a thread that nobody has asked to finish.
Stops(t) ==
  /\ \A c \in Channels : c < cursor[t] /\ Async(c) => Down(c)
  /\ \A c \in Channels : c > cursor[t] /\ Async(c) => Down(c) \/ Begun(c)
  /\ pc[t] \in Stopping =>
       \A c \in Channels : c = cursor[t] /\ Async(c) => Down(c) \/ Begun(c)
  /\ pc[t] \in Joining =>
       /\ cursor[t] \in Channels /\ Async(cursor[t]) /\ joinable[cursor[t]]
       /\ thread[cursor[t]] \in Alive \cup {"ended"}
Halting == \A t \in Callers : pc[t] \in Stopping \cup Joining => Stops(t)

Inv ==
  /\ TypeOK /\ LockOwned /\ StateHeld /\ SyncVisited
  /\ Rest /\ Starting /\ Halting

-----------------------------------------------------------------------------
(* The invariant is inductive.                                              *)

\* The caller that holds the lock is the only one between lock and return, and no
\* hot update is being applied.
LEMMA Alone ==
  ASSUME LockOwned, NEW t \in Callers, pc[t] \in InStart \cup InStop
  PROVE  /\ \A u \in Callers : u # t => pc[u] \notin InStart \cup InStop
         /\ \A c \in Channels : thread[c] \notin Hot
BY LifecycleAssumption DEF LockOwned

\* A cursor that is past the channels is past all of them.
LEMMA PastEnd ==
  ASSUME TypeOK, NEW t \in Callers, cursor[t] \notin Channels
  PROVE  \A c \in Channels : c < cursor[t]
BY LifecycleAssumption DEF TypeOK, Channels

\* Every step keeps the variables in their types.
LEMMA TypeStep ==
  ASSUME Inv, [Next]_vars
  PROVE  TypeOK'
<1> USE LifecycleAssumption DEF
      Inv, TypeOK, InStart, InStop, Alive, Stopping, Joining, Join, Goto, ThreadGoto,
      Lock, Unlock, Channels
<1>1. ASSUME NEW t \in Callers, StartTry(t)
      PROVE  TypeOK'
  BY <1>1 DEF StartTry
<1>2. ASSUME NEW t \in Callers, StopTry(t)
      PROVE  TypeOK'
  BY <1>2 DEF StopTry
<1>3. ASSUME NEW t \in Callers, StartLock(t)
      PROVE  TypeOK'
  BY <1>3 DEF StartLock
<1>4. ASSUME NEW t \in Callers, StartInUse(t)
      PROVE  TypeOK'
  BY <1>4 DEF StartInUse
<1>5. ASSUME NEW t \in Callers, InitFailed(t)
      PROVE  TypeOK'
  BY <1>5 DEF InitFailed
<1>6. ASSUME NEW t \in Callers, StartInit(t)
      PROVE  TypeOK'
  BY <1>6 DEF StartInit
<1>7. ASSUME NEW t \in Callers, StartSync(t)
      PROVE  TypeOK'
  BY <1>7 DEF StartSync
<1>8. ASSUME NEW t \in Callers, StartAsync(t)
      PROVE  TypeOK'
  BY <1>8 DEF StartAsync
<1>9. ASSUME NEW t \in Callers, StartSeen(t)
      PROVE  TypeOK'
  BY <1>9 DEF StartSeen, Starting, Starts
<1>10. ASSUME NEW t \in Callers, StartTimeout(t)
      PROVE  TypeOK'
  BY <1>10 DEF StartTimeout
<1>11. ASSUME NEW t \in Callers, StartDone(t)
      PROVE  TypeOK'
  BY <1>11 DEF StartDone
<1>12. ASSUME NEW t \in Callers, StopLock(t)
      PROVE  TypeOK'
  BY <1>12 DEF StopLock
<1>13. ASSUME NEW t \in Callers, StopNotRunning(t)
      PROVE  TypeOK'
  BY <1>13 DEF StopNotRunning
<1>14. ASSUME NEW t \in Callers, StopBegin(t)
      PROVE  TypeOK'
  BY <1>14 DEF StopBegin
<1>15. ASSUME NEW t \in Callers, StopMark(t)
      PROVE  TypeOK'
  BY <1>15 DEF StopMark
<1>16. ASSUME NEW t \in Callers, StopAsk(t)
      PROVE  TypeOK'
  BY <1>16 DEF StopAsk
<1>17. ASSUME NEW t \in Callers, StopJoined(t)
      PROVE  TypeOK'
  BY <1>17 DEF StopJoined, Halting, Stops
<1>18. ASSUME NEW t \in Callers, StopDone(t)
      PROVE  TypeOK'
  BY <1>18 DEF StopDone
<1>19. ASSUME NEW c \in Channels, Enter(c)
      PROVE  TypeOK'
  BY <1>19 DEF Enter
<1>20. ASSUME NEW c \in Channels, Tick(c)
      PROVE  TypeOK'
  BY <1>20 DEF Tick
<1>21. ASSUME NEW c \in Channels, HotSkip(c)
      PROVE  TypeOK'
  BY <1>21 DEF HotSkip
<1>22. ASSUME NEW c \in Channels, HotTry(c)
      PROVE  TypeOK'
  BY <1>22 DEF HotTry
<1>23. ASSUME NEW c \in Channels, HotLock(c)
      PROVE  TypeOK'
  BY <1>23 DEF HotLock
<1>24. ASSUME NEW c \in Channels, HotReturn(c)
      PROVE  TypeOK'
  BY <1>24 DEF HotReturn
<1>25. ASSUME NEW c \in Channels, Loop(c)
      PROVE  TypeOK'
  BY <1>25 DEF Loop
<1>26. ASSUME NEW c \in Channels, Finish(c)
      PROVE  TypeOK'
  BY <1>26 DEF Finish
<1>27. CASE UNCHANGED vars
  BY <1>27 DEF vars
<1> QED
  BY <1>1, <1>2, <1>3, <1>4, <1>5, <1>6, <1>7, <1>8, <1>9, <1>10, <1>11, <1>12, <1>13,
     <1>14, <1>15, <1>16, <1>17, <1>18, <1>19, <1>20, <1>21, <1>22, <1>23, <1>24, <1>25,
     <1>26, <1>27
     DEF Next, Step, Pass

\* Every step keeps track of who holds the lock.
LEMMA LockStep ==
  ASSUME TypeOK, LockOwned, [Next]_vars
  PROVE  LockOwned'
<1> USE LifecycleAssumption DEF
      TypeOK, LockOwned, Hot, InStart, InStop, Alive, Stopping, Joining, Join, Goto,
      ThreadGoto, Lock, Unlock
<1>1. ASSUME NEW t \in Callers, StartTry(t)
      PROVE  LockOwned'
  BY <1>1 DEF StartTry
<1>2. ASSUME NEW t \in Callers, StopTry(t)
      PROVE  LockOwned'
  BY <1>2 DEF StopTry
<1>3. ASSUME NEW t \in Callers, StartLock(t)
      PROVE  LockOwned'
  BY <1>3 DEF StartLock
<1>4. ASSUME NEW t \in Callers, StartInUse(t)
      PROVE  LockOwned'
  BY <1>4 DEF StartInUse
<1>5. ASSUME NEW t \in Callers, InitFailed(t)
      PROVE  LockOwned'
  BY <1>5 DEF InitFailed
<1>6. ASSUME NEW t \in Callers, StartInit(t)
      PROVE  LockOwned'
  BY <1>6 DEF StartInit
<1>7. ASSUME NEW t \in Callers, StartSync(t)
      PROVE  LockOwned'
  BY <1>7 DEF StartSync
<1>8. ASSUME NEW t \in Callers, StartAsync(t)
      PROVE  LockOwned'
  BY <1>8 DEF StartAsync
<1>9. ASSUME NEW t \in Callers, StartSeen(t)
      PROVE  LockOwned'
  BY <1>9 DEF StartSeen
<1>10. ASSUME NEW t \in Callers, StartTimeout(t)
      PROVE  LockOwned'
  BY <1>10 DEF StartTimeout
<1>11. ASSUME NEW t \in Callers, StartDone(t)
      PROVE  LockOwned'
  BY <1>11 DEF StartDone
<1>12. ASSUME NEW t \in Callers, StopLock(t)
      PROVE  LockOwned'
  BY <1>12 DEF StopLock
<1>13. ASSUME NEW t \in Callers, StopNotRunning(t)
      PROVE  LockOwned'
  BY <1>13 DEF StopNotRunning
<1>14. ASSUME NEW t \in Callers, StopBegin(t)
      PROVE  LockOwned'
  BY <1>14 DEF StopBegin
<1>15. ASSUME NEW t \in Callers, StopMark(t)
      PROVE  LockOwned'
  BY <1>15 DEF StopMark
<1>16. ASSUME NEW t \in Callers, StopAsk(t)
      PROVE  LockOwned'
  BY <1>16 DEF StopAsk
<1>17. ASSUME NEW t \in Callers, StopJoined(t)
      PROVE  LockOwned'
  BY <1>17 DEF StopJoined
<1>18. ASSUME NEW t \in Callers, StopDone(t)
      PROVE  LockOwned'
  BY <1>18 DEF StopDone
<1>19. ASSUME NEW c \in Channels, Enter(c)
      PROVE  LockOwned'
  BY <1>19 DEF Enter
<1>20. ASSUME NEW c \in Channels, Tick(c)
      PROVE  LockOwned'
  BY <1>20 DEF Tick
<1>21. ASSUME NEW c \in Channels, HotSkip(c)
      PROVE  LockOwned'
  BY <1>21 DEF HotSkip
<1>22. ASSUME NEW c \in Channels, HotTry(c)
      PROVE  LockOwned'
  BY <1>22 DEF HotTry
<1>23. ASSUME NEW c \in Channels, HotLock(c)
      PROVE  LockOwned'
  BY <1>23 DEF HotLock
<1>24. ASSUME NEW c \in Channels, HotReturn(c)
      PROVE  LockOwned'
  BY <1>24 DEF HotReturn
<1>25. ASSUME NEW c \in Channels, Loop(c)
      PROVE  LockOwned'
  BY <1>25 DEF Loop
<1>26. ASSUME NEW c \in Channels, Finish(c)
      PROVE  LockOwned'
  BY <1>26 DEF Finish
<1>27. CASE UNCHANGED vars
  BY <1>27 DEF vars
<1> QED
  BY <1>1, <1>2, <1>3, <1>4, <1>5, <1>6, <1>7, <1>8, <1>9, <1>10, <1>11, <1>12, <1>13,
     <1>14, <1>15, <1>16, <1>17, <1>18, <1>19, <1>20, <1>21, <1>22, <1>23, <1>24, <1>25,
     <1>26, <1>27
     DEF Next, Step, Pass

\* Whoever holds the lock finds the logger in the state it left it in.
LEMMA HeldStep ==
  ASSUME TypeOK, LockOwned, StateHeld, [Next]_vars
  PROVE  StateHeld'
<1> USE LifecycleAssumption DEF
      TypeOK, LockOwned, StateHeld, Hot, Initing, Closing, InStart, InStop, Alive,
      Stopping, Joining, Join, Goto, ThreadGoto, Lock, Unlock
<1>1. ASSUME NEW t \in Callers, StartTry(t)
      PROVE  StateHeld'
  BY <1>1 DEF StartTry
<1>2. ASSUME NEW t \in Callers, StopTry(t)
      PROVE  StateHeld'
  BY <1>2 DEF StopTry
<1>3. ASSUME NEW t \in Callers, StartLock(t)
      PROVE  StateHeld'
  BY <1>3 DEF StartLock
<1>4. ASSUME NEW t \in Callers, StartInUse(t)
      PROVE  StateHeld'
  BY <1>4 DEF StartInUse
<1>5. ASSUME NEW t \in Callers, InitFailed(t)
      PROVE  StateHeld'
  BY <1>5 DEF InitFailed
<1>6. ASSUME NEW t \in Callers, StartInit(t)
      PROVE  StateHeld'
  BY <1>6 DEF StartInit
<1>7. ASSUME NEW t \in Callers, StartSync(t)
      PROVE  StateHeld'
  BY <1>7 DEF StartSync
<1>8. ASSUME NEW t \in Callers, StartAsync(t)
      PROVE  StateHeld'
  BY <1>8 DEF StartAsync
<1>9. ASSUME NEW t \in Callers, StartSeen(t)
      PROVE  StateHeld'
  BY <1>9 DEF StartSeen
<1>10. ASSUME NEW t \in Callers, StartTimeout(t)
      PROVE  StateHeld'
  BY <1>10 DEF StartTimeout
<1>11. ASSUME NEW t \in Callers, StartDone(t)
      PROVE  StateHeld'
  BY <1>11 DEF StartDone
<1>12. ASSUME NEW t \in Callers, StopLock(t)
      PROVE  StateHeld'
  BY <1>12 DEF StopLock
<1>13. ASSUME NEW t \in Callers, StopNotRunning(t)
      PROVE  StateHeld'
  BY <1>13 DEF StopNotRunning
<1>14. ASSUME NEW t \in Callers, StopBegin(t)
      PROVE  StateHeld'
  BY <1>14 DEF StopBegin
<1>15. ASSUME NEW t \in Callers, StopMark(t)
      PROVE  StateHeld'
  BY <1>15 DEF StopMark
<1>16. ASSUME NEW t \in Callers, StopAsk(t)
      PROVE  StateHeld'
  BY <1>16 DEF StopAsk
<1>17. ASSUME NEW t \in Callers, StopJoined(t)
      PROVE  StateHeld'
  BY <1>17 DEF StopJoined
<1>18. ASSUME NEW t \in Callers, StopDone(t)
      PROVE  StateHeld'
  BY <1>18 DEF StopDone
<1>19. ASSUME NEW c \in Channels, Enter(c)
      PROVE  StateHeld'
  BY <1>19 DEF Enter
<1>20. ASSUME NEW c \in Channels, Tick(c)
      PROVE  StateHeld'
  BY <1>20 DEF Tick
<1>21. ASSUME NEW c \in Channels, HotSkip(c)
      PROVE  StateHeld'
  BY <1>21 DEF HotSkip
<1>22. ASSUME NEW c \in Channels, HotTry(c)
      PROVE  StateHeld'
  BY <1>22 DEF HotTry
<1>23. ASSUME NEW c \in Channels, HotLock(c)
      PROVE  StateHeld'
  BY <1>23 DEF HotLock
<1>24. ASSUME NEW c \in Channels, HotReturn(c)
      PROVE  StateHeld'
  BY <1>24 DEF HotReturn
<1>25. ASSUME NEW c \in Channels, Loop(c)
      PROVE  StateHeld'
  BY <1>25 DEF Loop
<1>26. ASSUME NEW c \in Channels, Finish(c)
      PROVE  StateHeld'
  BY <1>26 DEF Finish
<1>27. CASE UNCHANGED vars
  BY <1>27 DEF vars
<1> QED
  BY <1>1, <1>2, <1>3, <1>4, <1>5, <1>6, <1>7, <1>8, <1>9, <1>10, <1>11, <1>12, <1>13,
     <1>14, <1>15, <1>16, <1>17, <1>18, <1>19, <1>20, <1>21, <1>22, <1>23, <1>24, <1>25,
     <1>26, <1>27
     DEF Next, Step, Pass

\* Nobody starts or stops a thread for a sync channel.
LEMMA VisitedStep ==
  ASSUME TypeOK, SyncVisited, Halting, [Next]_vars
  PROVE  SyncVisited'
<1> USE LifecycleAssumption DEF
      TypeOK, SyncVisited, Visited, Visiting, InStart, InStop, Alive, Stopping,
      Joining, Join, Goto, ThreadGoto, Lock, Unlock
<1>1. ASSUME NEW t \in Callers, StartTry(t)
      PROVE  SyncVisited'
  BY <1>1 DEF StartTry
<1>2. ASSUME NEW t \in Callers, StopTry(t)
      PROVE  SyncVisited'
  BY <1>2 DEF StopTry
<1>3. ASSUME NEW t \in Callers, StartLock(t)
      PROVE  SyncVisited'
  BY <1>3 DEF StartLock
<1>4. ASSUME NEW t \in Callers, StartInUse(t)
      PROVE  SyncVisited'
  BY <1>4 DEF StartInUse
<1>5. ASSUME NEW t \in Callers, InitFailed(t)
      PROVE  SyncVisited'
  BY <1>5 DEF InitFailed
<1>6. ASSUME NEW t \in Callers, StartInit(t)
      PROVE  SyncVisited'
  BY <1>6 DEF StartInit
<1>7. ASSUME NEW t \in Callers, StartSync(t)
      PROVE  SyncVisited'
  BY <1>7 DEF StartSync
<1>8. ASSUME NEW t \in Callers, StartAsync(t)
      PROVE  SyncVisited'
  BY <1>8 DEF StartAsync
<1>9. ASSUME NEW t \in Callers, StartSeen(t)
      PROVE  SyncVisited'
  BY <1>9 DEF StartSeen
<1>10. ASSUME NEW t \in Callers, StartTimeout(t)
      PROVE  SyncVisited'
  BY <1>10 DEF StartTimeout
<1>11. ASSUME NEW t \in Callers, StartDone(t)
      PROVE  SyncVisited'
  BY <1>11 DEF StartDone
<1>12. ASSUME NEW t \in Callers, StopLock(t)
      PROVE  SyncVisited'
  BY <1>12 DEF StopLock
<1>13. ASSUME NEW t \in Callers, StopNotRunning(t)
      PROVE  SyncVisited'
  BY <1>13 DEF StopNotRunning
<1>14. ASSUME NEW t \in Callers, StopBegin(t)
      PROVE  SyncVisited'
  BY <1>14 DEF StopBegin
<1>15. ASSUME NEW t \in Callers, StopMark(t)
      PROVE  SyncVisited'
  BY <1>15 DEF StopMark
<1>16. ASSUME NEW t \in Callers, StopAsk(t)
      PROVE  SyncVisited'
  BY <1>16 DEF StopAsk
<1>17. ASSUME NEW t \in Callers, StopJoined(t)
      PROVE  SyncVisited'
  BY <1>17 DEF StopJoined, Halting, Stops
<1>18. ASSUME NEW t \in Callers, StopDone(t)
      PROVE  SyncVisited'
  BY <1>18 DEF StopDone
<1>19. ASSUME NEW c \in Channels, Enter(c)
      PROVE  SyncVisited'
  BY <1>19 DEF Enter
<1>20. ASSUME NEW c \in Channels, Tick(c)
      PROVE  SyncVisited'
  BY <1>20 DEF Tick
<1>21. ASSUME NEW c \in Channels, HotSkip(c)
      PROVE  SyncVisited'
  BY <1>21 DEF HotSkip
<1>22. ASSUME NEW c \in Channels, HotTry(c)
      PROVE  SyncVisited'
  BY <1>22 DEF HotTry
<1>23. ASSUME NEW c \in Channels, HotLock(c)
      PROVE  SyncVisited'
  BY <1>23 DEF HotLock
<1>24. ASSUME NEW c \in Channels, HotReturn(c)
      PROVE  SyncVisited'
  BY <1>24 DEF HotReturn
<1>25. ASSUME NEW c \in Channels, Loop(c)
      PROVE  SyncVisited'
  BY <1>25 DEF Loop
<1>26. ASSUME NEW c \in Channels, Finish(c)
      PROVE  SyncVisited'
  BY <1>26 DEF Finish
<1>27. CASE UNCHANGED vars
  BY <1>27 DEF vars
<1> QED
  BY <1>1, <1>2, <1>3, <1>4, <1>5, <1>6, <1>7, <1>8, <1>9, <1>10, <1>11, <1>12, <1>13,
     <1>14, <1>15, <1>16, <1>17, <1>18, <1>19, <1>20, <1>21, <1>22, <1>23, <1>24, <1>25,
     <1>26, <1>27
     DEF Next, Step, Pass

\* The channels are all down, or all up, when a caller says so, and stay so.
LEMMA RestStep ==
  ASSUME Inv, [Next]_vars
  PROVE  Rest'
<1> USE LifecycleAssumption DEF
      Inv, TypeOK, Rest, StateHeld, Initing, Closing, Down, Up, Begun, Visiting,
      InStart, InStop, Alive, Stopping, Joining, Join, Goto, ThreadGoto, Lock, Unlock
<1>1. ASSUME NEW t \in Callers, StartTry(t)
      PROVE  Rest'
  BY <1>1 DEF StartTry
<1>2. ASSUME NEW t \in Callers, StopTry(t)
      PROVE  Rest'
  BY <1>2 DEF StopTry
<1>3. ASSUME NEW t \in Callers, StartLock(t)
      PROVE  Rest'
  BY <1>3 DEF StartLock
<1>4. ASSUME NEW t \in Callers, StartInUse(t)
      PROVE  Rest'
  BY <1>4 DEF StartInUse
<1>5. ASSUME NEW t \in Callers, InitFailed(t)
      PROVE  Rest'
  BY <1>5 DEF InitFailed
<1>6. ASSUME NEW t \in Callers, StartInit(t)
      PROVE  Rest'
  BY <1>6 DEF StartInit
<1>7. ASSUME NEW t \in Callers, StartSync(t)
      PROVE  Rest'
  BY <1>7 DEF StartSync
<1>8. ASSUME NEW t \in Callers, StartAsync(t)
      PROVE  Rest'
  BY <1>8 DEF StartAsync
<1>9. ASSUME NEW t \in Callers, StartSeen(t)
      PROVE  Rest'
  BY <1>9 DEF StartSeen
<1>10. ASSUME NEW t \in Callers, StartTimeout(t)
      PROVE  Rest'
  BY <1>10 DEF StartTimeout
<1>11. ASSUME NEW t \in Callers, StartDone(t)
      PROVE  Rest'
  BY <1>11, PastEnd DEF StartDone, Starting, Starts
<1>12. ASSUME NEW t \in Callers, StopLock(t)
      PROVE  Rest'
  BY <1>12 DEF StopLock
<1>13. ASSUME NEW t \in Callers, StopNotRunning(t)
      PROVE  Rest'
  BY <1>13 DEF StopNotRunning
<1>14. ASSUME NEW t \in Callers, StopBegin(t)
      PROVE  Rest'
  BY <1>14 DEF StopBegin
<1>15. ASSUME NEW t \in Callers, StopMark(t)
      PROVE  Rest'
  BY <1>15 DEF StopMark
<1>16. ASSUME NEW t \in Callers, StopAsk(t)
      PROVE  Rest'
  BY <1>16 DEF StopAsk
<1>17. ASSUME NEW t \in Callers, StopJoined(t)
      PROVE  Rest'
  BY <1>17 DEF StopJoined
<1>18. ASSUME NEW t \in Callers, StopDone(t)
      PROVE  Rest'
  BY <1>18, PastEnd DEF StopDone, Halting, Stops
<1>19. ASSUME NEW c \in Channels, Enter(c)
      PROVE  Rest'
  BY <1>19 DEF Enter
<1>20. ASSUME NEW c \in Channels, Tick(c)
      PROVE  Rest'
  BY <1>20 DEF Tick
<1>21. ASSUME NEW c \in Channels, HotSkip(c)
      PROVE  Rest'
  BY <1>21 DEF HotSkip
<1>22. ASSUME NEW c \in Channels, HotTry(c)
      PROVE  Rest'
  BY <1>22 DEF HotTry
<1>23. ASSUME NEW c \in Channels, HotLock(c)
      PROVE  Rest'
  BY <1>23 DEF HotLock
<1>24. ASSUME NEW c \in Channels, HotReturn(c)
      PROVE  Rest'
  BY <1>24 DEF HotReturn
<1>25. ASSUME NEW c \in Channels, Loop(c)
      PROVE  Rest'
  BY <1>25 DEF Loop
<1>26. ASSUME NEW c \in Channels, Finish(c)
      PROVE  Rest'
  BY <1>26 DEF Finish, SyncVisited, Visited
<1>27. CASE UNCHANGED vars
  BY <1>27 DEF vars
<1> QED
  BY <1>1, <1>2, <1>3, <1>4, <1>5, <1>6, <1>7, <1>8, <1>9, <1>10, <1>11, <1>12, <1>13,
     <1>14, <1>15, <1>16, <1>17, <1>18, <1>19, <1>20, <1>21, <1>22, <1>23, <1>24, <1>25,
     <1>26, <1>27
     DEF Next, Step, Pass

\* StartChannels leaves a row of channels that run and stay running.
LEMMA StartingStep ==
  ASSUME Inv, [Next]_vars
  PROVE  Starting'
<1> USE LifecycleAssumption DEF
      Inv, TypeOK, Starts, Down, Up, Begun, Visiting, InStart, InStop, Alive,
      Stopping, Joining, Join, Goto, ThreadGoto, Lock, Unlock
<1>1. ASSUME NEW t \in Callers, StartTry(t)
      PROVE  Starting'
  BY <1>1 DEF StartTry, Starting
<1>2. ASSUME NEW t \in Callers, StopTry(t)
      PROVE  Starting'
  BY <1>2 DEF StopTry, Starting
<1>3. ASSUME NEW t \in Callers, StartLock(t)
      PROVE  Starting'
  BY <1>3 DEF StartLock, Starting
<1>4. ASSUME NEW t \in Callers, StartInUse(t)
      PROVE  Starting'
  BY <1>4 DEF StartInUse, Starting
<1>5. ASSUME NEW t \in Callers, InitFailed(t)
      PROVE  Starting'
  BY <1>5, Alone DEF InitFailed, Starting
<1>6. ASSUME NEW t \in Callers, StartInit(t)
      PROVE  Starting'
  <2>1. Starts(t)'
    BY <1>6 DEF StartInit, Rest, Channels
  <2> QED
    BY <1>6, <2>1, Alone DEF StartInit, Starting
<1>7. ASSUME NEW t \in Callers, StartSync(t)
      PROVE  Starting'
  <2>1. Starts(t)'
    <3>1. Starts(t) /\ cursor'[t] = cursor[t] + 1 /\ pc'[t] = "start_channel"
      BY <1>7 DEF StartSync, Starting
    <3>2. \A c \in Channels : c < cursor'[t] <=> c < cursor[t] \/ c = cursor[t]
      BY <3>1 DEF Channels
    <3> QED
      BY <1>7, <3>1, <3>2 DEF StartSync, Channels
  <2> QED
    BY <1>7, <2>1, Alone DEF StartSync, Starting
<1>8. ASSUME NEW t \in Callers, StartAsync(t)
      PROVE  Starting'
  <2>1. Starts(t)'
    BY <1>8 DEF StartAsync, Starting
  <2> QED
    BY <1>8, <2>1, Alone DEF StartAsync, Starting
<1>9. ASSUME NEW t \in Callers, StartSeen(t)
      PROVE  Starting'
  <2>1. Starts(t)'
    <3>1. Starts(t) /\ cursor'[t] = cursor[t] + 1 /\ pc'[t] = "start_channel"
      BY <1>9 DEF StartSeen, Starting
    <3>2. \A c \in Channels : c < cursor'[t] <=> c < cursor[t] \/ c = cursor[t]
      BY <3>1 DEF Channels
    <3> QED
      BY <1>9, <3>1, <3>2 DEF StartSeen, Channels
  <2> QED
    BY <1>9, <2>1, Alone DEF StartSeen, Starting
<1>10. ASSUME NEW t \in Callers, StartTimeout(t)
      PROVE  Starting'
  BY <1>10 DEF StartTimeout, Starting
<1>11. ASSUME NEW t \in Callers, StartDone(t)
      PROVE  Starting'
  BY <1>11 DEF StartDone, Starting
<1>12. ASSUME NEW t \in Callers, StopLock(t)
      PROVE  Starting'
  BY <1>12 DEF StopLock, Starting
<1>13. ASSUME NEW t \in Callers, StopNotRunning(t)
      PROVE  Starting'
  BY <1>13 DEF StopNotRunning, Starting
<1>14. ASSUME NEW t \in Callers, StopBegin(t)
      PROVE  Starting'
  BY <1>14 DEF StopBegin, Starting
<1>15. ASSUME NEW t \in Callers, StopMark(t)
      PROVE  Starting'
  BY <1>15, Alone DEF StopMark, Starting, Halting
<1>16. ASSUME NEW t \in Callers, StopAsk(t)
      PROVE  Starting'
  BY <1>16, Alone DEF StopAsk, Starting, Halting
<1>17. ASSUME NEW t \in Callers, StopJoined(t)
      PROVE  Starting'
  BY <1>17, Alone DEF StopJoined, Starting, Halting
<1>18. ASSUME NEW t \in Callers, StopDone(t)
      PROVE  Starting'
  BY <1>18 DEF StopDone, Starting
<1>19. ASSUME NEW c \in Channels, Enter(c)
      PROVE  Starting'
  BY <1>19 DEF Enter, Starting
<1>20. ASSUME NEW c \in Channels, Tick(c)
      PROVE  Starting'
  BY <1>20 DEF Tick, Starting
<1>21. ASSUME NEW c \in Channels, HotSkip(c)
      PROVE  Starting'
  BY <1>21 DEF HotSkip, Starting
<1>22. ASSUME NEW c \in Channels, HotTry(c)
      PROVE  Starting'
  BY <1>22 DEF HotTry, Starting
<1>23. ASSUME NEW c \in Channels, HotLock(c)
      PROVE  Starting'
  BY <1>23 DEF HotLock, Starting
<1>24. ASSUME NEW c \in Channels, HotReturn(c)
      PROVE  Starting'
  BY <1>24 DEF HotReturn, Starting
<1>25. ASSUME NEW c \in Channels, Loop(c)
      PROVE  Starting'
  BY <1>25 DEF Loop, Starting
<1>26. ASSUME NEW c \in Channels, Finish(c)
      PROVE  Starting'
  <2>1. \A t \in Callers : pc[t] \notin {"start_channel", "start_wait"}
    <3> SUFFICES ASSUME NEW t \in Callers, Starts(t),
                        pc[t] \in {"start_channel", "start_wait"}
                 PROVE  FALSE
      BY DEF Starting
    <3>1. Async(c)
      BY <1>26 DEF Finish, SyncVisited, Visited
    <3>2. c < cursor[t] \/ c = cursor[t] \/ c > cursor[t]
      BY DEF Channels
    <3> QED
      BY <1>26, <3>1, <3>2 DEF Finish
  <2> QED
    BY <1>26, <2>1 DEF Finish, Starting
<1>27. CASE UNCHANGED vars
  BY <1>27 DEF vars, Starting
<1> QED
  BY <1>1, <1>2, <1>3, <1>4, <1>5, <1>6, <1>7, <1>8, <1>9, <1>10, <1>11, <1>12, <1>13,
     <1>14, <1>15, <1>16, <1>17, <1>18, <1>19, <1>20, <1>21, <1>22, <1>23, <1>24, <1>25,
     <1>26, <1>27
     DEF Next, Step, Pass

\* StopChannels leaves a row of channels that are down and stay down.
LEMMA HaltingStep ==
  ASSUME Inv, [Next]_vars
  PROVE  Halting'
<1> USE LifecycleAssumption DEF
      Inv, TypeOK, Stops, Down, Up, Begun, Visiting, InStart, InStop, Alive, Stopping,
      Joining, Join, Goto, ThreadGoto, Lock, Unlock
<1>1. ASSUME NEW t \in Callers, StartTry(t)
      PROVE  Halting'
  BY <1>1 DEF StartTry, Halting
<1>2. ASSUME NEW t \in Callers, StopTry(t)
      PROVE  Halting'
  BY <1>2 DEF StopTry, Halting
<1>3. ASSUME NEW t \in Callers, StartLock(t)
      PROVE  Halting'
  BY <1>3 DEF StartLock, Halting
<1>4. ASSUME NEW t \in Callers, StartInUse(t)
      PROVE  Halting'
  BY <1>4 DEF StartInUse, Halting
<1>5. ASSUME NEW t \in Callers, InitFailed(t)
      PROVE  Halting'
  BY <1>5, Alone DEF InitFailed, Halting
<1>6. ASSUME NEW t \in Callers, StartInit(t)
      PROVE  Halting'
  BY <1>6, Alone DEF StartInit, Starting, Halting
<1>7. ASSUME NEW t \in Callers, StartSync(t)
      PROVE  Halting'
  BY <1>7 DEF StartSync, Halting
<1>8. ASSUME NEW t \in Callers, StartAsync(t)
      PROVE  Halting'
  BY <1>8, Alone DEF StartAsync, Starting, Halting
<1>9. ASSUME NEW t \in Callers, StartSeen(t)
      PROVE  Halting'
  BY <1>9 DEF StartSeen, Halting
<1>10. ASSUME NEW t \in Callers, StartTimeout(t)
      PROVE  Halting'
  <2>1. Stops(t)'
    BY <1>10 DEF StartTimeout, Starting, Starts, Channels
  <2> QED
    BY <1>10, <2>1, Alone DEF StartTimeout, Halting
<1>11. ASSUME NEW t \in Callers, StartDone(t)
      PROVE  Halting'
  BY <1>11 DEF StartDone, Halting
<1>12. ASSUME NEW t \in Callers, StopLock(t)
      PROVE  Halting'
  BY <1>12 DEF StopLock, Halting
<1>13. ASSUME NEW t \in Callers, StopNotRunning(t)
      PROVE  Halting'
  BY <1>13 DEF StopNotRunning, Halting
<1>14. ASSUME NEW t \in Callers, StopBegin(t)
      PROVE  Halting'
  <2>1. Stops(t)'
    BY <1>14 DEF StopBegin, Rest, Channels
  <2> QED
    BY <1>14, <2>1, Alone DEF StopBegin, Halting
<1>15. ASSUME NEW t \in Callers, StopMark(t)
      PROVE  Halting'
  <2>1. Stops(t)'
    <3>1. Stops(t) /\ cursor'[t] = cursor[t] + 1 /\ pc'[t] \in Stopping
      BY <1>15 DEF StopMark, Halting
    <3>2. \A c \in Channels : c < cursor'[t] <=> c < cursor[t] \/ c = cursor[t]
      BY <3>1 DEF Channels
    <3> QED
      BY <1>15, <3>1, <3>2 DEF StopMark, Channels
  <2> QED
    BY <1>15, <2>1, Alone DEF StopMark, Halting
<1>16. ASSUME NEW t \in Callers, StopAsk(t)
      PROVE  Halting'
  <2>1. Stops(t)'
    BY <1>16 DEF StopAsk, Halting, SyncVisited, Visited
  <2> QED
    BY <1>16, <2>1, Alone DEF StopAsk, Halting
<1>17. ASSUME NEW t \in Callers, StopJoined(t)
      PROVE  Halting'
  <2>1. Stops(t)'
    <3>1. Stops(t) /\ cursor'[t] = cursor[t] + 1 /\ pc'[t] \in Stopping
      BY <1>17 DEF StopJoined, Halting
    <3>2. \A c \in Channels : c < cursor'[t] <=> c < cursor[t] \/ c = cursor[t]
      BY <3>1 DEF Channels
    <3> QED
      BY <1>17, <3>1, <3>2 DEF StopJoined, Channels
  <2> QED
    BY <1>17, <2>1, Alone DEF StopJoined, Halting
<1>18. ASSUME NEW t \in Callers, StopDone(t)
      PROVE  Halting'
  BY <1>18 DEF StopDone, Halting
<1>19. ASSUME NEW c \in Channels, Enter(c)
      PROVE  Halting'
  BY <1>19 DEF Enter, Halting
<1>20. ASSUME NEW c \in Channels, Tick(c)
      PROVE  Halting'
  BY <1>20 DEF Tick, Halting
<1>21. ASSUME NEW c \in Channels, HotSkip(c)
      PROVE  Halting'
  BY <1>21 DEF HotSkip, Halting
<1>22. ASSUME NEW c \in Channels, HotTry(c)
      PROVE  Halting'
  BY <1>22 DEF HotTry, Halting
<1>23. ASSUME NEW c \in Channels, HotLock(c)
      PROVE  Halting'
  BY <1>23 DEF HotLock, Halting
<1>24. ASSUME NEW c \in Channels, HotReturn(c)
      PROVE  Halting'
  BY <1>24 DEF HotReturn, Halting
<1>25. ASSUME NEW c \in Channels, Loop(c)
      PROVE  Halting'
  BY <1>25 DEF Loop, Halting
<1>26. ASSUME NEW c \in Channels, Finish(c)
      PROVE  Halting'
  BY <1>26 DEF Finish, Halting
<1>27. CASE UNCHANGED vars
  BY <1>27 DEF vars, Halting
<1> QED
  BY <1>1, <1>2, <1>3, <1>4, <1>5, <1>6, <1>7, <1>8, <1>9, <1>10, <1>11, <1>12, <1>13,
     <1>14, <1>15, <1>16, <1>17, <1>18, <1>19, <1>20, <1>21, <1>22, <1>23, <1>24, <1>25,
     <1>26, <1>27
     DEF Next, Step, Pass

\* A logger that was never started has no threads and no lock holder.
LEMMA InitInv == Init => Inv
<1> SUFFICES ASSUME Init PROVE Inv
  OBVIOUS
<1> USE LifecycleAssumption DEF Init, InStart, InStop
<1>1. TypeOK
  BY DEF TypeOK, Alive, Channels
<1>2. LockOwned /\ StateHeld
  BY DEF LockOwned, StateHeld, Hot, Initing, Closing
<1>3. SyncVisited /\ Rest
  BY DEF SyncVisited, Visited, Rest, Down
<1>4. Starting /\ Halting
  BY DEF Starting, Halting, Stopping, Joining
<1> QED
  BY <1>1, <1>2, <1>3, <1>4 DEF Inv

\* Every step keeps the invariant.
LEMMA NextInv == Inv /\ [Next]_vars => Inv'
BY TypeStep, LockStep, HeldStep, VisitedStep, RestStep, StartingStep, HaltingStep DEF Inv

\* However starts, stops, hot updates and the channels' threads interleave, the lock
\* has one holder, the state word says what that holder is doing, and StartChannels
\* and StopChannels have left behind them channels that run or that are down.
THEOREM LifecycleInvariant == Spec => []Inv
<1> QED
  BY InitInv, NextInv, PTL DEF Spec

-----------------------------------------------------------------------------
(* What the invariant gives.                                               *)

\* HotUpdateLogger copies a configuration only into a running logger that nobody is
\* starting or stopping: the test repeated under state_lock_ is enough.
THEOREM HotUpdateIsAlone == Spec => []UpdateAlone
<1>1. Inv => UpdateAlone
  BY LifecycleAssumption DEF Inv, LockOwned, StateHeld, UpdateAlone, Hot
<1> QED
  BY <1>1, LifecycleInvariant, PTL

\* A logger whose state is RUNNING has every channel running and a live thread for
\* every async one: StartLogger stores the state only after StartChannels saw them
\* all, and nothing but a stop, which stores CLOSING first, ends them.
THEOREM RunningLoggerIsStarted == Spec => []RunningIsStarted
<1>1. Inv => RunningIsStarted
  BY DEF Inv, Rest, Up, Visiting, RunningIsStarted
<1> QED
  BY <1>1, LifecycleInvariant, PTL

\* A logger that is UNINIT left no thread of an async channel running or to be
\* joined, also after a start that failed half way, and std::thread is never
\* assigned over one that is joinable.
THEOREM UninitLoggerIsQuiet == Spec => []UninitIsQuiet
<1>1. ASSUME Inv
      PROVE  UninitIsQuiet
  <2>1. logger_state = "UNINIT" =>
          \A c \in Channels : Async(c) =>
            thread[c] \notin Alive /\ ~joinable[c] /\ channel_state[c] = "NULL"
    BY <1>1 DEF Inv, Rest, Down, Alive
  <2>2. ASSUME NEW t \in Callers, pc[t] = "start_channel", cursor[t] \in Channels
        PROVE  ~joinable[cursor[t]]
    BY <1>1, <2>2 DEF Inv, Starting, Starts, Down, SyncVisited, Visited
  <2> QED
    BY <2>1, <2>2 DEF UninitIsQuiet
<1> QED
  BY <1>1, LifecycleInvariant, PTL

\* Whoever changes logger_state_ found the state that its next one follows.
LEMMA CycleStep == Inv /\ [Next]_vars => [LoggerStep]_logger_state
<1> SUFFICES ASSUME Inv, [Next]_vars, logger_state' # logger_state
             PROVE  LoggerStep
  OBVIOUS
<1> USE DEF LoggerStep, Goto, Initing, Closing
<1>1. ASSUME NEW t \in Callers, StartInit(t)
      PROVE  LoggerStep
  BY <1>1 DEF StartInit
<1>2. ASSUME NEW t \in Callers, StartDone(t)
      PROVE  LoggerStep
  BY <1>2 DEF StartDone, Inv, StateHeld
<1>3. ASSUME NEW t \in Callers, StopBegin(t)
      PROVE  LoggerStep
  BY <1>3 DEF StopBegin
<1>4. ASSUME NEW t \in Callers, StopDone(t)
      PROVE  LoggerStep
  BY <1>4 DEF StopDone, Stopping, Inv, StateHeld
<1>5. \E t \in Callers : StartInit(t) \/ StartDone(t) \/ StopBegin(t) \/ StopDone(t)
  BY DEF Next, vars, Step, Pass, StartTry, StopTry, StartLock, StartInUse, InitFailed,
         StartSync, StartAsync, StartSeen, StartTimeout, StopLock, StopNotRunning,
         StopMark, StopAsk, StopJoined, Enter, Tick, HotSkip, HotTry, HotLock, HotReturn,
         Loop, Finish
<1> QED
  BY <1>1, <1>2, <1>3, <1>4, <1>5

\* The logger only goes round UNINIT, INITING, RUNNING, CLOSING, or back from INITING
\* when a start fails, whoever races: the unlocked tests of StartLogger, StopLogger
\* and HotUpdateLogger decide nothing.
THEOREM LoggerCycles == Spec => StateCycle
<1> QED
  BY CycleStep, LifecycleInvariant, PTL DEF Spec, StateCycle
=============================================================================
