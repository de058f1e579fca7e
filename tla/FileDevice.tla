----------------------------- MODULE FileDevice -----------------------------
(***************************************************************************)
(* The file device (src/include/fn_out_file_device.h, with FileHandler of  *)
(* src/include/fn_file.h): when it closes, names, rolls, opens and writes  *)
(* its file, over days that need not have 24 hours, with records that come *)
(* a little out of order, opens and writes that fail, and restarts of the  *)
(* logger.  One step is the whole handling of one record, which the        *)
(* channel's lock (or its only thread) makes atomic.                       *)
(*                                                                         *)
(* A record is its number and has length 1; a file is the sequence of its  *)
(* records.  Time is the timestamp of the records, in half hours.          *)
(***************************************************************************)
EXTENDS Naturals, Sequences, SequencesExt, FiniteSetsExt

CONSTANTS
  Configs,       \* configurations of the device
  DayStart,      \* the calendar: when each day begins, local time, and when the last one ends
  Day,           \* 24 * 3600
  Hour,          \* 3600
  Retry,         \* the 5 seconds between attempts to open
  Disorder,      \* bound: how much older a record may be than the one before
  MaxRecords, MaxFailures, MaxRestarts   \* bounds

ASSUME FileDeviceAssumption ==
  /\ Day \in Nat /\ Hour \in Nat \ {0} /\ Retry \in Nat
  /\ DayStart \in Seq(Nat) /\ Len(DayStart) > 1
  /\ \A c, d \in DOMAIN DayStart : c < d => DayStart[c] < DayStart[d]
  /\ Retry <= DayStart[1]   \* zero, for "never", lies far back
  /\ Configs \subseteq [limit : Nat, rollback : Nat, roll : {"none", "daily", "hourly"},
                         stuff_up : BOOLEAN, naming : {"fixed", "day"}]

VARIABLES
  cfg,       \* the configuration, fixed
  writer,    \* the name the file was opened by, Closed if file_ is null
  files,     \* the files: <<name, 0>> is the log, <<name, k>> is name.k
  dev,       \* device_log_fields_ of the device
  restarts,
  stamp,     \* history: the timestamps of the records
  fate,      \* history: what became of each record
  written    \* history: the records written to each name

vars == <<cfg, writer, files, dev, restarts, stamp, fate, written>>

-----------------------------------------------------------------------------
(* The calendar and the names.                                             *)

Days        == 1 .. Len(DayStart) - 1
Times       == DayStart[1] .. DayStart[Len(DayStart)] - 1
DayOf(t)    == Max({d \in Days : DayStart[d] <= t})
DayBegin(t) == DayStart[DayOf(t)]
DayLength(d) == DayStart[d + 1] - DayStart[d]
HourOf(t)   == (t \div Hour) * Hour

Closed == 0

\* The name made from the time: with the day in it, or the same for ever.
MakeFileName(t) == IF cfg.naming = "day" THEN DayOf(t) ELSE 1

-----------------------------------------------------------------------------
(* FileHandler.                                                            *)

\* Mutant: the newest is moved first, over the one before it.
rollbackNewestFirst(f, name, max) ==
  IF <<name, 0>> \notin DOMAIN f THEN f
  ELSE [x \in {<<name, 1>>} \cup (DOMAIN f \ {<<name, 0>>}) |->
          IF x = <<name, 1>> THEN f[<<name, 0>>] ELSE f[x]]

\* name.1, name.2, ... move up by one as far as there is no gap, name.max goes.
rollback(f, name, max) ==
  LET run == {k \in 0 .. max : \A j \in 0 .. k : <<name, j>> \in DOMAIN f}
      up  == {<<name, k + 1>> : k \in run \ {max}}
  IN  IF run = {} THEN f
      ELSE [x \in up \cup (DOMAIN f \ {<<name, k>> : k \in run}) |->
              IF x \in up THEN f[<<name, x[2] - 1>>] ELSE f[x]]

open(f, name) ==
  IF <<name, 0>> \in DOMAIN f THEN f
  ELSE [x \in DOMAIN f \cup {<<name, 0>>} |-> IF x \in DOMAIN f THEN f[x] ELSE <<>>]

-----------------------------------------------------------------------------
(* OpenFileDevice; s is what it changes.                                   *)

State == [writer |-> writer, files |-> files, dev |-> dev]

\* Mutant: the record itself is not counted.
LimitOutBehind(s) == cfg.limit > 0 /\ cfg.rollback > 0 /\ s.dev.cur_size > cfg.limit

LimitOut(s) == cfg.limit > 0 /\ cfg.rollback > 0 /\ s.dev.cur_size + 1 > cfg.limit

DayOut(s, t)  == cfg.roll = "daily"
                 /\ (t < s.dev.create_day \/ t >= s.dev.create_day + Day)
HourOut(s, t) == cfg.roll = "hourly"
                 /\ (t < s.dev.create_hour \/ t >= s.dev.create_hour + Hour)

CloseOut(s, t) ==
  IF LimitOut(s) \/ DayOut(s, t) \/ HourOut(s, t)
  THEN [s EXCEPT !.writer = Closed, !.dev.cur_size = 0]
  ELSE s

\* Without rollback but with a limit the old file is kept once.
Rolled(s, t, limit_out) ==
  IF (cfg.rollback > 0 \/ cfg.limit > 0) /\ (~cfg.stuff_up \/ limit_out)
  THEN rollback(s.files, MakeFileName(t), Max({cfg.rollback, 1}))
  ELSE s.files

\* Mutant: the day of the first file stays.
OpenedOldDay(s, t, f) ==
  [writer |-> MakeFileName(t), files |-> f,
   dev |-> [s.dev EXCEPT !.cur_size = Len(f[<<MakeFileName(t), 0>>]), !.last_try = 0,
              !.create_day = IF @ = 0 THEN DayBegin(t) ELSE @, !.create_hour = HourOf(t)]]

\* Mutant: a success does not clear the last attempt.
OpenedStillTrying(s, t, f) ==
  [writer |-> MakeFileName(t), files |-> f,
   dev |-> [s.dev EXCEPT !.cur_size = Len(f[<<MakeFileName(t), 0>>]),
              !.create_day = DayBegin(t), !.create_hour = HourOf(t)]]

Opened(s, t, f) ==
  [writer |-> MakeFileName(t), files |-> f,
   dev |-> [s.dev EXCEPT !.cur_size = Len(f[<<MakeFileName(t), 0>>]), !.last_try = 0,
              !.create_day = DayBegin(t), !.create_hour = HourOf(t)]]

\* The file after a record of time t came; outcome is that of making the name
\* and opening the file, if it comes to that.
OpenFileDevice(t, outcome) ==
  LET s == CloseOut(State, t)
      f == Rolled(s, t, LimitOut(State))
  IN  IF s.writer # Closed THEN s
      ELSE IF outcome = "too_long" THEN [s EXCEPT !.dev.last_try = t]
      ELSE IF outcome = "fail" THEN [s EXCEPT !.files = f, !.dev.last_try = t]
      ELSE Opened(s, t, open(f, MakeFileName(t)))

-----------------------------------------------------------------------------
Failures == Cardinality({i \in DOMAIN fate : fate[i] \in {"open_failed", "write_failed"}})

Skipped(t) == writer = Closed /\ dev.last_try + Retry > t

\* What is left of a record the disk does not take: the counters count it, the
\* file is closed.
Write(s, t, ok) ==
  LET id == Len(stamp) + 1  name == s.writer IN
  /\ dev' = [s.dev EXCEPT !.cur_size = @ + 1]
  /\ IF ok
     THEN /\ writer' = name
          /\ files' = [s.files EXCEPT ![<<name, 0>>] = Append(@, id)]
          /\ written' = [written EXCEPT ![name] = @ \cup {id}]
          /\ fate' = Append(fate, "written")
     ELSE /\ writer' = Closed /\ files' = s.files
          /\ fate' = Append(fate, "write_failed")
          /\ UNCHANGED written

EnterProcOutFileDevice(t, outcome, ok) ==
  LET s == OpenFileDevice(t, outcome) IN
  /\ Len(stamp) < MaxRecords
  /\ outcome # "ok" \/ ~ok => Failures < MaxFailures
  /\ stamp' = Append(stamp, t)
  /\ IF Skipped(t)
     THEN fate' = Append(fate, "skipped") /\ UNCHANGED <<writer, files, dev, written>>
     ELSE IF s.writer = Closed
     THEN /\ writer' = s.writer /\ files' = s.files /\ dev' = s.dev
          /\ fate' = Append(fate, "open_failed")
          /\ UNCHANGED written
     ELSE Write(s, t, ok)
  /\ UNCHANGED <<cfg, restarts>>

\* StopLogger closes the file; StartLogger begins with fields that are zero, or,
\* in shared memory, with the old ones.
Restart ==
  /\ restarts < MaxRestarts /\ restarts' = restarts + 1
  /\ writer' = Closed
  /\ dev' \in {dev, [x \in DOMAIN dev |-> 0]}
  /\ UNCHANGED <<cfg, files, stamp, fate, written>>

Init ==
  /\ cfg \in Configs
  /\ writer = Closed /\ restarts = 0
  /\ files = [x \in {} |-> <<>>]
  /\ dev = [cur_size |-> 0, create_day |-> 0, create_hour |-> 0, last_try |-> 0]
  /\ stamp = <<>> /\ fate = <<>> /\ written = [d \in Days |-> {}]

Record ==
  \E t \in Times, outcome \in {"ok", "fail", "too_long"}, ok \in BOOLEAN :
    /\ stamp # <<>> => t + Disorder >= Last(stamp)
    /\ EnterProcOutFileDevice(t, outcome, ok)

Next == Record \/ Restart

Spec == Init /\ [][Next]_vars

-----------------------------------------------------------------------------
(* Properties.                                                             *)

Depth == Max({cfg.rollback, 1})

\* Rolling loses the oldest records only: the files of a name hold the newest of the
\* records written to it, in their order, the log the latest, name.1 those before, and
\* so on, and none is missing as long as there is no oldest file; whatever restarts,
\* failed opens and retries come between the rolls.
Kept(f, name) == UNION {Range(f[x]) : x \in {y \in DOMAIN f : y[1] = name}}

RollingKeepsNewest ==
  /\ \A x \in DOMAIN files : \A i, j \in DOMAIN files[x] : i < j => files[x][i] < files[x][j]
  /\ \A x, y \in DOMAIN files :
       x[1] = y[1] /\ x[2] < y[2] => \A q \in Range(files[x]), r \in Range(files[y]) : r < q
  /\ \A name \in Days :
       /\ Kept(files, name) \subseteq written[name]
       /\ \A r \in Kept(files, name), q \in written[name] : r < q => q \in Kept(files, name)
       /\ <<name, Depth>> \notin DOMAIN files => written[name] \subseteq Kept(files, name)

\* The size that decides about rolling is that of the open file, and no file
\* outgrows the limit.  With stuff_up a file that is opened again is appended to
\* before its size is looked at: each restart, failed write and return to the
\* file of the day before may add a record to a full file.
OpenedAgain == restarts + Failures
               + Cardinality({i \in 2 .. Len(stamp) : DayOf(stamp[i]) < DayOf(stamp[i - 1])})

SizeLimit ==
  /\ writer # Closed => dev.cur_size = Len(files[<<writer, 0>>])
  /\ cfg.limit > 0 /\ cfg.rollback > 0 =>
       \A x \in DOMAIN files :
         Len(files[x]) <= cfg.limit + IF cfg.stuff_up THEN OpenedAgain ELSE 0

\* With rolldaily and the day in its name, a file holds the records of its day,
\* except that the first hours after a short day go to the day before.
FileOfTheDay ==
  cfg.roll = "daily" /\ cfg.naming = "day" =>
    \A x \in DOMAIN files, i \in 1 .. MaxRecords :
      i \in DOMAIN files[x] =>
        LET t == stamp[files[x][i]] IN
        DayOf(t) = x[1] \/ (DayOf(t) > x[1] /\ t < DayStart[x[1]] + Day)

\* A file is not closed and rolled before its time: as long as the size is not
\* reached, a record of the same day (the same hour) as the one before goes to
\* the open file.  Days that are not of 24 hours, and the day behind a short one,
\* are left out: there create_day + 24 * 3600 is not where the day ends.
SamePeriod(a, b) ==
  CASE cfg.roll = "hourly" -> HourOf(a) = HourOf(b)
    [] cfg.roll = "daily"  -> /\ DayOf(a) = DayOf(b) /\ DayLength(DayOf(a)) = Day
                              /\ DayOf(a) > 1 => DayLength(DayOf(a) - 1) >= Day
    [] OTHER -> TRUE

NoEarlyRoll ==
  [][stamp' # stamp /\ writer # Closed /\ ~LimitOut(State) /\ SamePeriod(Last(stamp), Last(stamp'))
     => DOMAIN files' = DOMAIN files /\ writer' \in {writer, Closed}]_vars

\* A record is passed over only while the last attempt to open is a failure less
\* than the retry time old: after a success nothing is.
SkippedWithCause ==
  \A i \in DOMAIN fate : fate[i] = "skipped" =>
    \E f \in 1 .. i - 1 :
      /\ fate[f] = "open_failed" /\ stamp[i] < stamp[f] + Retry
      /\ \A j \in f + 1 .. i - 1 : fate[j] = "skipped"
=============================================================================
