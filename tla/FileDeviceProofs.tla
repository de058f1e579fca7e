--------------------------- MODULE FileDeviceProofs ---------------------------
(***************************************************************************)
(* Proofs about FileDevice, for any configurations, calendar, times and    *)
(* bounds: the pause after a failed open, which file a record may lie in,  *)
(* that no file is closed before its time, and, in the second half, what   *)
(* rolling loses and how large files grow.                                 *)
(***************************************************************************)
EXTENDS FileDevice, SequenceTheorems, FiniteSetTheorems, WellFoundedInduction, TLAPS

Fates == {"written", "write_failed", "skipped", "open_failed"}
Fields == {"cur_size", "create_day", "create_hour", "last_try"}

TypeOK ==
  /\ cfg \in Configs /\ Fields \subseteq DOMAIN dev
  /\ stamp \in Seq(Times) /\ fate \in Seq(Fates) /\ Len(stamp) = Len(fate)

\* The record f is the failed attempt the device waits after.
Waits(f) ==
  /\ fate[f] = "open_failed" /\ stamp[f] = dev.last_try
  /\ \A j \in f + 1 .. Len(fate) : fate[j] = "skipped"

\* last_try_timestamp_ is zero, or that of an attempt which failed and was followed
\* by nothing but skipped records; while a file is open it is zero.
LastTry ==
  /\ writer # Closed => dev.last_try = 0
  /\ dev.last_try = 0 \/ \E f \in 1 .. Len(fate) : Waits(f)

\* A record of time t may lie in a file named by day d.
Fits(d, t) == DayOf(t) = d \/ (DayOf(t) > d /\ t < DayStart[d] + Day)

\* The files hold records that came, with the timestamps st, those of a day under its name.
FilesFit(f, st) ==
  /\ DOMAIN f \subseteq Days \X Nat
  /\ \A x \in DOMAIN f :
       /\ f[x] \in Seq(1 .. Len(st))
       /\ cfg.roll = "daily" /\ cfg.naming = "day" =>
            \A i \in 1 .. Len(f[x]) : Fits(x[1], st[f[x][i]])

\* The fields d tell the period the file of name w was opened in, and t is in the
\* period that begins there, or in the one it was opened in.
InPeriod(w, d, t) ==
  /\ cfg.roll = "daily" =>
       \E e \in Days : /\ d.create_day = DayStart[e] /\ DayStart[e] <= t
                       /\ e = DayOf(t) \/ t < DayStart[e] + Day
                       /\ cfg.naming = "day" => e = w
  /\ cfg.roll = "hourly" =>
       \E h \in Nat : d.create_hour = h * Hour /\ h * Hour <= t /\ t < h * Hour + Hour

\* The open file of s, the last record being of time t.
OpenFile(s, t) ==
  s.writer # Closed => s.writer \in Days /\ <<s.writer, 0>> \in DOMAIN s.files
                       /\ InPeriod(s.writer, s.dev, t)

Inv == /\ TypeOK /\ LastTry /\ SkippedWithCause /\ FilesFit(files, stamp)
       /\ writer # Closed => stamp # <<>> /\ OpenFile(State, Last(stamp))

-----------------------------------------------------------------------------
(* The calendar.                                                           *)

LEMMA SmallestExists ==
  ASSUME NEW T \in SUBSET Nat, T # {}
  PROVE  \E x \in T : \A y \in T : x <= y
<1>1. PICK x \in T : \A y \in T : <<y, x>> \notin OpToRel(<, Nat)
  BY NatLessThanWellFounded, WFMin
<1>2. \A y \in T : ~(y < x)
  BY <1>1 DEF OpToRel
<1>3. \A y \in T : y \in Nat /\ x \in Nat
  OBVIOUS
<1>4. \A y \in T : x <= y
  BY <1>2, <1>3
<1> QED  BY <1>4

LEMMA LargestExists ==
  ASSUME NEW n \in Nat, NEW S \in SUBSET (0 .. n), S # {}
  PROVE  \E x \in S : \A y \in S : y <= x
<1> DEFINE T == {n - x : x \in S}
<1>1. \A x \in S : x \in Nat /\ n - x \in Nat
  OBVIOUS
<1>2. T \in SUBSET Nat /\ T # {}
  BY <1>1
<1>3. PICK m \in T : \A y \in T : m <= y
  <2> HIDE DEF T
  <2> QED  BY <1>2, SmallestExists
<1>4. PICK x \in S : m = n - x
  OBVIOUS
<1>5. \A y \in S : n - x <= n - y
  BY <1>3, <1>4
<1>6. \A y \in S : y <= x
  BY <1>1, <1>5
<1> QED  BY <1>6

LEMMA CalendarTypes ==
  /\ DOMAIN DayStart = 1 .. Len(DayStart)
  /\ Len(DayStart) \in Nat /\ Len(DayStart) - 1 \in Nat /\ 1 \in Days
  /\ \A d \in Days : d \in Nat /\ d + 1 \in DOMAIN DayStart /\ DayStart[d] \in Nat
                     /\ DayStart[d + 1] \in Nat
  /\ \A c, d \in DOMAIN DayStart : c < d => DayStart[c] < DayStart[d]
  /\ \A t \in Times : t \in Nat /\ Retry <= t /\ DayStart[1] <= t /\ t < DayStart[Len(DayStart)]
<1>1. DayStart \in Seq(Nat) /\ Len(DayStart) > 1 /\ DOMAIN DayStart = 1 .. Len(DayStart)
  BY FileDeviceAssumption
<1>2. Len(DayStart) \in Nat  BY <1>1
<1>3. DayStart[1] \in Nat /\ DayStart[Len(DayStart)] \in Nat  BY <1>1, <1>2
<1> QED  BY <1>1, <1>2, <1>3, FileDeviceAssumption DEF Days, Times

\* The day of a time is the last one that has begun.
LEMMA DayOfIsLast ==
  ASSUME NEW t \in Times
  PROVE  /\ DayOf(t) \in Days /\ DayStart[DayOf(t)] <= t /\ t < DayStart[DayOf(t) + 1]
         /\ \A d \in Days : DayStart[d] <= t => d <= DayOf(t)
<1> DEFINE S == {d \in Days : DayStart[d] <= t}
<1>1. S \in SUBSET (0 .. Len(DayStart) - 1) /\ S # {}  BY CalendarTypes DEF Days
<1>2. \E x \in S : \A y \in S : y <= x
  <2> HIDE DEF S
  <2> QED  BY <1>1, LargestExists, CalendarTypes
<1>3. \E x \in S : \A y \in S : x >= y  BY <1>1, <1>2
<1>4. DayOf(t) \in S /\ \A y \in S : DayOf(t) >= y
  <2>1. DayOf(t) = CHOOSE x \in S : \A y \in S : x >= y  BY DEF DayOf, Max
  <2> HIDE DEF S
  <2> QED  BY <1>3, <2>1
<1>5. \A d \in Days : DayStart[d] <= t => d <= DayOf(t)  BY <1>4, CalendarTypes
<1>6. t < DayStart[DayOf(t) + 1]
  <2>1. CASE DayOf(t) + 1 \in Days
    <3>1. DayOf(t) \in Nat /\ t \in Nat /\ DayStart[DayOf(t) + 1] \in Nat
      BY <1>4, <2>1, CalendarTypes
    <3>2. DayStart[DayOf(t) + 1] <= t => DayOf(t) + 1 <= DayOf(t)  BY <1>5, <2>1
    <3> QED  BY <3>1, <3>2
  <2>2. CASE DayOf(t) + 1 \notin Days
    <3>1. DayOf(t) + 1 = Len(DayStart)  BY <1>4, <2>2, CalendarTypes DEF Days
    <3> QED  BY <3>1, CalendarTypes
  <2> QED  BY <2>1, <2>2
<1> QED  BY <1>4, <1>5, <1>6

LEMMA HourIsUnique ==
  ASSUME NEW t \in Nat
  PROVE  /\ \E h \in Nat : HourOf(t) = h * Hour /\ h * Hour <= t /\ t < h * Hour + Hour
         /\ \A h \in Nat : h * Hour <= t /\ t < h * Hour + Hour => HourOf(t) = h * Hour
<1>1. Hour \in Nat \ {0}  BY FileDeviceAssumption
<1> DEFINE q == t \div Hour
<1>2. q \in Nat /\ q * Hour <= t /\ t < q * Hour + Hour  BY <1>1
<1>3. ASSUME NEW h \in Nat, h * Hour <= t, t < h * Hour + Hour
      PROVE  h = q
  <2> HIDE DEF q
  <2>1. \A a, b \in Nat : a < b => a * Hour + Hour <= b * Hour
    <3> TAKE a, b \in Nat
    <3> HAVE a < b
    <3>1. PICK k \in Nat : b = a + 1 + k
      <4>1. b - a - 1 \in Nat /\ b = a + 1 + (b - a - 1)  OBVIOUS
      <4> QED  BY <4>1
    <3>2. b * Hour = a * Hour + Hour + k * Hour  BY <1>1, <3>1
    <3>3. k * Hour \in Nat /\ a * Hour \in Nat  BY <1>1
    <3> QED  BY <1>1, <3>2, <3>3
  <2>2. ~(h < q) /\ ~(q < h)
    <3>1. h * Hour \in Nat /\ q * Hour \in Nat  BY <1>1, <1>2
    <3> QED  BY <1>1, <1>2, <1>3, <2>1, <3>1
  <2> QED  BY <1>2, <2>2
<1> QED  BY <1>2, <1>3 DEF HourOf
-----------------------------------------------------------------------------
(* The files.                                                              *)

LEMMA ConfigTypes ==
  ASSUME TypeOK
  PROVE  /\ cfg.limit \in Nat /\ cfg.rollback \in Nat /\ Max({cfg.rollback, 1}) \in Nat \ {0}
         /\ cfg.roll \in {"none", "daily", "hourly"} /\ cfg.naming \in {"fixed", "day"}
<1>1. cfg \in [limit : Nat, rollback : Nat, roll : {"none", "daily", "hourly"},
               stuff_up : BOOLEAN, naming : {"fixed", "day"}]
  BY FileDeviceAssumption DEF TypeOK
<1>2. cfg.rollback \in Nat  BY <1>1
<1>3. \E x \in {cfg.rollback, 1} : \A y \in {cfg.rollback, 1} : x >= y  BY <1>2
<1>4. Max({cfg.rollback, 1}) \in {cfg.rollback, 1}  BY <1>3 DEF Max
<1>5. Max({cfg.rollback, 1}) # 0
  <2>1. \A y \in {cfg.rollback, 1} : Max({cfg.rollback, 1}) >= y  BY <1>3 DEF Max
  <2> QED  BY <2>1
<1> QED  BY <1>1, <1>2, <1>4, <1>5

LEMMA NameIsDay ==
  ASSUME TypeOK, NEW t \in Times
  PROVE  MakeFileName(t) \in Days /\ (cfg.naming = "day" => MakeFileName(t) = DayOf(t))
BY DayOfIsLast, CalendarTypes DEF MakeFileName

\* Rolling renames: every file was one of the same name, with its records.
LEMMA RollbackMoves ==
  ASSUME NEW f, DOMAIN f \subseteq Days \X Nat, NEW name \in Days, NEW max \in Nat
  PROVE  LET r == rollback(f, name, max) IN
         /\ DOMAIN r \subseteq Days \X Nat
         /\ \A x \in DOMAIN r : \E y \in DOMAIN f : y[1] = x[1] /\ r[x] = f[y]
<1> DEFINE run == {k \in 0 .. max : \A j \in 0 .. k : <<name, j>> \in DOMAIN f}
           up  == {<<name, k + 1>> : k \in run \ {max}}
           r   == rollback(f, name, max)
<1>1. CASE run = {}
  <2>1. r = f  BY <1>1 DEF rollback
  <2> QED  BY <2>1
<1>2. CASE run # {}
  <2>1. r = [x \in up \cup (DOMAIN f \ {<<name, k>> : k \in run}) |->
               IF x \in up THEN f[<<name, x[2] - 1>>] ELSE f[x]]
    BY <1>2 DEF rollback
  <2>2. \A k \in run : k \in Nat /\ <<name, k>> \in DOMAIN f  OBVIOUS
  <2>3. \A x \in up : x \in Days \X Nat /\ x[1] = name /\ <<name, x[2] - 1>> \in DOMAIN f
    BY <2>2
  <2> HIDE DEF run, up, r
  <2>4. DOMAIN r \subseteq up \cup DOMAIN f  BY <2>1
  <2>5. ASSUME NEW x \in DOMAIN r
        PROVE  \E y \in DOMAIN f : y[1] = x[1] /\ r[x] = f[y]
    <3>1. CASE x \in up
      <4>1. r[x] = f[<<name, x[2] - 1>>]  BY <2>1, <2>5, <3>1
      <4> QED  BY <2>3, <3>1, <4>1
    <3>2. CASE x \notin up
      <4>1. x \in DOMAIN f /\ r[x] = f[x]  BY <2>1, <2>4, <2>5, <3>2
      <4> QED  BY <4>1
    <3> QED  BY <3>1, <3>2
  <2> QED  BY <2>3, <2>4, <2>5 DEF r
<1> QED  BY <1>1, <1>2

LEMMA RolledFits ==
  ASSUME NEW f, NEW st, FilesFit(f, st), NEW name \in Days, NEW max \in Nat
  PROVE  FilesFit(rollback(f, name, max), st)
<1> DEFINE r == rollback(f, name, max)
<1>1. DOMAIN f \subseteq Days \X Nat  BY DEF FilesFit
<1>2. /\ DOMAIN r \subseteq Days \X Nat
      /\ \A x \in DOMAIN r : \E y \in DOMAIN f : y[1] = x[1] /\ r[x] = f[y]
  BY <1>1, RollbackMoves
<1> HIDE DEF r
<1>3. FilesFit(r, st)  BY <1>2 DEF FilesFit
<1> QED  BY <1>3 DEF r

LEMMA OpenFits ==
  ASSUME NEW f, NEW st, FilesFit(f, st), NEW name \in Days
  PROVE  FilesFit(open(f, name), st) /\ <<name, 0>> \in DOMAIN open(f, name)
<1>1. CASE <<name, 0>> \in DOMAIN f  BY <1>1 DEF open
<1>2. CASE <<name, 0>> \notin DOMAIN f
  <2> DEFINE g == [x \in DOMAIN f \cup {<<name, 0>>} |-> IF x \in DOMAIN f THEN f[x] ELSE <<>>]
  <2>1. open(f, name) = g  BY <1>2 DEF open
  <2>2. DOMAIN g = DOMAIN f \cup {<<name, 0>>} /\ g[<<name, 0>>] = <<>>
        /\ \A x \in DOMAIN f : g[x] = f[x]
    BY <1>2
  <2> HIDE DEF g
  <2>3. <<name, 0>> \in Days \X Nat  OBVIOUS
  <2>4. <<>> \in Seq(1 .. Len(st)) /\ 1 .. Len(<<>>) = {}  OBVIOUS
  <2>5. FilesFit(g, st)  BY <2>2, <2>3, <2>4 DEF FilesFit
  <2> QED  BY <2>1, <2>2, <2>5
<1> QED  BY <1>1, <1>2

\* A record in the period the fields tell fits the file they are about.
LEMMA PeriodFits ==
  ASSUME NEW t \in Times, NEW w \in Days, NEW d, InPeriod(w, d, t),
         cfg.roll = "daily", cfg.naming = "day"
  PROVE  Fits(w, t)
<1>1. DayStart[w] <= t /\ (w = DayOf(t) \/ t < DayStart[w] + Day)  BY DEF InPeriod
<1>2. w <= DayOf(t)  BY <1>1, DayOfIsLast
<1>3. w \in Nat /\ DayOf(t) \in Nat  BY DayOfIsLast, CalendarTypes
<1> QED  BY <1>1, <1>2, <1>3 DEF Fits

\* What OpenFileDevice leaves: files with the same records, and, if one is open, a
\* file of the period of t.
LEMMA OpenPeriod ==
  ASSUME Inv, NEW t \in Times, NEW outcome
  PROVE  LET s == OpenFileDevice(t, outcome) IN
         FilesFit(s.files, stamp) /\ OpenFile(s, t) /\ Fields \subseteq DOMAIN s.dev
<1> DEFINE d == CloseOut(State, t)
           f == Rolled(d, t, LimitOut(State))
           s == OpenFileDevice(t, outcome)
<1>1. /\ d.files = files /\ Fields \subseteq DOMAIN d.dev
      /\ d.writer # Closed => d = State /\ ~DayOut(State, t) /\ ~HourOut(State, t)
  BY DEF Inv, TypeOK, CloseOut, State
<1>2. FilesFit(f, stamp)
  <2>1. f = files \/ f = rollback(files, MakeFileName(t), Max({cfg.rollback, 1}))
    BY <1>1 DEF Rolled
  <2> QED  BY <2>1, ConfigTypes, NameIsDay, RolledFits DEF Inv
<1>3. t \in Nat /\ DayOf(t) \in Days /\ DayStart[DayOf(t)] <= t
  BY CalendarTypes, DayOfIsLast
<1>4. CASE d.writer # Closed
  <2>1. s = State /\ ~DayOut(State, t) /\ ~HourOut(State, t) /\ writer # Closed
    BY <1>1, <1>4 DEF OpenFileDevice, State
  <2>2. OpenFile(State, Last(stamp))  BY <2>1 DEF Inv
  <2>3. writer \in Days /\ <<writer, 0>> \in DOMAIN files /\ InPeriod(writer, dev, Last(stamp))
    BY <2>1, <2>2 DEF OpenFile, State
  <2>4. ASSUME cfg.roll = "daily"
        PROVE  \E e \in Days : /\ dev.create_day = DayStart[e] /\ DayStart[e] <= t
                               /\ e = DayOf(t) \/ t < DayStart[e] + Day
                               /\ cfg.naming = "day" => e = writer
    <3>1. PICK e \in Days : dev.create_day = DayStart[e] /\ (cfg.naming = "day" => e = writer)
      BY <2>3, <2>4 DEF InPeriod
    <3>2. DayStart[e] \in Nat /\ Day \in Nat  BY CalendarTypes, FileDeviceAssumption
    <3>3. ~(t < DayStart[e]) /\ ~(t >= DayStart[e] + Day)
      BY <2>1, <2>4, <3>1 DEF DayOut, State
    <3> QED  BY <1>3, <3>1, <3>2, <3>3
  <2>5. ASSUME cfg.roll = "hourly"
        PROVE  \E h \in Nat : dev.create_hour = h * Hour /\ h * Hour <= t /\ t < h * Hour + Hour
    <3>1. PICK h \in Nat : dev.create_hour = h * Hour  BY <2>3, <2>5 DEF InPeriod
    <3>2. h * Hour \in Nat /\ Hour \in Nat  BY FileDeviceAssumption
    <3>3. ~(t < h * Hour) /\ ~(t >= h * Hour + Hour)
      BY <2>1, <2>5, <3>1 DEF HourOut, State
    <3> QED  BY <1>3, <3>1, <3>2, <3>3
  <2>6. InPeriod(writer, dev, t)  BY <2>4, <2>5 DEF InPeriod
  <2> QED  BY <2>1, <2>3, <2>6 DEF OpenFile, State, Inv, TypeOK
<1>5. CASE d.writer = Closed /\ outcome \in {"too_long", "fail"}
  <2>1. s = [d EXCEPT !.dev.last_try = t] \/ s = [d EXCEPT !.files = f, !.dev.last_try = t]
    BY <1>5 DEF OpenFileDevice
  <2>2. /\ s.writer = Closed /\ s.files \in {files, f} /\ Fields \subseteq DOMAIN s.dev
    BY <1>1, <1>5, <2>1 DEF CloseOut, State
  <2> QED  BY <1>2, <2>2 DEF OpenFile, Inv
<1>6. CASE d.writer = Closed /\ outcome \notin {"too_long", "fail"}
  <2> DEFINE name == MakeFileName(t)
             g    == open(f, name)
  <2>1. s = Opened(d, t, g)  BY <1>6 DEF OpenFileDevice
  <2>2. name \in Days /\ (cfg.naming = "day" => name = DayOf(t))  BY NameIsDay DEF Inv
  <2>3. FilesFit(g, stamp) /\ <<name, 0>> \in DOMAIN g
    <3> HIDE DEF name, f
    <3> QED  BY <1>2, <2>2, OpenFits
  <2> HIDE DEF name, g, f, d, s
  <2>4. /\ s.writer = name /\ s.files = g
        /\ s.dev = [d.dev EXCEPT !.cur_size = Len(g[<<name, 0>>]), !.last_try = 0,
                                 !.create_day = DayBegin(t), !.create_hour = HourOf(t)]
    BY <2>1 DEF Opened, name
  <2>5. /\ DOMAIN s.dev = DOMAIN d.dev
        /\ s.dev.create_day = DayBegin(t) /\ s.dev.create_hour = HourOf(t)
    BY <1>1, <2>4 DEF Fields
  <2>6. InPeriod(name, s.dev, t)
    <3>1. \E h \in Nat : HourOf(t) = h * Hour /\ h * Hour <= t /\ t < h * Hour + Hour
      BY <1>3, HourIsUnique
    <3> QED  BY <1>3, <2>2, <2>5, <3>1 DEF InPeriod, DayBegin
  <2> QED  BY <1>1, <2>2, <2>3, <2>4, <2>5, <2>6 DEF OpenFile, s
<1> QED  BY <1>4, <1>5, <1>6

\* The files of before, with one more record seen.
LEMMA FitsStill ==
  ASSUME NEW f, NEW st \in Seq(Times), NEW t \in Times, FilesFit(f, st)
  PROVE  FilesFit(f, Append(st, t))
<1> DEFINE z == Append(st, t)
<1>1. Len(z) = Len(st) + 1 /\ Len(st) \in Nat /\ \A i \in 1 .. Len(st) : z[i] = st[i]
  BY AppendProperties, LenProperties
<1> HIDE DEF z
<1>2. 1 .. Len(st) \subseteq 1 .. Len(z)  BY <1>1
<1>3. ASSUME NEW x \in DOMAIN f
      PROVE  /\ f[x] \in Seq(1 .. Len(z))
             /\ cfg.roll = "daily" /\ cfg.naming = "day" =>
                  \A i \in 1 .. Len(f[x]) : Fits(x[1], z[f[x][i]])
  <2>1. f[x] \in Seq(1 .. Len(st))  BY DEF FilesFit
  <2>2. \A i \in 1 .. Len(f[x]) : f[x][i] \in 1 .. Len(st)  BY <2>1
  <2>3. f[x] \in Seq(1 .. Len(z))
    <3> DEFINE c == f[x]
               S == 1 .. Len(z)
    <3>1. c = [i \in 1 .. Len(c) |-> c[i]] /\ Len(c) \in Nat  BY <2>1
    <3>2. \A i \in 1 .. Len(c) : c[i] \in S  BY <1>2, <2>2
    <3> HIDE DEF c, S
    <3>3. c \in Seq(S)  BY <3>1, <3>2
    <3> QED  BY <3>3 DEF c, S
  <2>4. \A i \in 1 .. Len(f[x]) : z[f[x][i]] = st[f[x][i]]  BY <1>1, <2>2
  <2> QED  BY <2>3, <2>4 DEF FilesFit
<1>4. FilesFit(f, z)  BY <1>3 DEF FilesFit
<1> QED  BY <1>4 DEF z

\* A record appended to a file it fits.
LEMMA FitsWritten ==
  ASSUME NEW f, NEW st \in Seq(Times), NEW t \in Times, FilesFit(f, st),
         NEW w \in Days, <<w, 0>> \in DOMAIN f,
         cfg.roll = "daily" /\ cfg.naming = "day" => Fits(w, t)
  PROVE  FilesFit([f EXCEPT ![<<w, 0>>] = Append(@, Len(st) + 1)], Append(st, t))
<1> DEFINE z == Append(st, t)
           n == Len(st) + 1
           c == f[<<w, 0>>]
           g == [f EXCEPT ![<<w, 0>>] = Append(@, n)]
<1>1. Len(z) = n /\ Len(st) \in Nat /\ z[n] = t /\ n \in 1 .. Len(z)
  BY AppendProperties, LenProperties
<1>2. FilesFit(f, z)  BY FitsStill
<1>3. DOMAIN g = DOMAIN f /\ g[<<w, 0>>] = Append(c, n)
      /\ \A x \in DOMAIN f : x # <<w, 0>> => g[x] = f[x]
  OBVIOUS
<1>4. c \in Seq(1 .. Len(z))  BY <1>2 DEF FilesFit
<1> HIDE DEF z, n, g, c
<1>5. /\ Append(c, n) \in Seq(1 .. Len(z)) /\ Len(Append(c, n)) = Len(c) + 1
      /\ Len(c) \in Nat /\ Append(c, n)[Len(c) + 1] = n
      /\ \A i \in 1 .. Len(c) : Append(c, n)[i] = c[i]
  BY <1>1, <1>4, AppendProperties, LenProperties
<1>6. ASSUME cfg.roll = "daily", cfg.naming = "day", NEW i \in 1 .. Len(Append(c, n))
      PROVE  Fits(w, z[Append(c, n)[i]])
  <2>1. CASE i = Len(c) + 1  BY <1>1, <1>5, <1>6, <2>1
  <2>2. CASE i # Len(c) + 1
    <3>1. i \in 1 .. Len(c)  BY <1>5, <1>6, <2>2
    <3>2. Fits(w, z[c[i]])  BY <1>2, <1>6, <3>1 DEF FilesFit, c
    <3> QED  BY <1>5, <3>1, <3>2
  <2> QED  BY <2>1, <2>2
<1>7. ASSUME NEW x \in DOMAIN g
      PROVE  /\ g[x] \in Seq(1 .. Len(z))
             /\ cfg.roll = "daily" /\ cfg.naming = "day" =>
                  \A i \in 1 .. Len(g[x]) : Fits(x[1], z[g[x][i]])
  <2>1. CASE x = <<w, 0>>  BY <1>3, <1>5, <1>6, <2>1
  <2>2. CASE x # <<w, 0>>  BY <1>2, <1>3, <1>7, <2>2 DEF FilesFit
  <2> QED  BY <2>1, <2>2
<1>8. DOMAIN g \subseteq Days \X Nat  BY <1>2, <1>3 DEF FilesFit
<1>9. FilesFit(g, z)  BY <1>7, <1>8 DEF FilesFit
<1> QED  BY <1>9 DEF g, z, n

\* The files, and the open one, after a record.
LEMMA RecordFiles ==
  ASSUME Inv, NEW t \in Times, NEW outcome, NEW ok \in BOOLEAN,
         EnterProcOutFileDevice(t, outcome, ok)
  PROVE  /\ FilesFit(files', Append(stamp, t)) /\ Fields \subseteq DOMAIN dev'
         /\ OpenFile([writer |-> writer', files |-> files', dev |-> dev'], t)
<1> DEFINE s == OpenFileDevice(t, outcome)
           u == [writer |-> writer', files |-> files', dev |-> dev']
<1>1. FilesFit(s.files, stamp) /\ OpenFile(s, t) /\ Fields \subseteq DOMAIN s.dev
  BY OpenPeriod
<1> HIDE DEF s
<1>2. stamp \in Seq(Times)  BY DEF Inv, TypeOK
<1>3. CASE Skipped(t)
  <2>1. writer' = Closed /\ files' = files /\ dev' = dev
    BY <1>3 DEF EnterProcOutFileDevice, Skipped
  <2> QED  BY <1>2, <2>1, FitsStill DEF Inv, TypeOK, OpenFile
<1>4. CASE ~Skipped(t) /\ s.writer = Closed
  <2>1. writer' = Closed /\ files' = s.files /\ dev' = s.dev
    BY <1>4 DEF EnterProcOutFileDevice, s
  <2> QED  BY <1>1, <1>2, <2>1, FitsStill DEF OpenFile
<1>5. CASE ~Skipped(t) /\ s.writer # Closed
  <2>1. Write(s, t, ok)  BY <1>5 DEF EnterProcOutFileDevice, s
  <2>2. dev' = [s.dev EXCEPT !.cur_size = @ + 1]  BY <2>1 DEF Write
  <2>3. /\ DOMAIN dev' = DOMAIN s.dev
        /\ dev'.create_day = s.dev.create_day /\ dev'.create_hour = s.dev.create_hour
    BY <1>1, <2>2 DEF Fields
  <2>4. /\ s.writer \in Days /\ <<s.writer, 0>> \in DOMAIN s.files
        /\ InPeriod(s.writer, s.dev, t)
    BY <1>1, <1>5 DEF OpenFile
  <2>5. CASE ok
    <3>1. /\ writer' = s.writer
          /\ files' = [s.files EXCEPT ![<<s.writer, 0>>] = Append(@, Len(stamp) + 1)]
      BY <2>1, <2>5 DEF Write
    <3>2. cfg.roll = "daily" /\ cfg.naming = "day" => Fits(s.writer, t)
      BY <2>4, PeriodFits
    <3>3. FilesFit(files', Append(stamp, t))
      BY <1>1, <1>2, <2>4, <3>1, <3>2, FitsWritten
    <3>4. DOMAIN files' = DOMAIN s.files  BY <3>1
    <3>5. InPeriod(s.writer, dev', t)  BY <2>3, <2>4 DEF InPeriod
    <3> QED  BY <1>1, <2>3, <2>4, <3>1, <3>3, <3>4, <3>5 DEF OpenFile
  <2>6. CASE ~ok
    <3>1. writer' = Closed /\ files' = s.files  BY <2>1, <2>6 DEF Write
    <3> QED  BY <1>1, <1>2, <2>3, <3>1, FitsStill DEF OpenFile
  <2> QED  BY <2>5, <2>6
<1> QED  BY <1>3, <1>4, <1>5

-----------------------------------------------------------------------------
(* The pause after a failed open.                                          *)

\* What OpenFileDevice leaves in last_try_timestamp_.
LEMMA OpenLastTry ==
  ASSUME TypeOK, LastTry, NEW t, NEW outcome
  PROVE  LET s == OpenFileDevice(t, outcome) IN
         /\ s.writer # Closed => s.dev.last_try = 0
         /\ s.writer = Closed => s.dev.last_try \in {0, t}
<1> DEFINE d == CloseOut(State, t)
           f == Rolled(d, t, LimitOut(State))
           s == OpenFileDevice(t, outcome)
<1>1. /\ Fields \subseteq DOMAIN d.dev /\ d.dev.last_try = dev.last_try
      /\ d.writer \in {writer, Closed}
      /\ d.writer # Closed => d.dev.last_try = 0
  BY DEF TypeOK, LastTry, CloseOut, State
<1>2. CASE d.writer # Closed
  <2>1. s = d  BY <1>2 DEF OpenFileDevice
  <2> QED  BY <1>1, <1>2, <2>1
<1>3. CASE d.writer = Closed /\ outcome \in {"too_long", "fail"}
  <2>1. s = [d EXCEPT !.dev.last_try = t] \/ s = [d EXCEPT !.files = f, !.dev.last_try = t]
    BY <1>3 DEF OpenFileDevice
  <2>2. /\ d.writer = s.writer /\ s.dev = [d.dev EXCEPT !.last_try = t]
    BY <2>1 DEF CloseOut, State
  <2> QED  BY <1>1, <1>3, <2>2 DEF Fields
<1>4. CASE d.writer = Closed /\ outcome \notin {"too_long", "fail"}
  <2>1. s = Opened(d, t, open(f, MakeFileName(t)))  BY <1>4 DEF OpenFileDevice
  <2> HIDE DEF d, f, s
  <2> DEFINE g == open(f, MakeFileName(t))
  <2>2. s.dev = [d.dev EXCEPT !.cur_size = Len(g[<<MakeFileName(t), 0>>]), !.last_try = 0,
                              !.create_day = DayBegin(t), !.create_hour = HourOf(t)]
    BY <2>1 DEF Opened
  <2> QED  BY <1>1, <2>2 DEF s, Fields
<1> QED  BY <1>2, <1>3, <1>4

\* Appending the fate of the next record.
LEMMA NextFate ==
  ASSUME TypeOK, NEW t \in Times, NEW x \in Fates,
         stamp' = Append(stamp, t), fate' = Append(fate, x)
  PROVE  /\ stamp' \in Seq(Times) /\ fate' \in Seq(Fates) /\ Len(stamp') = Len(fate')
         /\ Len(fate) \in Nat /\ Len(fate') = Len(fate) + 1
         /\ \A i \in 1 .. Len(fate) : fate'[i] = fate[i] /\ stamp'[i] = stamp[i]
         /\ fate'[Len(fate) + 1] = x /\ stamp'[Len(fate) + 1] = t
         /\ DOMAIN fate = 1 .. Len(fate) /\ DOMAIN fate' = 1 .. Len(fate) + 1
BY AppendProperties, LenProperties DEF TypeOK

\* A fate other than skipping asks for no cause.
LEMMA NotSkipped ==
  ASSUME TypeOK, SkippedWithCause, NEW t \in Times, NEW x \in Fates \ {"skipped"},
         stamp' = Append(stamp, t), fate' = Append(fate, x)
  PROVE  SkippedWithCause'
<1>1. ASSUME NEW i \in DOMAIN fate', fate'[i] = "skipped"
      PROVE  \E g \in 1 .. i - 1 :
               /\ fate'[g] = "open_failed" /\ stamp'[i] < stamp'[g] + Retry
               /\ \A j \in g + 1 .. i - 1 : fate'[j] = "skipped"
  <2>1. i \in DOMAIN fate /\ fate[i] = "skipped" /\ i \in 1 .. Len(fate)
    BY <1>1, NextFate
  <2>2. PICK g \in 1 .. i - 1 :
          /\ fate[g] = "open_failed" /\ stamp[i] < stamp[g] + Retry
          /\ \A j \in g + 1 .. i - 1 : fate[j] = "skipped"
    BY <2>1 DEF SkippedWithCause
  <2> QED  BY <2>1, <2>2, NextFate
<1> QED  BY <1>1 DEF SkippedWithCause

LEMMA RecordPause ==
  ASSUME Inv, NEW t \in Times, NEW outcome, NEW ok \in BOOLEAN,
         EnterProcOutFileDevice(t, outcome, ok)
  PROVE  TypeOK' /\ LastTry' /\ SkippedWithCause'
<1> DEFINE s == OpenFileDevice(t, outcome)
<1> HIDE DEF s
<1>1. stamp' = Append(stamp, t)  BY DEF EnterProcOutFileDevice
<1>2. /\ s.writer # Closed => s.dev.last_try = 0
      /\ s.writer = Closed => s.dev.last_try \in {0, t}
  BY OpenLastTry DEF Inv, s
<1>6. Fields \subseteq DOMAIN dev' /\ cfg' \in Configs
  BY RecordFiles DEF Inv, TypeOK, EnterProcOutFileDevice
<1>7. t \in Nat /\ Retry <= t /\ Retry \in Nat  BY CalendarTypes, FileDeviceAssumption
<1>3. CASE Skipped(t)
  <2>1. fate' = Append(fate, "skipped") /\ UNCHANGED <<writer, dev>>
    BY <1>3 DEF EnterProcOutFileDevice
  <2>2. "skipped" \in Fates  BY DEF Fates
  <2>3. PICK f \in 1 .. Len(fate) : Waits(f)
    BY <1>3, <1>7 DEF Inv, LastTry, Skipped
  <2>4. Waits(f)' /\ f \in 1 .. Len(fate')
    BY <1>1, <2>1, <2>2, <2>3, NextFate DEF Inv, Waits
  <2>5. LastTry'  BY <1>3, <2>1, <2>4 DEF LastTry, Skipped
  <2>6. t < stamp[f] + Retry  BY <1>3, <1>7, <2>3 DEF Inv, TypeOK, Waits, Skipped
  <2>7. ASSUME NEW i \in DOMAIN fate', fate'[i] = "skipped"
        PROVE  \E g \in 1 .. i - 1 :
                 /\ fate'[g] = "open_failed" /\ stamp'[i] < stamp'[g] + Retry
                 /\ \A j \in g + 1 .. i - 1 : fate'[j] = "skipped"
    <3>1. CASE i = Len(fate) + 1
      <4>1. f \in 1 .. i - 1  BY <1>1, <2>1, <2>2, <3>1, NextFate DEF Inv
      <4>2. fate'[f] = "open_failed" /\ stamp'[i] < stamp'[f] + Retry
        BY <1>1, <2>1, <2>2, <2>3, <2>6, <3>1, NextFate DEF Inv, Waits
      <4>3. \A j \in f + 1 .. i - 1 : fate'[j] = "skipped"
        BY <1>1, <2>1, <2>2, <2>3, <3>1, NextFate DEF Inv, Waits
      <4> QED  BY <4>1, <4>2, <4>3
    <3>2. CASE i # Len(fate) + 1
      <4>1. i \in DOMAIN fate /\ fate[i] = "skipped" /\ i \in 1 .. Len(fate)
        BY <1>1, <2>1, <2>2, <2>7, <3>2, NextFate DEF Inv
      <4>2. PICK g \in 1 .. i - 1 :
              /\ fate[g] = "open_failed" /\ stamp[i] < stamp[g] + Retry
              /\ \A j \in g + 1 .. i - 1 : fate[j] = "skipped"
        BY <4>1 DEF Inv, SkippedWithCause
      <4>3. \A j \in 1 .. Len(fate) : fate'[j] = fate[j] /\ stamp'[j] = stamp[j]
        BY <1>1, <2>1, <2>2, NextFate DEF Inv
      <4>4. Len(fate) \in Nat  BY DEF Inv, TypeOK
      <4> QED  BY <4>1, <4>2, <4>3, <4>4
    <3> QED  BY <3>1, <3>2
  <2>8. SkippedWithCause'  BY <2>7 DEF SkippedWithCause
  <2>9. TypeOK'  BY <1>1, <1>6, <2>1, <2>2, NextFate DEF Inv, TypeOK
  <2> QED  BY <2>5, <2>8, <2>9
<1>4. CASE ~Skipped(t) /\ s.writer = Closed
  <2>1. /\ fate' = Append(fate, "open_failed") /\ writer' = Closed /\ dev' = s.dev
    BY <1>4 DEF EnterProcOutFileDevice, s
  <2>2. "open_failed" \in Fates  BY DEF Fates
  <2>3. TypeOK'  BY <1>1, <1>6, <2>1, <2>2, NextFate DEF Inv, TypeOK
  <2>4. Len(fate) + 1 \in 1 .. Len(fate') /\ Len(fate') = Len(fate) + 1 /\ Len(fate) \in Nat
    BY <1>1, <2>1, <2>2, NextFate DEF Inv
  <2>5. ASSUME dev'.last_try # 0, NEW f \in {Len(fate) + 1}
        PROVE  Waits(f)'
    <3>1. dev'.last_try = t  BY <1>2, <1>4, <2>1, <2>5
    <3>2. fate'[f] = "open_failed" /\ stamp'[f] = t  BY <1>1, <2>1, <2>2, NextFate DEF Inv
    <3>3. f + 1 .. Len(fate') = {}  BY <2>4
    <3> QED  BY <3>1, <3>2, <3>3 DEF Waits
  <2>6. LastTry'
    BY <2>1, <2>4, <2>5 DEF LastTry
  <2>7. SkippedWithCause'  BY <1>1, <2>1, <2>2, NotSkipped DEF Inv
  <2> QED  BY <2>3, <2>6, <2>7
<1>5. CASE ~Skipped(t) /\ s.writer # Closed
  <2>1. Write(s, t, ok)  BY <1>5 DEF EnterProcOutFileDevice, s
  <2>2. PICK x \in {"written", "write_failed"} : fate' = Append(fate, x)  BY <2>1 DEF Write
  <2>3. dev' = [s.dev EXCEPT !.cur_size = @ + 1]  BY <2>1 DEF Write
  <2>4. dev'.last_try = 0
    <3>1. DOMAIN dev' = DOMAIN s.dev /\ "last_try" \in DOMAIN dev'  BY <1>6, <2>3 DEF Fields
    <3> QED  BY <1>2, <1>5, <2>3, <3>1
  <2>5. x \in Fates \ {"skipped"}  BY DEF Fates
  <2>6. TypeOK'  BY <1>1, <1>6, <2>2, <2>4, <2>5, NextFate DEF Inv, TypeOK
  <2>7. LastTry'  BY <2>4 DEF LastTry
  <2>8. SkippedWithCause'  BY <1>1, <2>2, <2>5, NotSkipped DEF Inv
  <2> QED  BY <2>6, <2>7, <2>8
<1> QED  BY <1>3, <1>4, <1>5

LEMMA RecordStep ==
  ASSUME Inv, NEW t \in Times, NEW outcome, NEW ok \in BOOLEAN,
         EnterProcOutFileDevice(t, outcome, ok)
  PROVE  Inv'
<1>1. stamp' = Append(stamp, t) /\ cfg' = cfg  BY DEF EnterProcOutFileDevice
<1>2. /\ FilesFit(files', Append(stamp, t))
      /\ OpenFile([writer |-> writer', files |-> files', dev |-> dev'], t)
  BY RecordFiles
<1>3. stamp' # <<>> /\ Last(stamp') = t
  BY <1>1, AppendProperties, LenProperties DEF Inv, TypeOK, Last
<1>4. FilesFit(files, stamp)'  BY <1>1, <1>2 DEF FilesFit
<1>5. OpenFile(State, Last(stamp))'
  BY <1>1, <1>2, <1>3 DEF OpenFile, State, InPeriod
<1>6. TypeOK' /\ LastTry' /\ SkippedWithCause'  BY RecordPause
<1> QED  BY <1>3, <1>4, <1>5, <1>6 DEF Inv

\* The fields survive in shared memory or start from zero; either way a file that is
\* closed by StopLogger is not a failed attempt.
LEMMA RestartStep ==
  ASSUME Inv, Restart
  PROVE  Inv'
<1>1. writer' = Closed /\ UNCHANGED <<cfg, files, stamp, fate>>  BY DEF Restart
<1>2. FilesFit(files, stamp)'  BY <1>1 DEF Inv, FilesFit
<1>3. TypeOK' /\ LastTry' /\ SkippedWithCause'
  <2>1. CASE dev' = dev
    BY <1>1, <2>1 DEF Inv, TypeOK, LastTry, Waits, SkippedWithCause
  <2>2. CASE dev' = [x \in DOMAIN dev |-> 0]
    <3>1. DOMAIN dev' = DOMAIN dev /\ dev'.last_try = 0
      BY <2>2 DEF Inv, TypeOK, Fields
    <3> QED  BY <1>1, <3>1 DEF Inv, TypeOK, LastTry, SkippedWithCause
  <2> QED  BY <2>1, <2>2 DEF Restart
<1> QED  BY <1>1, <1>2, <1>3 DEF Inv

-----------------------------------------------------------------------------
\* The file that is open is that of the period its fields tell, the files hold records
\* that fit them, and last_try_timestamp_ remembers a failed attempt only, until a file
\* is opened (OpenFileDevice, EnterProcOutFileDevice, FileHandler::rollback).
THEOREM FileDeviceInvariant == Spec => []Inv
<1>1. Init => Inv
  <2> SUFFICES ASSUME Init PROVE Inv
    OBVIOUS
  <2>1. <<>> \in Seq(Times) /\ <<>> \in Seq(Fates) /\ DOMAIN <<>> = {}  OBVIOUS
  <2>2. Fields \subseteq DOMAIN dev /\ dev.last_try = 0 /\ writer = Closed
    BY DEF Init, Fields
  <2>3. TypeOK  BY <2>1, <2>2 DEF Init, TypeOK
  <2>4. LastTry  BY <2>2 DEF LastTry
  <2>5. SkippedWithCause  BY <2>1 DEF Init, SkippedWithCause
  <2>6. FilesFit(files, stamp)
    <3>1. DOMAIN files = {}  BY DEF Init
    <3> QED  BY <3>1 DEF FilesFit
  <2> QED  BY <2>2, <2>3, <2>4, <2>5, <2>6 DEF Inv
<1>2. Inv /\ [Next]_vars => Inv'
  <2> SUFFICES ASSUME Inv, [Next]_vars PROVE Inv'
    OBVIOUS
  <2>1. CASE Record
    <3>1. PICK t \in Times, outcome \in {"ok", "fail", "too_long"}, ok \in BOOLEAN :
            EnterProcOutFileDevice(t, outcome, ok)
      BY <2>1 DEF Record
    <3> QED  BY <3>1, RecordStep
  <2>2. CASE Restart  BY <2>2, RestartStep
  <2>3. CASE UNCHANGED vars
    <3>1. UNCHANGED <<cfg, writer, files, dev, stamp, fate>>  BY <2>3 DEF vars
    <3>2. TypeOK' /\ LastTry' /\ SkippedWithCause'
      BY <3>1 DEF Inv, TypeOK, LastTry, Waits, SkippedWithCause
    <3>3. /\ FilesFit(files, stamp)'
          /\ OpenFile(State, Last(stamp))' <=> OpenFile(State, Last(stamp))
      BY <3>1 DEF Inv, FilesFit, OpenFile, InPeriod, State
    <3> QED  BY <3>1, <3>2, <3>3 DEF Inv
  <2> QED  BY <2>1, <2>2, <2>3 DEF Next
<1> QED  BY <1>1, <1>2, PTL DEF Spec

\* A record is passed over only while the last attempt to open is a failure less than
\* the retry time old (SkippedWithCause), whatever restarts, closes and write errors
\* come between.
THEOREM SkippedHasCause == Spec => []SkippedWithCause
<1>1. Inv => SkippedWithCause  BY DEF Inv
<1> QED  BY <1>1, FileDeviceInvariant, PTL

\* With rolldaily and the day in its name, a file holds records of its day, but for the
\* first hours after a short one: through rolling, restarts, failures and records that
\* come in any order (FileOfTheDay; OpenFileDevice).
THEOREM FilesKeepTheDay == Spec => []FileOfTheDay
<1>1. Inv => FileOfTheDay
  <2> SUFFICES ASSUME Inv, cfg.roll = "daily", cfg.naming = "day",
                      NEW x \in DOMAIN files, NEW i \in DOMAIN files[x]
               PROVE  Fits(x[1], stamp[files[x][i]])
    BY DEF FileOfTheDay, Fits
  <2>1. files[x] \in Seq(1 .. Len(stamp))  BY DEF Inv, FilesFit
  <2>2. i \in 1 .. Len(files[x])  BY <2>1
  <2> QED  BY <2>2 DEF Inv, FilesFit
<1> QED  BY <1>1, FileDeviceInvariant, PTL

\* A record of the period of the one before finds nothing to close.
LEMMA SamePeriodStaysOpen ==
  ASSUME Inv, writer # Closed, NEW t \in Times, NEW outcome,
         ~LimitOut(State), SamePeriod(Last(stamp), t)
  PROVE  OpenFileDevice(t, outcome) = State
<1> DEFINE u == Last(stamp)
<1>1. u \in Times /\ InPeriod(writer, dev, u)
  <2>1. stamp # <<>> /\ stamp \in Seq(Times)  BY DEF Inv, TypeOK
  <2> QED  BY <2>1, LenProperties DEF Inv, OpenFile, State, Last
<1> HIDE DEF u
<1>2. t \in Nat /\ u \in Nat  BY <1>1, CalendarTypes
<1>3. ~DayOut(State, t)
  <2> SUFFICES ASSUME cfg.roll = "daily"
               PROVE  ~(t < dev.create_day) /\ ~(t >= dev.create_day + Day)
    BY DEF DayOut, State
  <2> DEFINE d == DayOf(t)
  <2>1. DayOf(u) = d /\ DayLength(d) = Day /\ (d > 1 => DayLength(d - 1) >= Day)
    BY DEF SamePeriod, u
  <2>2. PICK e \in Days : /\ dev.create_day = DayStart[e] /\ DayStart[e] <= u
                          /\ e = DayOf(u) \/ u < DayStart[e] + Day
    BY <1>1 DEF InPeriod
  <2>3. /\ d \in Days /\ DayStart[d] <= t /\ t < DayStart[d + 1]
        /\ DayStart[d] <= u /\ e <= d
    BY <1>1, <2>1, <2>2, DayOfIsLast
  <2> HIDE DEF d
  <2>4. /\ d \in Nat /\ e \in Nat /\ Day \in Nat
        /\ DayStart[d] \in Nat /\ DayStart[d + 1] \in Nat /\ DayStart[e] \in Nat
    BY <2>3, CalendarTypes, FileDeviceAssumption
  <2>5. DayStart[d + 1] = DayStart[d] + Day  BY <2>1, <2>4 DEF DayLength
  <2>6. e = d
    <3> SUFFICES ASSUME e < d PROVE FALSE
      BY <2>3, <2>4
    <3>1. d - 1 \in Days /\ (d - 1) + 1 = d /\ d > 1 /\ e <= d - 1
      BY <2>3, <2>4 DEF Days
    <3>2. DayStart[d - 1] \in Nat /\ DayStart[d] - DayStart[d - 1] >= Day
      BY <2>1, <3>1, CalendarTypes DEF DayLength
    <3>3. DayStart[e] <= DayStart[d - 1]
      <4>1. e \in DOMAIN DayStart /\ d - 1 \in DOMAIN DayStart
        BY <3>1, CalendarTypes DEF Days
      <4>2. e < d - 1 => DayStart[e] < DayStart[d - 1]  BY <4>1, FileDeviceAssumption
      <4> QED  BY <2>4, <3>1, <3>2, <4>2
    <3>4. u < DayStart[e] + Day  BY <2>1, <2>2, <2>4
    <3> QED  BY <1>2, <2>3, <2>4, <3>2, <3>3, <3>4
  <2> QED  BY <1>2, <2>2, <2>3, <2>4, <2>5, <2>6
<1>4. ~HourOut(State, t)
  <2> SUFFICES ASSUME cfg.roll = "hourly"
               PROVE  ~(t < dev.create_hour) /\ ~(t >= dev.create_hour + Hour)
    BY DEF HourOut, State
  <2>1. PICK h \in Nat : dev.create_hour = h * Hour /\ h * Hour <= u /\ u < h * Hour + Hour
    BY <1>1 DEF InPeriod
  <2>2. dev.create_hour = HourOf(u)  BY <1>2, <2>1, HourIsUnique
  <2>3. HourOf(u) = HourOf(t)  BY DEF SamePeriod, u
  <2>4. PICK g \in Nat : HourOf(t) = g * Hour /\ g * Hour <= t /\ t < g * Hour + Hour
    BY <1>2, HourIsUnique
  <2>5. g * Hour \in Nat /\ Hour \in Nat  BY FileDeviceAssumption
  <2> QED  BY <1>2, <2>2, <2>3, <2>4, <2>5
<1>5. CloseOut(State, t) = State  BY <1>3, <1>4 DEF CloseOut
<1> QED  BY <1>5 DEF OpenFileDevice, State

\* While the size allows it, a record of the same day or hour as the one before goes to
\* the file that is open: none is rolled, closed or opened (NoEarlyRoll; OpenFileDevice).
THEOREM RollsInTime == Spec => NoEarlyRoll
<1>1. ASSUME Inv, [Next]_vars, stamp' # stamp, writer # Closed, ~LimitOut(State),
             SamePeriod(Last(stamp), Last(stamp'))
      PROVE  DOMAIN files' = DOMAIN files /\ writer' \in {writer, Closed}
  <2>1. Record  BY <1>1 DEF Next, Restart, vars
  <2>2. PICK t \in Times, outcome \in {"ok", "fail", "too_long"}, ok \in BOOLEAN :
          EnterProcOutFileDevice(t, outcome, ok)
    BY <2>1 DEF Record
  <2>3. stamp' = Append(stamp, t)  BY <2>2 DEF EnterProcOutFileDevice
  <2>4. Last(stamp') = t
    BY <1>1, <2>3, AppendProperties, LenProperties DEF Inv, TypeOK, Last
  <2>5. OpenFileDevice(t, outcome) = State  BY <1>1, <2>4, SamePeriodStaysOpen
  <2>6. Write(State, t, ok)
    BY <1>1, <2>2, <2>5 DEF EnterProcOutFileDevice, Skipped, State
  <2> QED  BY <2>6 DEF Write, State
<1>2. Inv /\ [Next]_vars
        => [stamp' # stamp /\ writer # Closed /\ ~LimitOut(State)
              /\ SamePeriod(Last(stamp), Last(stamp'))
            => DOMAIN files' = DOMAIN files /\ writer' \in {writer, Closed}]_vars
  BY <1>1
<1> QED  BY <1>2, FileDeviceInvariant, PTL DEF Spec, NoEarlyRoll

-----------------------------------------------------------------------------
(* What OpenFileDevice does.                                               *)

\* The files the next one is opened among.
RolledIf(rolled, name) == IF rolled THEN rollback(files, name, Depth) ELSE files

\* The open file is kept; or a new one is opened, behind a roll unless the records are
\* to be stuffed and there is room; or none is open, behind a roll or not.
LEMMA OpenOutcomes ==
  ASSUME TypeOK, NEW t, NEW outcome
  PROVE  LET s == OpenFileDevice(t, outcome)  name == MakeFileName(t) IN
         \/ s = State /\ writer # Closed /\ ~LimitOut(State)
         \/ s.writer = Closed /\ \E rolled \in BOOLEAN : s.files = RolledIf(rolled, name)
         \/ \E rolled \in BOOLEAN :
              /\ s.writer = name /\ s.files = open(RolledIf(rolled, name), name)
              /\ Fields \subseteq DOMAIN s.dev
              /\ s.dev.cur_size = Len(s.files[<<name, 0>>])
              /\ cfg.limit > 0 /\ cfg.rollback > 0 /\ ~rolled
                   => cfg.stuff_up /\ ~LimitOut(State)
<1> DEFINE name == MakeFileName(t)
           d == CloseOut(State, t)
           f == Rolled(d, t, LimitOut(State))
           s == OpenFileDevice(t, outcome)
<1>1. /\ d.files = files /\ Fields \subseteq DOMAIN d.dev
      /\ d.writer # Closed => d = State /\ ~LimitOut(State)
  BY DEF TypeOK, CloseOut, State
<1>2. \E rolled \in BOOLEAN :
        /\ f = RolledIf(rolled, name)
        /\ cfg.limit > 0 /\ cfg.rollback > 0 /\ ~rolled => cfg.stuff_up /\ ~LimitOut(State)
  <2>1. CASE (cfg.rollback > 0 \/ cfg.limit > 0) /\ (~cfg.stuff_up \/ LimitOut(State))
    <3>1. f = RolledIf(TRUE, name)  BY <1>1, <2>1 DEF Rolled, RolledIf, Depth
    <3> QED  BY <3>1
  <2>2. CASE ~((cfg.rollback > 0 \/ cfg.limit > 0) /\ (~cfg.stuff_up \/ LimitOut(State)))
    <3>1. f = RolledIf(FALSE, name)  BY <1>1, <2>2 DEF Rolled, RolledIf
    <3> QED  BY <2>2, <3>1
  <2> QED  BY <2>1, <2>2
<1>3. CASE d.writer # Closed
  <2>1. s = State /\ writer # Closed /\ ~LimitOut(State)
    BY <1>1, <1>3 DEF OpenFileDevice, State
  <2> QED  BY <2>1
<1>4. CASE d.writer = Closed /\ outcome \in {"too_long", "fail"}
  <2>1. s = [d EXCEPT !.dev.last_try = t] \/ s = [d EXCEPT !.files = f, !.dev.last_try = t]
    BY <1>4 DEF OpenFileDevice
  <2>2. s.writer = Closed /\ (s.files = files \/ s.files = f)
    BY <1>1, <1>4, <2>1 DEF CloseOut, State
  <2>3. files = RolledIf(FALSE, name)  BY DEF RolledIf
  <2> HIDE DEF name, f, s
  <2>4. \E rolled \in BOOLEAN : s.files = RolledIf(rolled, name)  BY <1>2, <2>2, <2>3
  <2> QED  BY <2>2, <2>4 DEF s, name
<1>5. CASE d.writer = Closed /\ outcome \notin {"too_long", "fail"}
  <2> DEFINE g == open(f, name)
  <2>1. s = Opened(d, t, g)  BY <1>5 DEF OpenFileDevice
  <2>2. PICK rolled \in BOOLEAN :
          /\ f = RolledIf(rolled, name)
          /\ cfg.limit > 0 /\ cfg.rollback > 0 /\ ~rolled => cfg.stuff_up /\ ~LimitOut(State)
    <3> HIDE DEF name, f
    <3> QED  BY <1>2
  <2> HIDE DEF name, g, f, d, s
  <2>3. /\ s.writer = name /\ s.files = g
        /\ s.dev = [d.dev EXCEPT !.cur_size = Len(g[<<name, 0>>]), !.last_try = 0,
                                 !.create_day = DayBegin(t), !.create_hour = HourOf(t)]
    BY <2>1 DEF Opened, name
  <2>4. DOMAIN s.dev = DOMAIN d.dev /\ s.dev.cur_size = Len(g[<<name, 0>>])
    BY <1>1, <2>3 DEF Fields
  <2>5. g = open(RolledIf(rolled, name), name)  BY <2>2 DEF g
  <2>6. /\ s.writer = name /\ s.files = open(RolledIf(rolled, name), name)
        /\ Fields \subseteq DOMAIN s.dev /\ s.dev.cur_size = Len(s.files[<<name, 0>>])
    BY <1>1, <2>3, <2>4, <2>5
  <2> QED  BY <2>2, <2>6 DEF s, name
<1> QED  BY <1>3, <1>4, <1>5

\* What a record does to files, size and writer: it is skipped, or finds no file, or is
\* written to the one that OpenFileDevice leaves open, or not.
LEMMA RecordOutcomes ==
  ASSUME Inv, NEW t \in Times, NEW outcome, NEW ok \in BOOLEAN,
         EnterProcOutFileDevice(t, outcome, ok)
  PROVE  LET s == OpenFileDevice(t, outcome)  id == Len(stamp) + 1 IN
         /\ stamp' = Append(stamp, t) /\ cfg' = cfg /\ restarts' = restarts
         /\ \/ /\ writer = Closed /\ UNCHANGED <<writer, files, dev, written>>
               /\ fate' = Append(fate, "skipped")
            \/ /\ s.writer = Closed /\ writer' = Closed /\ files' = s.files
               /\ fate' = Append(fate, "open_failed") /\ UNCHANGED written
            \/ /\ s.writer # Closed /\ writer' = s.writer
               /\ files' = [s.files EXCEPT ![<<s.writer, 0>>] = Append(@, id)]
               /\ written' = [written EXCEPT ![s.writer] = @ \cup {id}]
               /\ dev'.cur_size = s.dev.cur_size + 1
               /\ fate' = Append(fate, "written")
            \/ /\ s.writer # Closed /\ writer' = Closed /\ files' = s.files
               /\ fate' = Append(fate, "write_failed") /\ UNCHANGED written
<1> DEFINE s == OpenFileDevice(t, outcome)
<1>1. Fields \subseteq DOMAIN s.dev  BY OpenPeriod
<1> HIDE DEF s
<1>2. stamp' = Append(stamp, t) /\ cfg' = cfg /\ restarts' = restarts
  BY DEF EnterProcOutFileDevice
<1>3. CASE Skipped(t)
  <2>1. /\ writer = Closed /\ UNCHANGED <<writer, files, dev, written>>
        /\ fate' = Append(fate, "skipped")
    BY <1>3 DEF EnterProcOutFileDevice, Skipped
  <2> QED  BY <1>2, <2>1
<1>4. CASE ~Skipped(t) /\ s.writer = Closed
  <2>1. /\ writer' = Closed /\ files' = s.files
        /\ fate' = Append(fate, "open_failed") /\ UNCHANGED written
    BY <1>4 DEF EnterProcOutFileDevice, s
  <2> QED  BY <1>2, <1>4, <2>1 DEF s
<1>5. CASE ~Skipped(t) /\ s.writer # Closed
  <2>1. Write(s, t, ok)  BY <1>5 DEF EnterProcOutFileDevice, s
  <2>2. dev' = [s.dev EXCEPT !.cur_size = @ + 1]  BY <2>1 DEF Write
  <2>3. dev'.cur_size = s.dev.cur_size + 1  BY <1>1, <2>2 DEF Fields
  <2>4. CASE ok
    <3>1. /\ writer' = s.writer
          /\ files' = [s.files EXCEPT ![<<s.writer, 0>>] = Append(@, Len(stamp) + 1)]
          /\ written' = [written EXCEPT ![s.writer] = @ \cup {Len(stamp) + 1}]
          /\ fate' = Append(fate, "written")
      BY <2>1, <2>4 DEF Write
    <3> QED  BY <1>2, <1>5, <2>3, <3>1 DEF s
  <2>5. CASE ~ok
    <3>1. /\ writer' = Closed /\ files' = s.files
          /\ fate' = Append(fate, "write_failed") /\ UNCHANGED written
      BY <2>1, <2>5 DEF Write
    <3> QED  BY <1>2, <1>5, <3>1 DEF s
  <2> QED  BY <2>4, <2>5
<1> QED  BY <1>3, <1>4, <1>5

-----------------------------------------------------------------------------
(* How large files grow.                                                   *)

\* A file that may be opened again by a record of the day n or a later one, without
\* anything being counted by OpenedAgain.
Reopenable(x, w, n) == x[2] = 0 /\ (x[1] > n \/ (x[1] = n /\ x[1] # w))

\* With the file named w open, a last record for the name n and over times that a full
\* file could be opened: the sizes of the files f.
SizesFit(f, w, n, over) ==
  cfg.limit > 0 /\ cfg.rollback > 0 =>
    \A x \in DOMAIN f :
      /\ Len(f[x]) <= cfg.limit + IF cfg.stuff_up THEN over ELSE 0
      /\ cfg.stuff_up /\ Reopenable(x, w, n) => Len(f[x]) + 1 <= cfg.limit + over

LastName == IF stamp = <<>> THEN 1 ELSE MakeFileName(Last(stamp))

SizeInv ==
  /\ SizesFit(files, writer, LastName, OpenedAgain)
  /\ writer # Closed => dev.cur_size = Len(files[<<writer, 0>>])
  /\ writer # Closed /\ writer > LastName => OpenedAgain >= 1

LEMMA CardinalityGrows ==
  ASSUME NEW T, IsFiniteSet(T), NEW S \in SUBSET T
  PROVE  /\ Cardinality(S) \in Nat /\ Cardinality(T) \in Nat
         /\ Cardinality(S) <= Cardinality(T)
         /\ S # T => Cardinality(S) + 1 <= Cardinality(T)
<1>1. IsFiniteSet(S) /\ Cardinality(S) <= Cardinality(T)
      /\ (Cardinality(S) = Cardinality(T) => T = S)
  BY FS_Subset
<1>2. Cardinality(S) \in Nat /\ Cardinality(T) \in Nat  BY <1>1, FS_CardinalityType
<1> QED  BY <1>1, <1>2

\* OpenedAgain counts failures, restarts and returns to an earlier day.
LEMMA OverType ==
  ASSUME TypeOK, restarts \in Nat
  PROVE  OpenedAgain \in Nat
<1> DEFINE F == {i \in DOMAIN fate : fate[i] \in {"open_failed", "write_failed"}}
           R == {i \in 2 .. Len(stamp) : DayOf(stamp[i]) < DayOf(stamp[i - 1])}
<1>1. IsFiniteSet(1 .. Len(stamp)) /\ IsFiniteSet(2 .. Len(stamp))
      /\ DOMAIN fate = 1 .. Len(stamp) /\ Len(stamp) \in Nat
  BY FS_Interval DEF TypeOK
<1>2. Cardinality(F) \in Nat  BY <1>1, CardinalityGrows
<1>3. Cardinality(R) \in Nat  BY <1>1, CardinalityGrows
<1> QED  BY <1>2, <1>3 DEF OpenedAgain, Failures

LEMMA OverGrows ==
  ASSUME TypeOK, restarts \in Nat, NEW t \in Times, NEW v \in Fates, restarts' = restarts,
         stamp' = Append(stamp, t), fate' = Append(fate, v)
  PROVE  /\ OpenedAgain \in Nat /\ OpenedAgain' \in Nat /\ OpenedAgain <= OpenedAgain'
         /\ v \in {"open_failed", "write_failed"} => OpenedAgain + 1 <= OpenedAgain'
         /\ stamp # <<>> /\ DayOf(t) < DayOf(Last(stamp)) => OpenedAgain + 1 <= OpenedAgain'
<1> DEFINE n == Len(stamp)
           bad == {"open_failed", "write_failed"}
           F == {i \in DOMAIN fate : fate[i] \in bad}
           G == {i \in DOMAIN fate' : fate'[i] \in bad}
           R == {i \in 2 .. n : DayOf(stamp[i]) < DayOf(stamp[i - 1])}
           Q == {i \in 2 .. Len(stamp') : DayOf(stamp'[i]) < DayOf(stamp'[i - 1])}
<1>1. /\ n \in Nat /\ Len(stamp') = n + 1 /\ DOMAIN fate = 1 .. n /\ DOMAIN fate' = 1 .. n + 1
      /\ \A i \in 1 .. n : fate'[i] = fate[i] /\ stamp'[i] = stamp[i]
      /\ fate'[n + 1] = v /\ stamp'[n + 1] = t
  BY NextFate DEF TypeOK
<1>2. IsFiniteSet(1 .. n + 1) /\ IsFiniteSet(2 .. n + 1)  BY <1>1, FS_Interval
<1>3. F \subseteq G /\ G \subseteq 1 .. n + 1 /\ (v \in bad => n + 1 \in G /\ n + 1 \notin F)
  BY <1>1
<1>4. R \subseteq Q /\ Q \subseteq 2 .. n + 1 /\ n + 1 \notin R
      /\ (n # 0 /\ DayOf(t) < DayOf(stamp[n]) => n + 1 \in Q)
  <2>1. \A i \in 2 .. n : i \in 1 .. n /\ i - 1 \in 1 .. n  BY <1>1
  <2>2. \A i \in 2 .. n : DayOf(stamp'[i]) = DayOf(stamp[i])
                          /\ DayOf(stamp'[i - 1]) = DayOf(stamp[i - 1])
    BY <1>1, <2>1
  <2>3. n # 0 => DayOf(stamp'[n + 1]) = DayOf(t) /\ DayOf(stamp'[(n + 1) - 1]) = DayOf(stamp[n])
    <3>1. n # 0 => n \in 1 .. n /\ (n + 1) - 1 = n  BY <1>1
    <3> QED  BY <1>1, <3>1
  <2>4. R \subseteq Q  BY <1>1, <2>2
  <2>5. n # 0 /\ DayOf(t) < DayOf(stamp[n]) => n + 1 \in Q
    <3>1. n # 0 => n + 1 \in 2 .. Len(stamp')  BY <1>1
    <3> QED  BY <2>3, <3>1
  <2> QED  BY <1>1, <2>4, <2>5
<1>5. /\ OpenedAgain = restarts + Cardinality(F) + Cardinality(R)
      /\ OpenedAgain' = restarts + Cardinality(G) + Cardinality(Q)
  BY DEF OpenedAgain, Failures
<1>6. stamp # <<>> => n # 0 /\ Last(stamp) = stamp[n]
  BY LenProperties DEF TypeOK, Last
<1> HIDE DEF F, G, R, Q, bad, n
<1>7. IsFiniteSet(G) /\ IsFiniteSet(Q)  BY <1>2, <1>3, <1>4, FS_Subset
<1>8. /\ Cardinality(F) \in Nat /\ Cardinality(G) \in Nat /\ Cardinality(F) <= Cardinality(G)
      /\ F # G => Cardinality(F) + 1 <= Cardinality(G)
  BY <1>3, <1>7, CardinalityGrows
<1>9. /\ Cardinality(R) \in Nat /\ Cardinality(Q) \in Nat /\ Cardinality(R) <= Cardinality(Q)
      /\ R # Q => Cardinality(R) + 1 <= Cardinality(Q)
  BY <1>4, <1>7, CardinalityGrows
<1>10. v \in bad => F # G  BY <1>3
<1>11. n # 0 /\ DayOf(t) < DayOf(stamp[n]) => R # Q  BY <1>4
<1>12. /\ OpenedAgain \in Nat /\ OpenedAgain' \in Nat /\ OpenedAgain <= OpenedAgain'
       /\ F # G \/ R # Q => OpenedAgain + 1 <= OpenedAgain'
  <2>1. PICK f \in Nat, g \in Nat, r \in Nat, q \in Nat :
          f = Cardinality(F) /\ g = Cardinality(G) /\ r = Cardinality(R) /\ q = Cardinality(Q)
    BY <1>8, <1>9
  <2>2. /\ OpenedAgain = restarts + f + r /\ OpenedAgain' = restarts + g + q
        /\ f <= g /\ r <= q /\ (F # G => f + 1 <= g) /\ (R # Q => r + 1 <= q)
    BY <1>5, <1>8, <1>9, <2>1
  <2> QED  BY <2>2
<1>13. stamp # <<>> /\ DayOf(t) < DayOf(Last(stamp)) => R # Q
  <2> SUFFICES ASSUME stamp # <<>>, DayOf(t) < DayOf(Last(stamp)) PROVE R # Q
    OBVIOUS
  <2>1. DayOf(t) < DayOf(stamp[n]) /\ n # 0  BY <1>6
  <2> QED  BY <1>11, <2>1
<1> QED  BY <1>10, <1>12, <1>13 DEF bad

\* The name of the next record's file, against that of the last.
LEMMA NameGrows ==
  ASSUME TypeOK, restarts \in Nat, NEW t \in Times, NEW v \in Fates, restarts' = restarts,
         stamp' = Append(stamp, t), fate' = Append(fate, v), cfg' = cfg
  PROVE  /\ LastName \in Nat /\ LastName' = MakeFileName(t) /\ MakeFileName(t) \in Days
         /\ OpenedAgain \in Nat /\ OpenedAgain' \in Nat /\ OpenedAgain <= OpenedAgain'
         /\ v \in {"open_failed", "write_failed"} \/ MakeFileName(t) < LastName
              => OpenedAgain + 1 <= OpenedAgain'
<1>1. stamp # <<>> => Last(stamp) \in Times
  BY LenProperties DEF TypeOK, Last
<1>2. MakeFileName(t) \in Days /\ (stamp # <<>> => MakeFileName(Last(stamp)) \in Days)
  BY <1>1, NameIsDay
<1>3. MakeFileName(t) \in Nat /\ LastName \in Nat /\ 1 <= MakeFileName(t)
  BY <1>2 DEF LastName, Days
<1>4. stamp' # <<>> /\ Last(stamp') = t
  BY AppendProperties, LenProperties DEF TypeOK, Last
<1>5. LastName' = MakeFileName(t)
  <2>1. (MakeFileName(Last(stamp)))' = MakeFileName(t)  BY <1>4 DEF MakeFileName
  <2> QED  BY <1>4, <2>1 DEF LastName
<1>6. MakeFileName(t) < LastName => stamp # <<>> /\ DayOf(t) < DayOf(Last(stamp))
  BY <1>3, ConfigTypes DEF LastName, MakeFileName
<1> QED  BY <1>2, <1>3, <1>5, <1>6, OverGrows

\* Rolling takes the log away and leaves other names alone.
LEMMA RollbackOthers ==
  ASSUME NEW f, DOMAIN f \subseteq Days \X Nat, NEW name \in Days, NEW max \in Nat
  PROVE  LET r == rollback(f, name, max) IN
         /\ <<name, 0>> \notin DOMAIN r
         /\ \A x \in DOMAIN r : x[1] # name => x \in DOMAIN f /\ r[x] = f[x]
<1> DEFINE run == {k \in 0 .. max : \A j \in 0 .. k : <<name, j>> \in DOMAIN f}
           up  == {<<name, k + 1>> : k \in run \ {max}}
           r   == rollback(f, name, max)
<1>1. CASE run = {}
  <2>1. r = f  BY <1>1 DEF rollback
  <2>2. 0 .. 0 = {0} /\ 0 \in 0 .. max  OBVIOUS
  <2>3. <<name, 0>> \notin DOMAIN f
    <3> SUFFICES ASSUME <<name, 0>> \in DOMAIN f PROVE 0 \in run
      BY <1>1
    <3> QED  BY <2>2
  <2> QED  BY <2>1, <2>3
<1>2. CASE run # {}
  <2>1. r = [x \in up \cup (DOMAIN f \ {<<name, k>> : k \in run}) |->
               IF x \in up THEN f[<<name, x[2] - 1>>] ELSE f[x]]
    BY <1>2 DEF rollback
  <2>2. 0 \in run
    <3>1. PICK k \in run : TRUE  BY <1>2
    <3>2. 0 \in 0 .. k /\ 0 \in 0 .. max /\ \A j \in 0 .. 0 : j \in 0 .. k  BY <3>1
    <3> QED  BY <3>1, <3>2
  <2>3. \A x \in up : x[1] = name /\ x # <<name, 0>>
    <3>1. \A k \in run : k \in Nat /\ k + 1 # 0  OBVIOUS
    <3> QED  BY <3>1
  <2> HIDE DEF run, up, r
  <2>4. DOMAIN r = up \cup (DOMAIN f \ {<<name, k>> : k \in run})  BY <2>1
  <2>5. <<name, 0>> \notin DOMAIN r  BY <2>2, <2>3, <2>4
  <2>6. \A x \in DOMAIN r : x[1] # name => x \in DOMAIN f /\ r[x] = f[x]
    BY <2>1, <2>3, <2>4
  <2> QED  BY <2>5, <2>6 DEF r
<1> QED  BY <1>1, <1>2

\* The files among which the one of a name was opened.
LEMMA OpenedFiles ==
  ASSUME Inv, NEW name \in Days, NEW rolled \in BOOLEAN
  PROVE  LET g == open(RolledIf(rolled, name), name) IN
         /\ \A x \in DOMAIN g : g[x] = <<>> \/ \E y \in DOMAIN files : g[x] = files[y]
         /\ \A x \in DOMAIN g : x[1] # name => x \in DOMAIN files /\ g[x] = files[x]
         /\ <<name, 0>> \in DOMAIN g
         /\ \/ g[<<name, 0>>] = <<>>
            \/ /\ ~rolled /\ <<name, 0>> \in DOMAIN files
               /\ g[<<name, 0>>] = files[<<name, 0>>]
<1> DEFINE f == RolledIf(rolled, name)
           g == open(f, name)
<1>1. DOMAIN files \subseteq Days \X Nat /\ Depth \in Nat
  BY ConfigTypes DEF Inv, FilesFit, Depth
<1>2. /\ \A x \in DOMAIN f : \E y \in DOMAIN files : f[x] = files[y]
      /\ \A x \in DOMAIN f : x[1] # name => x \in DOMAIN files /\ f[x] = files[x]
      /\ rolled => <<name, 0>> \notin DOMAIN f
      /\ ~rolled => f = files
  <2>1. CASE rolled
    <3>1. f = rollback(files, name, Depth)  BY <2>1 DEF RolledIf
    <3> HIDE DEF f
    <3> QED  BY <1>1, <2>1, <3>1, RollbackMoves, RollbackOthers
  <2>2. CASE ~rolled  BY <2>2 DEF RolledIf
  <2> QED  BY <2>1, <2>2
<1> HIDE DEF f
<1>3. CASE <<name, 0>> \in DOMAIN f
  <2>1. g = f  BY <1>3 DEF open
  <2> HIDE DEF g
  <2> QED  BY <1>2, <1>3, <2>1 DEF g, f
<1>4. CASE <<name, 0>> \notin DOMAIN f
  <2>1. g = [x \in DOMAIN f \cup {<<name, 0>>} |-> IF x \in DOMAIN f THEN f[x] ELSE <<>>]
    BY <1>4 DEF open
  <2> HIDE DEF g
  <2>2. DOMAIN g = DOMAIN f \cup {<<name, 0>>} /\ g[<<name, 0>>] = <<>>
        /\ \A x \in DOMAIN f : g[x] = f[x]
    BY <1>4, <2>1
  <2> QED  BY <1>2, <2>2 DEF g, f
<1> QED  BY <1>3, <1>4

\* What is in the domain of the files of a device.
LEMMA FileTypes ==
  ASSUME NEW f, NEW st, FilesFit(f, st), NEW x \in DOMAIN f
  PROVE  /\ x \in Days \X Nat /\ x[1] \in Days /\ x[1] \in Nat /\ x[2] \in Nat
         /\ x = <<x[1], x[2]>> /\ f[x] \in Seq(1 .. Len(st)) /\ Len(f[x]) \in Nat
BY CalendarTypes, LenProperties DEF FilesFit

\* A later record, no file touched.
LEMMA SizesLater ==
  ASSUME TypeOK, NEW f, NEW st, FilesFit(f, st), NEW w, NEW n \in Nat, NEW m \in Nat,
         NEW o \in Nat, NEW p \in Nat, SizesFit(f, w, n, o), o <= p, m < n => o + 1 <= p
  PROVE  SizesFit(f, w, m, p)
<1> SUFFICES ASSUME cfg.limit > 0, cfg.rollback > 0, NEW x \in DOMAIN f
             PROVE  /\ Len(f[x]) <= cfg.limit + IF cfg.stuff_up THEN p ELSE 0
                    /\ cfg.stuff_up /\ Reopenable(x, w, m) => Len(f[x]) + 1 <= cfg.limit + p
  BY DEF SizesFit
<1>1. x[1] \in Nat /\ Len(f[x]) \in Nat /\ cfg.limit \in Nat  BY FileTypes, ConfigTypes
<1>2. /\ Len(f[x]) <= cfg.limit + IF cfg.stuff_up THEN o ELSE 0
      /\ cfg.stuff_up /\ Reopenable(x, w, n) => Len(f[x]) + 1 <= cfg.limit + o
  BY DEF SizesFit
<1>3. ASSUME cfg.stuff_up, Reopenable(x, w, m)
      PROVE  Len(f[x]) + 1 <= cfg.limit + p
  <2>1. CASE m < n  BY <1>1, <1>2, <1>3, <2>1
  <2>2. CASE ~(m < n)
    <3>1. Reopenable(x, w, n)  BY <1>1, <1>3, <2>2 DEF Reopenable
    <3> QED  BY <1>1, <1>2, <1>3, <3>1
  <2> QED  BY <2>1, <2>2
<1> QED  BY <1>1, <1>2, <1>3

\* After a failure or a restart every file may be a record larger.
LEMMA SizesFailed ==
  ASSUME TypeOK, NEW f, NEW st, FilesFit(f, st), NEW g, NEW w, NEW n, NEW v, NEW m,
         \A x \in DOMAIN g : g[x] = <<>> \/ \E y \in DOMAIN f : g[x] = f[y],
         NEW o \in Nat, NEW p \in Nat, SizesFit(f, w, n, o), o + 1 <= p
  PROVE  SizesFit(g, v, m, p)
<1> SUFFICES ASSUME cfg.limit > 0, cfg.rollback > 0, NEW x \in DOMAIN g
             PROVE  /\ Len(g[x]) <= cfg.limit + IF cfg.stuff_up THEN p ELSE 0
                    /\ cfg.stuff_up => Len(g[x]) + 1 <= cfg.limit + p
  BY DEF SizesFit
<1>1. cfg.limit \in Nat  BY ConfigTypes
<1>2. CASE g[x] = <<>>
  <2>1. Len(g[x]) = 0  BY <1>2
  <2> QED  BY <1>1, <2>1
<1>3. CASE \E y \in DOMAIN f : g[x] = f[y]
  <2>1. PICK y \in DOMAIN f : g[x] = f[y]  BY <1>3
  <2>2. Len(f[y]) \in Nat  BY FileTypes
  <2>3. Len(f[y]) <= cfg.limit + IF cfg.stuff_up THEN o ELSE 0  BY DEF SizesFit
  <2> QED  BY <1>1, <2>1, <2>2, <2>3
<1> QED  BY <1>2, <1>3

\* Len of a file that takes a record, and of the others.
LEMMA LenWritten ==
  ASSUME NEW f, NEW st, FilesFit(f, st), NEW w, <<w, 0>> \in DOMAIN f, NEW id \in Nat
  PROVE  LET g == [f EXCEPT ![<<w, 0>>] = Append(@, id)] IN
         /\ DOMAIN g = DOMAIN f /\ Len(g[<<w, 0>>]) = Len(f[<<w, 0>>]) + 1
         /\ Len(f[<<w, 0>>]) \in Nat
         /\ \A x \in DOMAIN f : x # <<w, 0>> => g[x] = f[x]
<1> DEFINE c == f[<<w, 0>>]
           g == [f EXCEPT ![<<w, 0>>] = Append(@, id)]
<1>1. c \in Seq(1 .. Len(st))  BY DEF FilesFit
<1>2. DOMAIN g = DOMAIN f /\ g[<<w, 0>>] = Append(c, id)
      /\ \A x \in DOMAIN f : x # <<w, 0>> => g[x] = f[x]
  OBVIOUS
<1> HIDE DEF c, g
<1>3. c \in Seq(Nat)
  <2>1. \A i \in 1 .. Len(c) : c[i] \in Nat  BY <1>1
  <2>2. c = [i \in 1 .. Len(c) |-> c[i]] /\ Len(c) \in Nat  BY <1>1
  <2> QED  BY <2>1, <2>2
<1>4. Len(Append(c, id)) = Len(c) + 1 /\ Len(c) \in Nat
  BY <1>3, AppendProperties, LenProperties
<1> QED  BY <1>2, <1>4 DEF c, g

\* The step of the sizes with one record.
LEMMA RecordSizes ==
  ASSUME Inv, restarts \in Nat, SizeInv, NEW t \in Times, NEW outcome, NEW ok \in BOOLEAN,
         EnterProcOutFileDevice(t, outcome, ok)
  PROVE  SizeInv'
<1> DEFINE s == OpenFileDevice(t, outcome)
           m == MakeFileName(t)
           n == LastName
           o == OpenedAgain
           p == OpenedAgain'
           id == Len(stamp) + 1
<1>1. TypeOK /\ FilesFit(files, stamp) /\ SizesFit(files, writer, n, o)
  BY DEF Inv, SizeInv
<1>2. stamp' = Append(stamp, t) /\ cfg' = cfg /\ restarts' = restarts
  BY RecordOutcomes
<1>3. PICK v \in Fates : fate' = Append(fate, v)
  BY RecordOutcomes DEF Fates
<1>4. /\ n \in Nat /\ LastName' = m /\ m \in Days /\ m \in Nat /\ m # Closed
      /\ o \in Nat /\ p \in Nat /\ o <= p
      /\ v \in {"open_failed", "write_failed"} \/ m < n => o + 1 <= p
  BY <1>1, <1>2, <1>3, NameGrows, CalendarTypes DEF Days, Closed
<1>5. \A k : \A j : fate' = Append(fate, k) /\ k \in {"open_failed", "write_failed"}
                      => o + 1 <= p
  <2> SUFFICES ASSUME NEW k \in {"open_failed", "write_failed"}, fate' = Append(fate, k)
               PROVE  k = v
    BY <1>4
  <2>1. fate \in Seq(Fates) /\ k \in Fates  BY <1>1 DEF TypeOK, Fates
  <2>2. Append(fate, k)[Len(fate) + 1] = k /\ Append(fate, v)[Len(fate) + 1] = v
    BY <2>1, AppendProperties
  <2> QED  BY <1>3, <2>2
<1>6. id \in Nat  BY LenProperties, <1>1 DEF TypeOK
<1>7. cfg.limit \in Nat  BY <1>1, ConfigTypes
<1>18. \/ writer = Closed /\ UNCHANGED <<writer, files, dev, written>>
       \/ /\ s.writer = Closed /\ writer' = Closed /\ files' = s.files
          /\ fate' = Append(fate, "open_failed")
       \/ /\ s.writer # Closed /\ writer' = s.writer
          /\ files' = [s.files EXCEPT ![<<s.writer, 0>>] = Append(@, id)]
          /\ dev'.cur_size = s.dev.cur_size + 1
       \/ /\ s.writer # Closed /\ writer' = Closed /\ files' = s.files
          /\ fate' = Append(fate, "write_failed")
  <2> HIDE DEF s, id
  <2>1. /\ stamp' = Append(stamp, t) /\ cfg' = cfg /\ restarts' = restarts
        /\ \/ /\ writer = Closed /\ UNCHANGED <<writer, files, dev, written>>
              /\ fate' = Append(fate, "skipped")
           \/ /\ s.writer = Closed /\ writer' = Closed /\ files' = s.files
              /\ fate' = Append(fate, "open_failed") /\ UNCHANGED written
           \/ /\ s.writer # Closed /\ writer' = s.writer
              /\ files' = [s.files EXCEPT ![<<s.writer, 0>>] = Append(@, id)]
              /\ written' = [written EXCEPT ![s.writer] = @ \cup {id}]
              /\ dev'.cur_size = s.dev.cur_size + 1
              /\ fate' = Append(fate, "written")
           \/ /\ s.writer # Closed /\ writer' = Closed /\ files' = s.files
              /\ fate' = Append(fate, "write_failed") /\ UNCHANGED written
    BY RecordOutcomes, Zenon DEF s, id
  <2> QED  BY <2>1
<1> HIDE DEF s, m, n, o, p, id
<1>8. ASSUME SizesFit(files', writer', m, p),
             writer' # Closed => dev'.cur_size = Len(files'[<<writer', 0>>]),
             writer' # Closed /\ writer' > m => p >= 1
      PROVE  SizeInv'
  <2>1. SizesFit(files, writer, LastName, OpenedAgain)'
    BY <1>2, <1>4, <1>8 DEF SizesFit, p
  <2> QED  BY <1>4, <1>8, <2>1 DEF SizeInv, p
<1>9. CASE writer = Closed /\ UNCHANGED <<writer, files, dev, written>>
  <2>1. SizesFit(files, writer, m, p)  BY <1>1, <1>4, SizesLater
  <2> QED  BY <1>8, <1>9, <2>1
<1>10. ASSUME s.writer = Closed, writer' = Closed, files' = s.files, o + 1 <= p
       PROVE  SizeInv'
  <2>1. PICK rolled \in BOOLEAN : s.files = RolledIf(rolled, m)
    <3>1. m # Closed /\ (writer # Closed => State.writer # Closed)  BY <1>4 DEF State
    <3> QED  BY <1>1, <1>10, <3>1, OpenOutcomes DEF s, m
  <2>2. \A x \in DOMAIN s.files :
          s.files[x] = <<>> \/ \E y \in DOMAIN files : s.files[x] = files[y]
    <3>1. CASE rolled
      <4>1. s.files = rollback(files, m, Depth)  BY <2>1, <3>1 DEF RolledIf
      <4>2. DOMAIN files \subseteq Days \X Nat /\ Depth \in Nat
        BY <1>1, ConfigTypes DEF FilesFit, Depth
      <4> QED  BY <1>4, <4>1, <4>2, RollbackMoves
    <3>2. CASE ~rolled  BY <2>1, <3>2 DEF RolledIf
    <3> QED  BY <3>1, <3>2
  <2>3. SizesFit(s.files, Closed, m, p)
    BY <1>1, <1>4, <1>10, <2>2, SizesFailed
  <2> QED  BY <1>8, <1>10, <2>3
<1>11. ASSUME s.writer # Closed
       PROVE  \/ s = State /\ writer # Closed /\ ~LimitOut(State)
              \/ \E rolled \in BOOLEAN :
                   /\ s.writer = m /\ s.files = open(RolledIf(rolled, m), m)
                   /\ s.dev.cur_size = Len(s.files[<<m, 0>>])
                   /\ cfg.limit > 0 /\ cfg.rollback > 0 /\ ~rolled
                        => cfg.stuff_up /\ ~LimitOut(State)
  BY <1>1, <1>11, OpenOutcomes DEF s, m
<1>12. ASSUME s.writer # Closed, writer' = Closed, files' = s.files, o + 1 <= p
       PROVE  SizeInv'
  <2>1. \A x \in DOMAIN s.files :
          s.files[x] = <<>> \/ \E y \in DOMAIN files : s.files[x] = files[y]
    <3>1. CASE s = State  BY <3>1 DEF State
    <3>2. CASE s # State
      <4>1. PICK rolled \in BOOLEAN : s.files = open(RolledIf(rolled, m), m)
        BY <1>11, <1>12, <3>2
      <4> DEFINE g == open(RolledIf(rolled, m), m)
      <4>2. \A x \in DOMAIN g : g[x] = <<>> \/ \E y \in DOMAIN files : g[x] = files[y]
        BY <1>4, OpenedFiles
      <4> HIDE DEF g
      <4>3. s.files = g  BY <4>1 DEF g
      <4> QED  BY <4>2, <4>3
    <3> QED  BY <3>1, <3>2
  <2>2. SizesFit(s.files, Closed, m, p)
    BY <1>1, <1>4, <1>12, <2>1, SizesFailed
  <2> QED  BY <1>8, <1>12, <2>2
<1>13. ASSUME s = State, writer # Closed, ~LimitOut(State), writer' = writer,
              files' = [files EXCEPT ![<<writer, 0>>] = Append(@, id)],
              dev'.cur_size = dev.cur_size + 1
       PROVE  SizeInv'
  <2>1. writer \in Days /\ writer \in Nat /\ <<writer, 0>> \in DOMAIN files
    BY <1>13, CalendarTypes DEF Inv, OpenFile, State
  <2>2. /\ DOMAIN files' = DOMAIN files
        /\ Len(files'[<<writer, 0>>]) = Len(files[<<writer, 0>>]) + 1
        /\ Len(files[<<writer, 0>>]) \in Nat
        /\ \A x \in DOMAIN files : x # <<writer, 0>> => files'[x] = files[x]
    BY <1>1, <1>6, <1>13, <2>1, LenWritten
  <2>3. dev.cur_size = Len(files[<<writer, 0>>])  BY <1>13 DEF SizeInv
  <2>4. cfg.limit > 0 /\ cfg.rollback > 0 => Len(files[<<writer, 0>>]) + 1 <= cfg.limit
    BY <1>7, <1>13, <2>2, <2>3 DEF LimitOut, State
  <2>5. writer > m => p >= 1
    <3>1. writer > n => o >= 1  BY <1>13 DEF SizeInv, n, o
    <3> QED  BY <1>4, <2>1, <3>1
  <2>6. SizesFit(files, writer, m, p)  BY <1>1, <1>4, SizesLater
  <2>7. SizesFit(files', writer, m, p)
    <3> SUFFICES ASSUME cfg.limit > 0, cfg.rollback > 0, NEW x \in DOMAIN files'
                 PROVE  /\ Len(files'[x]) <= cfg.limit + IF cfg.stuff_up THEN p ELSE 0
                        /\ cfg.stuff_up /\ Reopenable(x, writer, m)
                             => Len(files'[x]) + 1 <= cfg.limit + p
      BY DEF SizesFit
    <3>1. CASE x = <<writer, 0>>
      <4>1. Reopenable(x, writer, m) => writer > m  BY <3>1 DEF Reopenable
      <4> QED  BY <1>4, <1>7, <2>2, <2>4, <2>5, <3>1, <4>1
    <3>2. CASE x # <<writer, 0>>
      BY <2>2, <2>6, <3>2 DEF SizesFit
    <3> QED  BY <3>1, <3>2
  <2> QED  BY <1>8, <1>13, <2>2, <2>3, <2>5, <2>7
<1>14. ASSUME NEW rolled \in BOOLEAN, s.writer = m, s.files = open(RolledIf(rolled, m), m),
              s.dev.cur_size = Len(s.files[<<m, 0>>]),
              cfg.limit > 0 /\ cfg.rollback > 0 /\ ~rolled => cfg.stuff_up /\ ~LimitOut(State),
              writer' = m, files' = [s.files EXCEPT ![<<m, 0>>] = Append(@, id)],
              dev'.cur_size = s.dev.cur_size + 1
       PROVE  SizeInv'
  <2> DEFINE g == s.files
  <2>1. /\ \A x \in DOMAIN g : x[1] # m => x \in DOMAIN files /\ g[x] = files[x]
        /\ \A x \in DOMAIN g : g[x] = <<>> \/ \E y \in DOMAIN files : g[x] = files[y]
        /\ <<m, 0>> \in DOMAIN g
        /\ \/ g[<<m, 0>>] = <<>>
           \/ ~rolled /\ <<m, 0>> \in DOMAIN files /\ g[<<m, 0>>] = files[<<m, 0>>]
    BY <1>4, <1>14, OpenedFiles
  <2>2. FilesFit(g, stamp)  BY OpenPeriod DEF s
  <2> HIDE DEF g
  <2>3. /\ DOMAIN files' = DOMAIN g /\ Len(files'[<<m, 0>>]) = Len(g[<<m, 0>>]) + 1
        /\ Len(g[<<m, 0>>]) \in Nat
        /\ \A x \in DOMAIN g : x # <<m, 0>> => files'[x] = g[x]
    BY <1>6, <1>14, <2>1, <2>2, LenWritten DEF g
  <2>4. SizesFit(files', m, m, p)
    <3> SUFFICES ASSUME cfg.limit > 0, cfg.rollback > 0, NEW x \in DOMAIN files'
                 PROVE  /\ Len(files'[x]) <= cfg.limit + IF cfg.stuff_up THEN p ELSE 0
                        /\ cfg.stuff_up /\ Reopenable(x, m, m)
                             => Len(files'[x]) + 1 <= cfg.limit + p
      BY DEF SizesFit
    <3>1. SizesFit(files, writer, m, p)  BY <1>1, <1>4, SizesLater
    <3>2. x \in DOMAIN g /\ x[1] \in Nat /\ x[2] \in Nat /\ x = <<x[1], x[2]>>
      BY <2>2, <2>3, FileTypes
    <3>3. CASE x = <<m, 0>>
      <4>1. ~Reopenable(x, m, m)  BY <1>4, <3>3 DEF Reopenable
      <4>2. CASE g[<<m, 0>>] = <<>>
        <5>1. Len(files'[x]) = 1  BY <2>3, <3>3, <4>2
        <5> QED  BY <1>4, <1>7, <4>1, <5>1
      <4>3. CASE g[<<m, 0>>] # <<>>
        <5>1. ~rolled /\ <<m, 0>> \in DOMAIN files /\ g[<<m, 0>>] = files[<<m, 0>>]
          BY <2>1, <4>3
        <5>2. cfg.stuff_up /\ ~LimitOut(State)  BY <1>14, <5>1
        <5>3. Len(files[<<m, 0>>]) + 1 <= cfg.limit + p
          <6>1. CASE writer = m
            <7>1. dev.cur_size = Len(files[<<m, 0>>])  BY <1>4, <6>1 DEF SizeInv
            <7> QED  BY <1>4, <1>7, <2>3, <5>1, <5>2, <7>1 DEF LimitOut, State
          <6>2. CASE writer # m
            <7>1. Reopenable(<<m, 0>>, writer, m)  BY <6>2 DEF Reopenable
            <7> QED  BY <3>1, <5>1, <5>2, <7>1 DEF SizesFit
          <6> QED  BY <6>1, <6>2
        <5> QED  BY <2>3, <3>3, <4>1, <5>1, <5>2, <5>3
      <4> QED  BY <4>2, <4>3
    <3>4. CASE x # <<m, 0>> /\ x[1] # m
      <4>1. x \in DOMAIN files /\ files'[x] = files[x]  BY <2>1, <2>3, <3>2, <3>4
      <4>2. Reopenable(x, m, m) => Reopenable(x, writer, m)
        BY <1>4, <3>2, <3>4 DEF Reopenable
      <4> QED  BY <3>1, <4>1, <4>2 DEF SizesFit
    <3>5. CASE x # <<m, 0>> /\ x[1] = m
      <4>1. ~Reopenable(x, m, m)  BY <3>2, <3>5 DEF Reopenable
      <4>2. files'[x] = g[x]  BY <2>3, <3>2, <3>5
      <4>3. Len(g[x]) <= cfg.limit + IF cfg.stuff_up THEN p ELSE 0
        <5>1. CASE g[x] = <<>>
          <6>1. Len(g[x]) = 0  BY <5>1
          <6> QED  BY <1>4, <1>7, <6>1
        <5>2. CASE \E y \in DOMAIN files : g[x] = files[y]
          BY <3>1, <5>2 DEF SizesFit
        <5> QED  BY <2>1, <3>2, <5>1, <5>2
      <4> QED  BY <4>1, <4>2, <4>3
    <3> QED  BY <3>3, <3>4, <3>5
  <2>5. ~(m > m)  BY <1>4
  <2> QED  BY <1>8, <1>14, <2>3, <2>4, <2>5 DEF g
<1>15. CASE s.writer = Closed /\ writer' = Closed /\ files' = s.files
            /\ fate' = Append(fate, "open_failed")
  BY <1>5, <1>10, <1>15
<1>16. CASE s.writer # Closed /\ writer' = Closed /\ files' = s.files
            /\ fate' = Append(fate, "write_failed")
  BY <1>5, <1>12, <1>16
<1>17. CASE /\ s.writer # Closed /\ writer' = s.writer
            /\ files' = [s.files EXCEPT ![<<s.writer, 0>>] = Append(@, id)]
            /\ dev'.cur_size = s.dev.cur_size + 1
  <2>1. CASE s = State /\ writer # Closed /\ ~LimitOut(State)
    <3>1. s.writer = writer /\ s.files = files /\ s.dev = dev  BY <2>1 DEF State
    <3> QED  BY <1>13, <1>17, <2>1, <3>1
  <2>2. CASE \E rolled \in BOOLEAN :
               /\ s.writer = m /\ s.files = open(RolledIf(rolled, m), m)
               /\ s.dev.cur_size = Len(s.files[<<m, 0>>])
               /\ cfg.limit > 0 /\ cfg.rollback > 0 /\ ~rolled
                    => cfg.stuff_up /\ ~LimitOut(State)
    BY <1>14, <1>17, <2>2
  <2> QED  BY <1>11, <1>17, <2>1, <2>2
<1> QED  BY <1>9, <1>15, <1>16, <1>17, <1>18

-----------------------------------------------------------------------------
(* What rolling keeps.                                                     *)

\* RollingKeepsNewest of the files f and of what was written, w.
Keeps(f, w) ==
  /\ \A x \in DOMAIN f : x[2] <= Depth /\ \A i, j \in DOMAIN f[x] : i < j => f[x][i] < f[x][j]
  /\ \A x, y \in DOMAIN f :
       x[1] = y[1] /\ x[2] < y[2] => \A q \in Range(f[x]), r \in Range(f[y]) : r < q
  /\ \A name \in Days :
       /\ Kept(f, name) \subseteq w[name]
       /\ \A r \in Kept(f, name), q \in w[name] : r < q => q \in Kept(f, name)
       /\ <<name, Depth>> \notin DOMAIN f => w[name] \subseteq Kept(f, name)

KeepInv ==
  /\ written \in [Days -> SUBSET (1 .. Len(stamp))]
  /\ Keeps(files, written)

LEMMA KeptIs ==
  ASSUME NEW f, NEW name, NEW r
  PROVE  r \in Kept(f, name) <=> \E x \in DOMAIN f : x[1] = name /\ r \in Range(f[x])
BY DEF Kept

\* Rolling renames the files of a name in their order, and drops none but the oldest.
LEMMA RollbackShifts ==
  ASSUME NEW f, DOMAIN f \subseteq Days \X Nat, NEW name \in Days, NEW max \in Nat \ {0},
         \A x \in DOMAIN f : x[2] <= max
  PROVE  LET r == rollback(f, name, max) IN
         \E src \in [DOMAIN r -> DOMAIN f] :
           /\ \A x \in DOMAIN r : src[x][1] = x[1] /\ r[x] = f[src[x]] /\ x[2] <= max
           /\ \A x, y \in DOMAIN r : x[1] = y[1] /\ x[2] < y[2] => src[x][2] < src[y][2]
           /\ \A z \in DOMAIN f : z # <<name, max>> => \E x \in DOMAIN r : src[x] = z
           /\ \A d \in Days : <<d, max>> \in DOMAIN f => <<d, max>> \in DOMAIN r
<1> DEFINE run == {k \in 0 .. max : \A j \in 0 .. k : <<name, j>> \in DOMAIN f}
           up  == {<<name, k + 1>> : k \in run \ {max}}
           old == {<<name, k>> : k \in run}
           r   == rollback(f, name, max)
<1>1. \A x \in DOMAIN f : x[1] \in Days /\ x[2] \in Nat /\ x[2] \in 0 .. max /\ x = <<x[1], x[2]>>
  OBVIOUS
<1>2. CASE run = {}
  <2>1. r = f  BY <1>2 DEF rollback
  <2> DEFINE src == [x \in DOMAIN f |-> x]
  <2>2. src \in [DOMAIN f -> DOMAIN f] /\ \A x \in DOMAIN f : src[x] = x  OBVIOUS
  <2> HIDE DEF src, r
  <2> QED  BY <1>1, <2>1, <2>2 DEF r
<1>3. CASE run # {}
  <2>1. r = [x \in up \cup (DOMAIN f \ old) |->
               IF x \in up THEN f[<<name, x[2] - 1>>] ELSE f[x]]
    BY <1>3 DEF rollback
  <2> DEFINE src == [x \in DOMAIN r |-> IF x \in up THEN <<name, x[2] - 1>> ELSE x]
  <2>2. \A k \in run : k \in Nat /\ k \in 0 .. max /\ <<name, k>> \in DOMAIN f
    OBVIOUS
  <2>3. \A k \in run : \A j \in 0 .. k : j \in run
    <3> SUFFICES ASSUME NEW k \in run, NEW j \in 0 .. k PROVE j \in run
      OBVIOUS
    <3>1. j \in 0 .. max /\ \A i \in 0 .. j : i \in 0 .. k  OBVIOUS
    <3> QED  BY <3>1
  <2>4. \A k \in run : k # max /\ <<name, k + 1>> \in DOMAIN f => k + 1 \in run
    <3> SUFFICES ASSUME NEW k \in run, k # max, <<name, k + 1>> \in DOMAIN f PROVE k + 1 \in run
      OBVIOUS
    <3>1. k + 1 \in 0 .. max /\ \A i \in 0 .. k + 1 : i \in 0 .. k \/ i = k + 1  OBVIOUS
    <3> QED  BY <3>1
  <2>5. \A x \in up : /\ x[1] = name /\ x[2] - 1 \in run /\ x[2] - 1 # max
                      /\ x[2] \in Nat /\ x[2] <= max /\ x = <<name, x[2]>>
    <3> SUFFICES ASSUME NEW k \in run \ {max}
                 PROVE  LET x == <<name, k + 1>> IN
                        /\ x[1] = name /\ x[2] - 1 \in run /\ x[2] - 1 # max
                        /\ x[2] \in Nat /\ x[2] <= max /\ x = <<name, x[2]>>
      OBVIOUS
    <3> HIDE DEF run
    <3>1. k \in 0 .. max /\ k # max /\ k \in run  BY <2>2
    <3>2. (k + 1) - 1 = k /\ k + 1 \in Nat /\ k + 1 <= max  BY <3>1
    <3> QED  BY <3>1, <3>2
  <2>6. \A k \in run : k # max => <<name, k + 1>> \in up
    OBVIOUS
  <2>7. \A z : z \in old <=> \E k \in run : z = <<name, k>>
    OBVIOUS
  <2> HIDE DEF run, up, old, r, src
  <2>8. DOMAIN r = up \cup (DOMAIN f \ old)  BY <2>1
  <2>9. \A x \in DOMAIN r : /\ x \in up => src[x] = <<name, x[2] - 1>>
                            /\ x \notin up => src[x] = x /\ x \in DOMAIN f /\ x \notin old
    BY <2>8 DEF src
  <2>10. \A x \in DOMAIN r : /\ src[x] \in DOMAIN f /\ src[x][1] = x[1]
                             /\ r[x] = f[src[x]] /\ x[2] <= max
    <3> SUFFICES ASSUME NEW x \in DOMAIN r
                 PROVE  /\ src[x] \in DOMAIN f /\ src[x][1] = x[1]
                        /\ r[x] = f[src[x]] /\ x[2] <= max
      OBVIOUS
    <3>1. CASE x \in up
      <4>1. r[x] = f[<<name, x[2] - 1>>]  BY <2>1, <2>8, <3>1
      <4> QED  BY <2>2, <2>5, <2>9, <3>1, <4>1
    <3>2. CASE x \notin up
      <4>1. r[x] = f[x]  BY <2>1, <2>8, <3>2
      <4> QED  BY <2>9, <3>2, <4>1
    <3> QED  BY <3>1, <3>2
  <2>11. src \in [DOMAIN r -> DOMAIN f]  BY <2>10 DEF src
  <2>12. ASSUME NEW x \in DOMAIN r, NEW y \in DOMAIN r, x[1] = y[1], x[2] < y[2]
         PROVE  src[x][2] < src[y][2]
    <3>1. CASE x \in up /\ y \in up
      BY <2>5, <2>9, <2>12, <3>1
    <3>2. CASE x \in up /\ y \notin up
      BY <1>1, <2>5, <2>9, <2>12, <3>2
    <3>3. CASE x \notin up /\ y \in up
      <4>1. x[2] \in 0 .. y[2] - 1 /\ x = <<name, x[2]>>
        BY <1>1, <2>5, <2>9, <2>12, <3>3
      <4>2. x[2] \in run  BY <2>3, <2>5, <3>3, <4>1
      <4> QED  BY <2>7, <2>9, <3>3, <4>1, <4>2
    <3>4. CASE x \notin up /\ y \notin up
      BY <2>9, <2>12, <3>4
    <3> QED  BY <3>1, <3>2, <3>3, <3>4
  <2>13. ASSUME NEW z \in DOMAIN f, z # <<name, max>>
         PROVE  \E x \in DOMAIN r : src[x] = z
    <3>1. CASE z \in old
      <4>1. PICK k \in run : z = <<name, k>>  BY <2>7, <3>1
      <4>2. k # max /\ <<name, k + 1>> \in up  BY <2>6, <2>13, <4>1
      <4>3. <<name, k + 1>> \in DOMAIN r  BY <2>8, <4>2
      <4>4. src[<<name, k + 1>>] = <<name, (k + 1) - 1>>  BY <2>9, <4>2, <4>3
      <4>5. (k + 1) - 1 = k  BY <2>2, <4>1
      <4> QED  BY <4>1, <4>3, <4>4, <4>5
    <3>2. CASE z \notin old
      <4>1. z \notin up
        <5> SUFFICES ASSUME z \in up PROVE FALSE
          OBVIOUS
        <5>1. z = <<name, z[2]>> /\ z[2] - 1 \in run /\ z[2] - 1 # max /\ (z[2] - 1) + 1 = z[2]
          BY <2>5
        <5>2. z[2] \in run  BY <2>4, <5>1
        <5> QED  BY <2>7, <3>2, <5>1, <5>2
      <4>2. z \in DOMAIN r  BY <2>8, <3>2
      <4> QED  BY <2>9, <4>1, <4>2
    <3> QED  BY <3>1, <3>2
  <2>14. ASSUME NEW d \in Days, <<d, max>> \in DOMAIN f
         PROVE  <<d, max>> \in DOMAIN r
    <3>1. CASE <<d, max>> \in old
      <4>1. d = name /\ max \in run  BY <2>7, <3>1
      <4>2. max - 1 \in 0 .. max /\ max - 1 # max /\ (max - 1) + 1 = max  OBVIOUS
      <4>3. max - 1 \in run  BY <2>3, <4>1, <4>2
      <4>4. <<name, (max - 1) + 1>> \in up  BY <2>6, <4>2, <4>3
      <4> QED  BY <2>8, <4>1, <4>2, <4>4
    <3>2. CASE <<d, max>> \notin old
      BY <2>8, <2>14, <3>2
    <3> QED  BY <3>1, <3>2
  <2> QED  BY <2>10, <2>11, <2>12, <2>13, <2>14 DEF r
<1> QED  BY <1>2, <1>3

LEMMA KeepsRolled ==
  ASSUME TypeOK, NEW f, NEW st, FilesFit(f, st), NEW w, Keeps(f, w), NEW name \in Days
  PROVE  Keeps(rollback(f, name, Depth), w)
<1> DEFINE r == rollback(f, name, Depth)
<1>1. /\ DOMAIN f \subseteq Days \X Nat /\ Depth \in Nat \ {0}
      /\ \A x \in DOMAIN f : x[2] <= Depth
  BY ConfigTypes DEF FilesFit, Depth, Keeps
<1>2. PICK src \in [DOMAIN r -> DOMAIN f] :
        /\ \A x \in DOMAIN r : src[x][1] = x[1] /\ r[x] = f[src[x]] /\ x[2] <= Depth
        /\ \A x, y \in DOMAIN r : x[1] = y[1] /\ x[2] < y[2] => src[x][2] < src[y][2]
        /\ \A z \in DOMAIN f : z # <<name, Depth>> => \E x \in DOMAIN r : src[x] = z
        /\ \A d \in Days : <<d, Depth>> \in DOMAIN f => <<d, Depth>> \in DOMAIN r
  BY <1>1, RollbackShifts
<1> HIDE DEF r
<1>3. ASSUME NEW x \in DOMAIN r
      PROVE  x[2] <= Depth /\ \A i, j \in DOMAIN r[x] : i < j => r[x][i] < r[x][j]
  BY <1>2 DEF Keeps
<1>4. ASSUME NEW x \in DOMAIN r, NEW y \in DOMAIN r, x[1] = y[1], x[2] < y[2],
             NEW q \in Range(r[x]), NEW k \in Range(r[y])
      PROVE  k < q
  <2>1. /\ src[x] \in DOMAIN f /\ src[y] \in DOMAIN f /\ src[x][1] = src[y][1]
        /\ src[x][2] < src[y][2] /\ r[x] = f[src[x]] /\ r[y] = f[src[y]]
    BY <1>2, <1>4
  <2> QED  BY <1>4, <2>1 DEF Keeps
<1>5. ASSUME NEW d \in Days
      PROVE  /\ Kept(r, d) \subseteq w[d]
             /\ \A k \in Kept(r, d), q \in w[d] : k < q => q \in Kept(r, d)
             /\ <<d, Depth>> \notin DOMAIN r => w[d] \subseteq Kept(r, d)
  <2>1. /\ Kept(f, d) \subseteq w[d]
        /\ \A k \in Kept(f, d), q \in w[d] : k < q => q \in Kept(f, d)
        /\ <<d, Depth>> \notin DOMAIN f => w[d] \subseteq Kept(f, d)
    BY DEF Keeps
  <2>2. ASSUME NEW k \in Kept(r, d)
        PROVE  \E x \in DOMAIN r : x[1] = d /\ k \in Range(r[x]) /\ k \in Range(f[src[x]])
                                   /\ src[x] \in DOMAIN f /\ src[x][1] = d
    BY <1>2, KeptIs
  <2>3. Kept(r, d) \subseteq Kept(f, d)  BY <2>2, KeptIs
  <2>4. ASSUME NEW z \in DOMAIN f, z[1] = d, z # <<name, Depth>>, NEW q \in Range(f[z])
        PROVE  q \in Kept(r, d)
    <3>1. PICK x \in DOMAIN r : src[x] = z  BY <1>2, <2>4
    <3>2. x[1] = d /\ q \in Range(r[x])  BY <1>2, <2>4, <3>1
    <3> QED  BY <3>2, KeptIs
  <2>5. ASSUME NEW k \in Kept(r, d), NEW q \in w[d], k < q
        PROVE  q \in Kept(r, d)
    <3>1. q \in Kept(f, d)  BY <2>1, <2>3, <2>5
    <3>2. PICK z \in DOMAIN f : z[1] = d /\ q \in Range(f[z])  BY <3>1, KeptIs
    <3>3. CASE z # <<name, Depth>>  BY <2>4, <3>2, <3>3
    <3>4. CASE z = <<name, Depth>>
      <4>1. PICK x \in DOMAIN r : /\ x[1] = d /\ k \in Range(r[x]) /\ k \in Range(f[src[x]])
                                  /\ src[x] \in DOMAIN f /\ src[x][1] = d
        BY <2>2, <2>5
      <4>2. CASE src[x] = z
        <5>1. q \in Range(r[x])  BY <1>2, <3>2, <4>1, <4>2
        <5> QED  BY <4>1, <5>1, KeptIs
      <4>3. CASE src[x] # z
        <5>1. src[x][2] \in Nat /\ src[x][2] <= Depth /\ src[x] = <<d, src[x][2]>>
          BY <1>1, <4>1
        <5>2. z = <<d, Depth>> /\ z[2] = Depth  BY <3>2, <3>4
        <5>3. src[x][2] < z[2]  BY <1>1, <4>3, <5>1, <5>2
        <5>4. q < k  BY <3>2, <4>1, <5>3 DEF Keeps
        <5>5. k \in Nat /\ q \in Nat
          <6>1. f[src[x]] \in Seq(1 .. Len(st)) /\ f[z] \in Seq(1 .. Len(st))
            BY <3>2, <4>1 DEF FilesFit
          <6> QED  BY <3>2, <4>1, <6>1 DEF Range
        <5> QED  BY <2>5, <5>4, <5>5
      <4> QED  BY <4>2, <4>3
    <3> QED  BY <3>3, <3>4
  <2>6. ASSUME <<d, Depth>> \notin DOMAIN r, NEW q \in w[d]
        PROVE  q \in Kept(r, d)
    <3>1. <<d, Depth>> \notin DOMAIN f  BY <1>2, <2>6
    <3>2. q \in Kept(f, d)  BY <2>1, <2>6, <3>1
    <3>3. PICK z \in DOMAIN f : z[1] = d /\ q \in Range(f[z])  BY <3>2, KeptIs
    <3>4. z # <<name, Depth>>  BY <3>1, <3>3
    <3> QED  BY <2>4, <3>3, <3>4
  <2> QED  BY <2>1, <2>3, <2>5, <2>6
<1>6. Keeps(r, w)  BY <1>3, <1>4, <1>5 DEF Keeps
<1> QED  BY <1>6 DEF r

LEMMA KeepsOpened ==
  ASSUME TypeOK, NEW f, NEW st, FilesFit(f, st), NEW w, Keeps(f, w), NEW name \in Days
  PROVE  Keeps(open(f, name), w)
<1> DEFINE g == open(f, name)
<1>1. CASE <<name, 0>> \in DOMAIN f
  <2>1. g = f  BY <1>1 DEF open
  <2> QED  BY <2>1
<1>2. CASE <<name, 0>> \notin DOMAIN f
  <2>1. g = [x \in DOMAIN f \cup {<<name, 0>>} |-> IF x \in DOMAIN f THEN f[x] ELSE <<>>]
    BY <1>2 DEF open
  <2> HIDE DEF g
  <2>2. /\ DOMAIN g = DOMAIN f \cup {<<name, 0>>} /\ g[<<name, 0>>] = <<>>
        /\ \A x \in DOMAIN f : g[x] = f[x]
    BY <1>2, <2>1
  <2>3. Range(<<>>) = {} /\ DOMAIN <<>> = {}  BY DEF Range
  <2>4. \A x \in DOMAIN g : \/ x \in DOMAIN f /\ g[x] = f[x]
                            \/ x = <<name, 0>> /\ Range(g[x]) = {} /\ DOMAIN g[x] = {}
    <3> SUFFICES ASSUME NEW x \in DOMAIN g, x \notin DOMAIN f
                 PROVE  x = <<name, 0>> /\ Range(g[x]) = {} /\ DOMAIN g[x] = {}
      BY <2>2
    <3>1. x = <<name, 0>> /\ g[x] = <<>>  BY <2>2
    <3> QED  BY <2>3, <3>1
  <2>5. \A d : \A r : r \in Kept(g, d) <=> r \in Kept(f, d)
    BY <2>2, <2>4, KeptIs
  <2>6. Depth \in Nat \ {0}  BY ConfigTypes DEF Depth
  <2>7. \A d : <<d, Depth>> \in DOMAIN f <=> <<d, Depth>> \in DOMAIN g
    <3>1. \A d : <<d, Depth>> # <<name, 0>>  BY <2>6
    <3> QED  BY <2>2, <3>1
  <2>8. \A x \in DOMAIN g : /\ x[2] <= Depth
                            /\ \A i, j \in DOMAIN g[x] : i < j => g[x][i] < g[x][j]
    <3> SUFFICES ASSUME NEW x \in DOMAIN g
                 PROVE  /\ x[2] <= Depth
                        /\ \A i, j \in DOMAIN g[x] : i < j => g[x][i] < g[x][j]
      OBVIOUS
    <3>1. CASE x \in DOMAIN f /\ g[x] = f[x]  BY <3>1 DEF Keeps
    <3>2. CASE x = <<name, 0>> /\ DOMAIN g[x] = {}  BY <2>6, <3>2
    <3> QED  BY <2>4, <3>1, <3>2
  <2>9. \A x, y \in DOMAIN g :
          x[1] = y[1] /\ x[2] < y[2] => \A q \in Range(g[x]), r \in Range(g[y]) : r < q
    BY <2>4 DEF Keeps
  <2>10. ASSUME NEW d \in Days
         PROVE  /\ Kept(g, d) \subseteq w[d]
                /\ \A r \in Kept(g, d), q \in w[d] : r < q => q \in Kept(g, d)
                /\ <<d, Depth>> \notin DOMAIN g => w[d] \subseteq Kept(g, d)
    <3>1. Kept(g, d) = Kept(f, d)  BY <2>5
    <3> QED  BY <2>7, <3>1 DEF Keeps
  <2>11. Keeps(g, w)  BY <2>8, <2>9, <2>10 DEF Keeps
  <2> QED  BY <2>11 DEF g
<1> QED  BY <1>1, <1>2

LEMMA KeepsWritten ==
  ASSUME TypeOK, NEW f, NEW st, FilesFit(f, st), NEW w \in [Days -> SUBSET (1 .. Len(st))],
         Keeps(f, w), NEW name \in Days, <<name, 0>> \in DOMAIN f, Len(st) \in Nat
  PROVE  Keeps([f EXCEPT ![<<name, 0>>] = Append(@, Len(st) + 1)],
               [w EXCEPT ![name] = @ \cup {Len(st) + 1}])
<1> DEFINE id == Len(st) + 1
           c == f[<<name, 0>>]
           e == Append(c, id)
           g == [f EXCEPT ![<<name, 0>>] = Append(@, id)]
           v == [w EXCEPT ![name] = @ \cup {id}]
<1>1. /\ DOMAIN g = DOMAIN f /\ g[<<name, 0>>] = e
      /\ \A x \in DOMAIN f : x # <<name, 0>> => g[x] = f[x]
      /\ v[name] = w[name] \cup {id} /\ \A d \in Days : d # name => v[d] = w[d]
  OBVIOUS
<1>2. c \in Seq(1 .. Len(st))  BY DEF FilesFit
<1>3. \A x \in DOMAIN f : Range(f[x]) \subseteq 1 .. Len(st)
  <2> SUFFICES ASSUME NEW x \in DOMAIN f PROVE Range(f[x]) \subseteq 1 .. Len(st)
    OBVIOUS
  <2>1. f[x] \in Seq(1 .. Len(st))  BY DEF FilesFit
  <2> QED  BY <2>1 DEF Range
<1>4. /\ id \in Nat /\ \A i \in 1 .. Len(st) : i < id /\ i \in Nat /\ i # id
  OBVIOUS
<1> HIDE DEF id, g, v, c
<1>5. /\ Len(c) \in Nat /\ DOMAIN c = 1 .. Len(c) /\ DOMAIN e = 1 .. Len(c) + 1
      /\ e[Len(c) + 1] = id /\ \A i \in 1 .. Len(c) : e[i] = c[i] /\ c[i] \in 1 .. Len(st)
  <2>1. c \in Seq(Nat)
    <3>1. c = [i \in 1 .. Len(c) |-> c[i]] /\ Len(c) \in Nat /\ \A i \in 1 .. Len(c) : c[i] \in Nat
      BY <1>2
    <3> QED  BY <3>1
  <2> QED  BY <1>2, <1>4, <2>1, AppendProperties, LenProperties
<1> HIDE DEF e
<1>6. Range(e) = Range(c) \cup {id}
  <2>1. Range(e) \subseteq Range(c) \cup {id}
    <3> SUFFICES ASSUME NEW i \in 1 .. Len(c) + 1 PROVE e[i] \in Range(c) \cup {id}
      BY <1>5 DEF Range
    <3>1. CASE i = Len(c) + 1  BY <1>5, <3>1
    <3>2. CASE i # Len(c) + 1
      <4>1. i \in 1 .. Len(c)  BY <1>5, <3>2
      <4> QED  BY <1>5, <4>1 DEF Range
    <3> QED  BY <3>1, <3>2
  <2>2. Range(c) \cup {id} \subseteq Range(e)
    <3>1. \A i \in 1 .. Len(c) : i \in 1 .. Len(c) + 1  BY <1>5
    <3>2. Len(c) + 1 \in 1 .. Len(c) + 1  BY <1>5
    <3> QED  BY <1>5, <3>1, <3>2 DEF Range
  <2> QED  BY <2>1, <2>2
<1>7. \A x \in DOMAIN f : x \in Days \X Nat /\ x = <<x[1], x[2]>> /\ x[2] \in Nat
  BY FileTypes
<1>8. /\ \A x \in DOMAIN f : x[2] <= Depth /\ \A i, j \in DOMAIN f[x] : i < j => f[x][i] < f[x][j]
      /\ \A x, y \in DOMAIN f :
           x[1] = y[1] /\ x[2] < y[2] => \A q \in Range(f[x]), r \in Range(f[y]) : r < q
      /\ \A d \in Days :
           /\ Kept(f, d) \subseteq w[d]
           /\ \A r \in Kept(f, d), q \in w[d] : r < q => q \in Kept(f, d)
           /\ <<d, Depth>> \notin DOMAIN f => w[d] \subseteq Kept(f, d)
  BY DEF Keeps
<1>9. ASSUME NEW x \in DOMAIN g
      PROVE  x[2] <= Depth /\ \A i, j \in DOMAIN g[x] : i < j => g[x][i] < g[x][j]
  <2>1. CASE x = <<name, 0>>
    <3>1. \A i, j \in 1 .. Len(c) : i < j => c[i] < c[j]  BY <1>5, <1>8 DEF c
    <3>2. \A i, j \in 1 .. Len(c) + 1 : i < j => e[i] < e[j]
      <4> SUFFICES ASSUME NEW i \in 1 .. Len(c) + 1, NEW j \in 1 .. Len(c) + 1, i < j
                   PROVE  e[i] < e[j]
        OBVIOUS
      <4>1. i \in 1 .. Len(c)  BY <1>5
      <4>2. CASE j = Len(c) + 1  BY <1>4, <1>5, <4>1, <4>2
      <4>3. CASE j # Len(c) + 1
        <5>1. j \in 1 .. Len(c)  BY <1>5, <4>3
        <5> QED  BY <1>5, <3>1, <4>1, <5>1
      <4> QED  BY <4>2, <4>3
    <3>3. x[2] <= Depth  BY <1>1, <1>8, <1>9
    <3> QED  BY <1>1, <1>5, <2>1, <3>2, <3>3
  <2>2. CASE x # <<name, 0>>  BY <1>1, <1>8, <1>9, <2>2
  <2> QED  BY <2>1, <2>2
<1>10. ASSUME NEW x \in DOMAIN g, NEW y \in DOMAIN g, x[1] = y[1], x[2] < y[2],
              NEW q \in Range(g[x]), NEW r \in Range(g[y])
       PROVE  r < q
  <2>1. x \in DOMAIN f /\ y \in DOMAIN f  BY <1>1
  <2>2. y # <<name, 0>>  BY <1>7, <1>10, <2>1
  <2>3. g[y] = f[y] /\ r \in Range(f[y]) /\ r \in 1 .. Len(st)
    BY <1>1, <1>3, <1>10, <2>1, <2>2
  <2>4. CASE q \in Range(f[x])  BY <1>8, <1>10, <2>1, <2>3, <2>4
  <2>5. CASE q \notin Range(f[x])
    <3>1. q = id  BY <1>1, <1>6, <1>10, <2>1, <2>5 DEF c
    <3> QED  BY <1>4, <2>3, <3>1
  <2> QED  BY <2>4, <2>5
<1>11. \A k : k \in Kept(g, name) <=> k \in Kept(f, name) \/ k = id
  <2> SUFFICES ASSUME NEW k PROVE k \in Kept(g, name) <=> k \in Kept(f, name) \/ k = id
    OBVIOUS
  <2>1. ASSUME NEW x \in DOMAIN g, x[1] = name, k \in Range(g[x])
        PROVE  k \in Kept(f, name) \/ k = id
    <3>1. k \in Range(f[x]) \/ k = id  BY <1>1, <1>6, <2>1 DEF c
    <3> QED  BY <1>1, <2>1, <3>1, KeptIs
  <2>2. ASSUME NEW x \in DOMAIN f, x[1] = name, k \in Range(f[x])
        PROVE  k \in Kept(g, name)
    <3>1. x \in DOMAIN g /\ k \in Range(g[x])  BY <1>1, <1>6, <2>2 DEF c
    <3> QED  BY <2>2, <3>1, KeptIs
  <2>3. id \in Kept(g, name)
    <3>1. <<name, 0>> \in DOMAIN g /\ <<name, 0>>[1] = name /\ id \in Range(g[<<name, 0>>])
      BY <1>1, <1>6
    <3> QED  BY <3>1, KeptIs
  <2> QED  BY <2>1, <2>2, <2>3, KeptIs
<1>12. \A d \in Days : d # name => \A k : k \in Kept(g, d) <=> k \in Kept(f, d)
  <2>1. \A d \in Days : d # name => \A x \in DOMAIN f : x[1] = d => g[x] = f[x]
    BY <1>1
  <2> QED  BY <1>1, <2>1, KeptIs
<1>13. ASSUME NEW d \in Days
       PROVE  /\ Kept(g, d) \subseteq v[d]
              /\ \A r \in Kept(g, d), q \in v[d] : r < q => q \in Kept(g, d)
              /\ <<d, Depth>> \notin DOMAIN g => v[d] \subseteq Kept(g, d)
  <2>1. CASE d # name
    <3>1. Kept(g, d) = Kept(f, d) /\ v[d] = w[d]  BY <1>1, <1>12, <2>1
    <3> QED  BY <1>1, <1>8, <3>1
  <2>2. CASE d = name
    <3>1. /\ Kept(f, name) \subseteq w[name]
          /\ \A r \in Kept(f, name), q \in w[name] : r < q => q \in Kept(f, name)
          /\ <<name, Depth>> \notin DOMAIN f => w[name] \subseteq Kept(f, name)
          /\ w[name] \subseteq 1 .. Len(st)
      BY <1>8
    <3>2. \A r \in Kept(g, name), q \in v[name] : r < q => q \in Kept(g, name)
      <4> SUFFICES ASSUME NEW r \in Kept(g, name), NEW q \in w[name], r < q
                   PROVE  q \in Kept(g, name)
        BY <1>1, <1>11
      <4>1. r # id
        <5>1. q < id /\ q \in Nat /\ id \in Nat  BY <1>4, <3>1
        <5> QED  BY <5>1
      <4> QED  BY <1>11, <3>1, <4>1
    <3> QED  BY <1>1, <1>11, <2>2, <3>1, <3>2
  <2> QED  BY <2>1, <2>2
<1>14. Keeps(g, v)  BY <1>9, <1>10, <1>13 DEF Keeps
<1> QED  BY <1>14 DEF g, v, id

\* The step of what is kept with one record.
LEMMA RecordKeeps ==
  ASSUME Inv, KeepInv, NEW t \in Times, NEW outcome, NEW ok \in BOOLEAN,
         EnterProcOutFileDevice(t, outcome, ok)
  PROVE  KeepInv'
<1> DEFINE s == OpenFileDevice(t, outcome)
           m == MakeFileName(t)
           id == Len(stamp) + 1
<1>1. TypeOK /\ FilesFit(files, stamp) /\ Keeps(files, written) /\ m \in Days /\ m # Closed
  <2>1. TypeOK /\ FilesFit(files, stamp) /\ Keeps(files, written)  BY DEF Inv, KeepInv
  <2>2. \A d \in Days : d # Closed  BY CalendarTypes DEF Days, Closed
  <2> QED  BY <2>1, <2>2, NameIsDay
<1>2. /\ stamp' = Append(stamp, t) /\ cfg' = cfg
      /\ \/ writer = Closed /\ UNCHANGED <<files, written>>
         \/ s.writer = Closed /\ files' = s.files /\ UNCHANGED written
         \/ /\ s.writer # Closed
            /\ files' = [s.files EXCEPT ![<<s.writer, 0>>] = Append(@, id)]
            /\ written' = [written EXCEPT ![s.writer] = @ \cup {id}]
         \/ s.writer # Closed /\ files' = s.files /\ UNCHANGED written
  <2> HIDE DEF s, id
  <2>1. /\ stamp' = Append(stamp, t) /\ cfg' = cfg /\ restarts' = restarts
        /\ \/ /\ writer = Closed /\ UNCHANGED <<writer, files, dev, written>>
              /\ fate' = Append(fate, "skipped")
           \/ /\ s.writer = Closed /\ writer' = Closed /\ files' = s.files
              /\ fate' = Append(fate, "open_failed") /\ UNCHANGED written
           \/ /\ s.writer # Closed /\ writer' = s.writer
              /\ files' = [s.files EXCEPT ![<<s.writer, 0>>] = Append(@, id)]
              /\ written' = [written EXCEPT ![s.writer] = @ \cup {id}]
              /\ dev'.cur_size = s.dev.cur_size + 1
              /\ fate' = Append(fate, "written")
           \/ /\ s.writer # Closed /\ writer' = Closed /\ files' = s.files
              /\ fate' = Append(fate, "write_failed") /\ UNCHANGED written
    BY RecordOutcomes, Zenon DEF s, id
  <2> QED  BY <2>1
<1>3. /\ Len(stamp) \in Nat /\ Len(stamp') = id
      /\ written \in [Days -> SUBSET (1 .. Len(stamp))]
  BY <1>1, <1>2, AppendProperties, LenProperties DEF TypeOK, KeepInv
<1> HIDE DEF s, m, id
<1>4. Keeps(s.files, written)
  <2>1. \/ s = State
        \/ \E rolled \in BOOLEAN : s.files = RolledIf(rolled, m)
        \/ \E rolled \in BOOLEAN : s.files = open(RolledIf(rolled, m), m)
    BY <1>1, OpenOutcomes DEF s, m
  <2>2. \A rolled \in BOOLEAN : /\ Keeps(RolledIf(rolled, m), written)
                                /\ FilesFit(RolledIf(rolled, m), stamp)
    <3>1. Depth \in Nat  BY <1>1, ConfigTypes DEF Depth
    <3>2. /\ Keeps(rollback(files, m, Depth), written)
          /\ FilesFit(rollback(files, m, Depth), stamp)
      BY <1>1, <3>1, KeepsRolled, RolledFits
    <3> QED  BY <1>1, <3>2 DEF RolledIf
  <2>3. \A rolled \in BOOLEAN : Keeps(open(RolledIf(rolled, m), m), written)
    BY <1>1, <2>2, KeepsOpened
  <2>4. CASE s = State  BY <1>1, <2>4 DEF State
  <2> QED  BY <2>1, <2>2, <2>3, <2>4
<1>5. s.writer # Closed => /\ FilesFit(s.files, stamp) /\ s.writer \in Days
                           /\ <<s.writer, 0>> \in DOMAIN s.files
  BY OpenPeriod DEF OpenFile, s
<1>6. \A d \in Days : Keeps(files', written') => Keeps(files, written)'
  BY <1>2 DEF Keeps, Depth
<1>7. ASSUME UNCHANGED written, Keeps(files', written)
      PROVE  KeepInv'
  <2>1. 1 .. Len(stamp) \subseteq 1 .. Len(stamp')  BY <1>3 DEF id
  <2>2. written' \in [Days -> SUBSET (1 .. Len(stamp'))]
    <3>1. \A d \in Days : written[d] \in SUBSET (1 .. Len(stamp'))  BY <1>3, <2>1
    <3> QED  BY <1>3, <1>7, <3>1
  <2>3. Keeps(files', written')  BY <1>7
  <2> QED  BY <1>1, <1>6, <2>2, <2>3 DEF KeepInv
<1>8. CASE writer = Closed /\ UNCHANGED <<files, written>>
  BY <1>1, <1>7, <1>8
<1>9. CASE files' = s.files /\ UNCHANGED written
  BY <1>4, <1>7, <1>9
<1>10. CASE /\ s.writer # Closed
            /\ files' = [s.files EXCEPT ![<<s.writer, 0>>] = Append(@, id)]
            /\ written' = [written EXCEPT ![s.writer] = @ \cup {id}]
  <2>1. Keeps(files', written')
    BY <1>1, <1>3, <1>4, <1>5, <1>10, KeepsWritten DEF id
  <2>2. 1 .. Len(stamp) \subseteq 1 .. id /\ id \in 1 .. id  BY <1>3 DEF id
  <2>3. written' \in [Days -> SUBSET (1 .. id)]
    <3>1. \A d \in Days : written[d] \in SUBSET (1 .. id)  BY <1>3, <2>2
    <3>2. written \in [Days -> SUBSET (1 .. id)]  BY <1>3, <3>1
    <3>3. written[s.writer] \cup {id} \in SUBSET (1 .. id)  BY <1>5, <1>10, <2>2, <3>1
    <3> QED  BY <1>10, <3>2, <3>3
  <2> QED  BY <1>1, <1>3, <1>6, <2>1, <2>3 DEF KeepInv
<1> QED  BY <1>2, <1>8, <1>9, <1>10

-----------------------------------------------------------------------------
(* The theorems.                                                           *)

RollInv == restarts \in Nat /\ SizeInv /\ KeepInv

\* StopLogger closes the file: the next record may find it full, and no file changes.
LEMMA RestartRolls ==
  ASSUME Inv, RollInv, Restart
  PROVE  RollInv'
<1>1. /\ restarts' = restarts + 1 /\ writer' = Closed
      /\ UNCHANGED <<cfg, files, stamp, fate, written>>
  BY DEF Restart
<1>2. OpenedAgain \in Nat  BY OverType DEF Inv, RollInv
<1>3. OpenedAgain' = OpenedAgain + 1 /\ OpenedAgain' \in Nat
  <2>1. OpenedAgain' = (restarts + 1) + Failures
          + Cardinality({i \in 2 .. Len(stamp) : DayOf(stamp[i]) < DayOf(stamp[i - 1])})
    BY <1>1 DEF OpenedAgain, Failures
  <2>2. Failures \in Nat
        /\ Cardinality({i \in 2 .. Len(stamp) : DayOf(stamp[i]) < DayOf(stamp[i - 1])}) \in Nat
    <3>1. /\ IsFiniteSet(1 .. Len(stamp)) /\ IsFiniteSet(2 .. Len(stamp))
          /\ DOMAIN fate = 1 .. Len(stamp)
      BY FS_Interval DEF Inv, TypeOK
    <3>2. Failures \in Nat  BY <3>1, CardinalityGrows DEF Failures
    <3>3. Cardinality({i \in 2 .. Len(stamp) : DayOf(stamp[i]) < DayOf(stamp[i - 1])}) \in Nat
      BY <3>1, CardinalityGrows
    <3> QED  BY <3>2, <3>3
  <2> QED  BY <1>2, <2>1, <2>2 DEF OpenedAgain, RollInv
<1>4. SizesFit(files, Closed, LastName, OpenedAgain')
  <2>1. SizesFit(files, writer, LastName, OpenedAgain)  BY DEF RollInv, SizeInv
  <2>2. \A x \in DOMAIN files : files[x] = <<>> \/ \E y \in DOMAIN files : files[x] = files[y]
    OBVIOUS
  <2>3. TypeOK /\ FilesFit(files, stamp)  BY DEF Inv
  <2>4. OpenedAgain + 1 <= OpenedAgain'  BY <1>2, <1>3
  <2>5. \A o, p \in Nat : SizesFit(files, writer, LastName, o) /\ o + 1 <= p
                           => SizesFit(files, Closed, LastName, p)
    BY <2>2, <2>3, SizesFailed
  <2> QED  BY <1>2, <1>3, <2>1, <2>4, <2>5
<1>5. LastName' = LastName
  <2>1. (MakeFileName(Last(stamp)))' = MakeFileName(Last(stamp))  BY <1>1 DEF MakeFileName
  <2> QED  BY <1>1, <2>1 DEF LastName
<1>6. SizesFit(files, writer, LastName, OpenedAgain)'
  BY <1>1, <1>4, <1>5 DEF SizesFit, Reopenable
<1>7. KeepInv'  BY <1>1 DEF RollInv, KeepInv, Keeps, Depth
<1> QED  BY <1>1, <1>6, <1>7 DEF RollInv, SizeInv

\* The counter that decides about rolling is the size of the open file, files outgrow
\* the limit by what OpenedAgain counts, and those of a name hold the newest of its
\* records (OpenFileDevice, FileHandler::rollback).
THEOREM RollingInvariant == Spec => []RollInv
<1>1. Init => RollInv
  <2> SUFFICES ASSUME Init PROVE RollInv
    OBVIOUS
  <2>1. DOMAIN files = {} /\ writer = Closed /\ restarts \in Nat  BY DEF Init
  <2>2. SizeInv  BY <2>1 DEF SizeInv, SizesFit
  <2>3. written = [d \in Days |-> {}] /\ written \in [Days -> SUBSET (1 .. Len(stamp))]
    BY DEF Init
  <2>4. Keeps(files, written)
    <3>1. \A d : \A r : r \notin Kept(files, d)  BY <2>1, KeptIs
    <3> QED  BY <2>1, <2>3, <3>1 DEF Keeps
  <2> QED  BY <2>1, <2>2, <2>3, <2>4 DEF RollInv, KeepInv
<1>2. Inv /\ RollInv /\ [Next]_vars => RollInv'
  <2> SUFFICES ASSUME Inv, RollInv, [Next]_vars PROVE RollInv'
    OBVIOUS
  <2>1. CASE Record
    <3>1. PICK t \in Times, outcome \in {"ok", "fail", "too_long"}, ok \in BOOLEAN :
            EnterProcOutFileDevice(t, outcome, ok)
      BY <2>1 DEF Record
    <3>2. restarts' = restarts  BY <3>1 DEF EnterProcOutFileDevice
    <3> QED  BY <3>1, <3>2, RecordSizes, RecordKeeps DEF RollInv
  <2>2. CASE Restart  BY <2>2, RestartRolls
  <2>3. CASE UNCHANGED vars
    <3>1. UNCHANGED <<cfg, writer, files, dev, restarts, stamp, fate, written>>
      BY <2>3 DEF vars
    <3>2. OpenedAgain' = OpenedAgain  BY <3>1 DEF OpenedAgain, Failures
    <3>3. LastName' = LastName
      <4>1. (MakeFileName(Last(stamp)))' = MakeFileName(Last(stamp))
        BY <3>1 DEF MakeFileName
      <4> QED  BY <3>1, <4>1 DEF LastName
    <3>4. SizeInv'  BY <3>1, <3>2, <3>3 DEF RollInv, SizeInv, SizesFit
    <3>5. KeepInv'  BY <3>1 DEF RollInv, KeepInv, Keeps, Depth
    <3> QED  BY <3>1, <3>4, <3>5 DEF RollInv
  <2> QED  BY <2>1, <2>2, <2>3 DEF Next
<1> QED  BY <1>1, <1>2, FileDeviceInvariant, PTL DEF Spec

\* The files of a name hold the newest of the records written to it, in their order,
\* through rolls, restarts, failed opens and retries (RollingKeepsNewest;
\* FileHandler::rollback).
THEOREM RollingLosesOldest == Spec => []RollingKeepsNewest
<1>1. RollInv => RollingKeepsNewest
  BY DEF RollInv, KeepInv, Keeps, RollingKeepsNewest
<1> QED  BY <1>1, RollingInvariant, PTL

\* No file outgrows limit_size, but, with stuff_up, by a record for each restart, failure
\* and return to an earlier day (SizeLimit; OpenFileDevice).
THEOREM FilesRespectLimit == Spec => []SizeLimit
<1>1. RollInv => SizeLimit
  BY DEF RollInv, SizeInv, SizesFit, SizeLimit
<1> QED  BY <1>1, RollingInvariant, PTL
=============================================================================
