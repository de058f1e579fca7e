--------------------------- MODULE LogStreamProofs ---------------------------
(***************************************************************************)
(* Proofs about LogStream, for any number of threads and channels, any     *)
(* capacity, any lengths and any filters.                                  *)
(***************************************************************************)
EXTENDS LogStream, SequenceTheorems, TLAPS

Cells ==
  [by : Producers, n : Nat, pri : Priorities, cat : Categories, len : Nat,
   ready : BOOLEAN, copy : BOOLEAN, wanted : SUBSET Nat, stale : BOOLEAN, heard : BOOLEAN]

Calls ==
  [pc : {"hold", "write", "transmit", "copy", "push"}, n : Nat, chl : Channels,
   pri : Priorities, cat : Categories, wanted : SUBSET Nat, stale : BOOLEAN]

TypeOK ==
  /\ logger_state \in {"RUNNING", "CLOSING"}
  /\ channel_state \in [Channels -> {"RUNNING", "WAITING_FINISH"}]
  /\ config \in Configuration
  /\ queue \in [Channels -> Seq(Cells)]
  /\ call \in [Producers -> {Idle} \cup Calls]
  /\ calls \in Nat

\* The cells of channel c that thread p has not pushed yet.
Mine(p, c) == {k \in DOMAIN queue[c] : queue[c][k].by = p /\ ~queue[c][k].ready}

\* Thread p is between HoldChannel and PushChannel in channel c.
InHand(p, c) ==
  \/ call[p].pc \in {"write", "transmit", "copy", "push"} /\ call[p].chl = c
  \/ call[p].pc = "copy" /\ c = Target

\* Thread p has left its cell in channel c unready, for the channel was stopped.
Abandoned(p, c) == ~Running(c) /\ call[p].pc \in {"idle", "push"}

\* Every thread has the one cell it is at work on, or both the original and its copy,
\* and no other but those that a stop made it abandon.
Holding ==
  \A p \in Producers :
    /\ call[p].pc \in {"transmit", "copy"} => call[p].chl # Target
    /\ \A c \in Channels :
         /\ InHand(p, c) => Mine(p, c) # {}
         /\ \A k \in Mine(p, c) :
              /\ InHand(p, c) \/ Abandoned(p, c)
              /\ InHand(p, c) => queue[c][k].n = call[p].n
              /\ InHand(p, c) => (queue[c][k].copy <=> c # call[p].chl)
              /\ \A j \in Mine(p, c) : j = k

\* A channel is stopped only when the filters are closed.
ClosedFirst == \A c \in Channels : ~Running(c) => logger_state = "CLOSING"

\* A record whose filters did not change passes them, and who wants it is known.
Passes(c, r) == ~r.stale => ~Filtered(c, r.pri, r.cat) /\ r.wanted = Wanted(c, r.pri, r.cat)
Fresh ==
  /\ \A c \in Channels : \A k \in DOMAIN queue[c] : Passes(c, queue[c][k])
  /\ \A p \in Producers :
       /\ At(p, "hold") => Passes(call[p].chl, call[p])
       /\ At(p, "transmit") => Passes(Target, call[p])

\* Record n has reached the devices of the target, or it lies ready in its queue.
Transmitted(n) ==
  \/ n \in delivered
  \/ \E j \in DOMAIN queue[Target] :
       queue[Target][j].copy /\ queue[Target][j].ready /\ queue[Target][j].n = n

\* The hook ran once, in the channel of the call, and the push waits for it, but for a
\* copy that a stop of the target prevents.
Heard ==
  \A c \in Channels : \A k \in DOMAIN queue[c] :
    LET r == queue[c][k] IN
    /\ r.heard => ~r.copy
    /\ ~r.ready /\ At(r.by, "write") => ~r.heard
    /\ r.heard /\ (r.ready \/ At(r.by, "push")) => Transmitted(r.n) \/ ~Running(Target)

\* All devices keep their place.
SameDevices ==
  \A other \in Configs : \A c \in Channels : Len(other[c].devices) = Len(config[c].devices)

Inv ==
  /\ TypeOK
  /\ SameDevices
  /\ Holding
  /\ ClosedFirst
  /\ ContentFits
  /\ Fresh
  /\ FiltersAgree
  /\ Heard
----------------------------------------------------------------------------
(* What the steps do to the queues                                         *)

\* One cell is written; one is added behind the others; the first is taken; all
\* are marked stale.
Rewrites(c, k, r) ==
  /\ \A x \in Channels : DOMAIN queue'[x] = DOMAIN queue[x]
  /\ \A x \in Channels : \A j \in DOMAIN queue[x] :
       queue'[x][j] = IF x = c /\ j = k THEN r ELSE queue[x][j]

Adds(c, r) ==
  /\ \A x \in Channels : x # c => queue'[x] = queue[x]
  /\ DOMAIN queue'[c] = DOMAIN queue[c] \cup {Len(queue[c]) + 1}
  /\ \A j \in DOMAIN queue[c] : queue'[c][j] = queue[c][j]
  /\ Len(queue[c]) + 1 \notin DOMAIN queue[c]
  /\ queue'[c][Len(queue[c]) + 1] = r

Takes(c) ==
  /\ \A x \in Channels : x # c => queue'[x] = queue[x]
  /\ 1 \in DOMAIN queue[c] /\ queue[c][1] = Head(queue[c])
  /\ DOMAIN queue'[c] = {j \in Nat : j + 1 \in DOMAIN queue[c] /\ j # 0}
  /\ \A j \in DOMAIN queue'[c] : queue'[c][j] = queue[c][j + 1]

Stales ==
  /\ \A x \in Channels : DOMAIN queue'[x] = DOMAIN queue[x]
  /\ \A x \in Channels : \A j \in DOMAIN queue[x] : queue'[x][j] = Staled(queue[x][j])

\* Writing cell k of a sequence.
LEMMA CellExcept ==
  ASSUME NEW S, NEW s \in Seq(S), NEW k \in DOMAIN s, NEW r \in S
  PROVE  /\ [s EXCEPT ![k] = r] \in Seq(S)
         /\ DOMAIN [s EXCEPT ![k] = r] = DOMAIN s
         /\ \A j \in DOMAIN s : [s EXCEPT ![k] = r][j] = IF j = k THEN r ELSE s[j]
  BY ExceptSeq

\* A queue in which one cell is written.
LEMMA RewriteCell ==
  ASSUME TypeOK, NEW c \in Channels, NEW k \in DOMAIN queue[c], NEW r \in Cells,
         queue' = [queue EXCEPT ![c] = [queue[c] EXCEPT ![k] = r]]
  PROVE  queue' \in [Channels -> Seq(Cells)] /\ Rewrites(c, k, r)
<1>1. queue \in [Channels -> Seq(Cells)] /\ queue[c] \in Seq(Cells)  BY DEF TypeOK
<1>2. PICK s : s = [queue[c] EXCEPT ![k] = r]  OBVIOUS
<1>3. /\ s \in Seq(Cells) /\ DOMAIN s = DOMAIN queue[c]
      /\ \A j \in DOMAIN queue[c] : s[j] = IF j = k THEN r ELSE queue[c][j]
  BY <1>1, <1>2, CellExcept
<1>4. queue' = [queue EXCEPT ![c] = s]  BY <1>2
<1> QED  BY <1>1, <1>3, <1>4 DEF Rewrites

\* HoldChannel adds one.
LEMMA AddCell ==
  ASSUME TypeOK, NEW c \in Channels, NEW r \in Cells,
         queue' = [queue EXCEPT ![c] = Append(@, r)]
  PROVE  queue' \in [Channels -> Seq(Cells)] /\ Adds(c, r)
<1>1. queue \in [Channels -> Seq(Cells)] /\ queue[c] \in Seq(Cells)  BY DEF TypeOK
<1>2. PICK s : s = Append(queue[c], r)  OBVIOUS
<1>3. /\ s \in Seq(Cells) /\ Len(s) = Len(queue[c]) + 1
      /\ \A j \in 1 .. Len(queue[c]) : s[j] = queue[c][j]
      /\ s[Len(queue[c]) + 1] = r
  BY <1>1, <1>2, AppendProperties
<1>4. DOMAIN s = 1 .. Len(queue[c]) + 1 /\ DOMAIN queue[c] = 1 .. Len(queue[c])
      /\ Len(queue[c]) \in Nat
  BY <1>1, <1>3, LenProperties
<1>5. queue' = [queue EXCEPT ![c] = s]  BY <1>2
<1> QED  BY <1>1, <1>3, <1>4, <1>5 DEF Adds

\* Dispatch takes the first.
LEMMA TakeCell ==
  ASSUME TypeOK, NEW c \in Channels, queue[c] # <<>>,
         queue' = [queue EXCEPT ![c] = Tail(@)]
  PROVE  queue' \in [Channels -> Seq(Cells)] /\ Takes(c)
<1>1. queue \in [Channels -> Seq(Cells)] /\ queue[c] \in Seq(Cells)  BY DEF TypeOK
<1>2. PICK s : s = Tail(queue[c])  OBVIOUS
<1>3. /\ s \in Seq(Cells) /\ Len(s) = Len(queue[c]) - 1
      /\ \A j \in 1 .. Len(s) : s[j] = queue[c][j + 1]
  BY <1>1, <1>2, HeadTailProperties
<1>4. DOMAIN s = 1 .. Len(s) /\ DOMAIN queue[c] = 1 .. Len(queue[c])
      /\ Len(queue[c]) \in Nat /\ Len(queue[c]) # 0
  <2>1. DOMAIN s = 1 .. Len(s)  BY <1>3, LenProperties
  <2>2. DOMAIN queue[c] = 1 .. Len(queue[c]) /\ Len(queue[c]) \in Nat  BY <1>1, LenProperties
  <2>3. Len(queue[c]) # 0  BY <1>1, EmptySeq
  <2> QED  BY <2>1, <2>2, <2>3
<1>5. queue' = [queue EXCEPT ![c] = s]  BY <1>2
<1>6. queue[c][1] = Head(queue[c])  BY <1>1
<1> QED  BY <1>1, <1>3, <1>4, <1>5, <1>6 DEF Takes

\* Configure marks all.
LEMMA StaleCells ==
  ASSUME TypeOK,
         queue' = [q \in Channels |-> [k \in DOMAIN queue[q] |-> Staled(queue[q][k])]]
  PROVE  queue' \in [Channels -> Seq(Cells)] /\ Stales
<1>1. queue \in [Channels -> Seq(Cells)]  BY DEF TypeOK
<1>2. \A q \in Channels : \A k \in DOMAIN queue[q] :
        queue[q][k] \in Cells /\ Staled(queue[q][k]) \in Cells
  <2> SUFFICES ASSUME NEW q \in Channels, NEW k \in DOMAIN queue[q]
               PROVE  queue[q][k] \in Cells /\ Staled(queue[q][k]) \in Cells
    OBVIOUS
  <2>1. queue[q] \in Seq(Cells)  BY <1>1
  <2>2. queue[q][k] \in Cells  BY <2>1, ElementOfSeq, LenProperties
  <2> QED  BY <2>2 DEF Staled, Cells
<1>3. \A q \in Channels : DOMAIN queue[q] = 1 .. Len(queue[q]) /\ Len(queue[q]) \in Nat
  BY <1>1, LenProperties
<1>4. ASSUME NEW q \in Channels
      PROVE  [k \in DOMAIN queue[q] |-> Staled(queue[q][k])] \in Seq(Cells)
  <2>1. [k \in DOMAIN queue[q] |-> Staled(queue[q][k])] \in [1 .. Len(queue[q]) -> Cells]
    BY <1>2, <1>3
  <2> QED  BY <2>1, <1>3, SeqDef
<1> QED  BY <1>1, <1>4 DEF Stales
----------------------------------------------------------------------------
(* What the steps of a log call do                                         *)

LEMMA CellTyped == TypeOK => \A c \in Channels : \A k \in DOMAIN queue[c] : queue[c][k] \in Cells
<1> SUFFICES ASSUME TypeOK, NEW c \in Channels, NEW k \in DOMAIN queue[c]
             PROVE  queue[c][k] \in Cells
  OBVIOUS
<1>1. queue[c] \in Seq(Cells)  BY DEF TypeOK
<1> QED  BY <1>1, ElementOfSeq, LenProperties

LEMMA CallTyped ==
  ASSUME TypeOK, NEW p \in Producers, ~At(p, "idle")
  PROVE  call[p] \in Calls
BY DEF TypeOK, At, Idle, Calls

\* Whatever one operation writes, the record stays within its slot.
LEMMA StreamFits ==
  ASSUME NEW len \in Nat, len <= LOG_SIZE,
         NEW l \in Text(len) \cup Number(len) \cup Align(len) \cup Format(len)
  PROVE  l \in Nat /\ l <= LOG_SIZE
<1> USE LogStreamAssumption
<1>1. CASE l \in Text(len)
  <2>1. PICK n \in 1 .. LOG_SIZE + 1 : l = len + Smaller(n, LOG_SIZE - len)
    BY <1>1 DEF Text
  <2> QED  BY <2>1 DEF Smaller
<1>2. CASE l \in Number(len)  BY <1>2 DEF Number
<1>3. CASE l \in Align(len)   BY <1>3 DEF Align, Larger
<1>4. CASE l \in Format(len)
  <2>1. CASE len = Prefix
    <3>1. PICK n \in 0 .. LOG_SIZE :
            l = len + (IF n >= LOG_SIZE - len THEN LOG_SIZE - len - 1 ELSE n)
      BY <1>4, <2>1 DEF Format
    <3> QED  BY <2>1, <3>1
  <2>2. CASE len # Prefix  BY <1>4, <2>2 DEF Format
  <2> QED  BY <2>1, <2>2
<1> QED  BY <1>1, <1>2, <1>3, <1>4

LEMMA WantedTyped ==
  ASSUME TypeOK, NEW c \in Channels, NEW pri, NEW cat
  PROVE  Wanted(c, pri, cat) \in SUBSET Nat
<1>1. config[c].devices \in Seq(Device)  BY DEF TypeOK, Configuration
<1>2. DOMAIN config[c].devices = 1 .. Len(config[c].devices)  BY <1>1, LenProperties
<1> QED  BY <1>2 DEF Wanted

\* The one cell that thread p has in channel c, and the record it is at work on.
OwnCell(p, c, k) ==
  /\ c \in Channels /\ k \in DOMAIN queue[c] /\ queue[c][k] \in Cells
  /\ queue[c][k].by = p /\ ~queue[c][k].ready
  /\ queue[c][k].n = call[p].n
  /\ queue[c][k].copy <=> c # call[p].chl
  /\ \A j \in DOMAIN queue[c] : queue[c][j].by = p /\ ~queue[c][j].ready => j = k

\* What is written leaves alone whose cell it is.
Keeps(r, s) == r.by = s.by /\ r.n = s.n /\ r.copy = s.copy
SameRecord(r, s) ==
  r.pri = s.pri /\ r.cat = s.cat /\ r.wanted = s.wanted /\ r.stale = s.stale

\* The cell a thread is at work on is there, and is the only one of its kind.
LEMMA HeldCell ==
  ASSUME TypeOK, Holding, NEW p \in Producers, NEW c \in Channels, InHand(p, c)
  PROVE  Held(p, c) \in Nat /\ OwnCell(p, c, Held(p, c))
<1>1. PICK k \in DOMAIN queue[c] : queue[c][k].by = p /\ ~queue[c][k].ready
  BY DEF Holding, Mine
<1>2. Held(p, c) \in Mine(p, c)  BY <1>1 DEF Held, Mine
<1>3. queue[c][Held(p, c)] \in Cells  BY <1>2, CellTyped DEF Mine
<1>4. Held(p, c) \in Nat
  <2>1. queue[c] \in Seq(Cells)  BY DEF TypeOK
  <2>2. DOMAIN queue[c] = 1 .. Len(queue[c])  BY <2>1, LenProperties
  <2> QED  BY <1>2, <2>2 DEF Mine
<1> QED  BY <1>2, <1>3, <1>4 DEF Holding, Mine, OwnCell

\* A stream operation leaves a length that fits.
LEMMA WriteEffect ==
  ASSUME TypeOK, Holding, ContentFits, NEW p \in Producers, Write(p)
  PROVE  \E c \in Channels, k \in Nat, r \in Cells :
           /\ c = call[p].chl /\ OwnCell(p, c, k)
           /\ queue' \in [Channels -> Seq(Cells)] /\ Rewrites(c, k, r)
           /\ Keeps(r, queue[c][k]) /\ SameRecord(r, queue[c][k])
           /\ ~r.ready /\ r.heard = queue[c][k].heard /\ r.len <= LOG_SIZE
<1>1. PICK c \in Channels : c = call[p].chl /\ InHand(p, c)
  BY CallTyped DEF Write, At, InHand, Calls
<1>2. PICK k \in Nat : k = Held(p, c) /\ OwnCell(p, c, k)  BY <1>1, HeldCell
<1>3. PICK s \in Cells : s = queue[c][k] /\ s.len <= LOG_SIZE
  BY <1>2 DEF OwnCell, ContentFits
<1>4. PICK l \in Text(s.len) \cup Number(s.len) \cup Align(s.len) \cup Format(s.len) :
        queue' = [queue EXCEPT ![c][k].len = l]
  BY <1>1, <1>2, <1>3 DEF Write, Record
<1>5. s.len \in Nat  BY DEF Cells
<1>6. l \in Nat /\ l <= LOG_SIZE  BY <1>3, <1>4, <1>5, StreamFits
<1>7. PICK r : r = [s EXCEPT !.len = l]  OBVIOUS
<1>8. queue' = [queue EXCEPT ![c] = [queue[c] EXCEPT ![k] = r]]  BY <1>3, <1>4, <1>7
<1>9. r \in Cells  BY <1>6, <1>7 DEF Cells
<1>10. queue' \in [Channels -> Seq(Cells)] /\ Rewrites(c, k, r)
  BY <1>2, <1>8, <1>9, RewriteCell DEF OwnCell
<1>11. Keeps(r, s) /\ SameRecord(r, s) /\ r.ready = s.ready /\ r.heard = s.heard /\ r.len = l
  BY <1>7 DEF Cells, Keeps, SameRecord
<1>12. /\ Keeps(r, queue[c][k]) /\ SameRecord(r, queue[c][k])
       /\ ~r.ready /\ r.heard = queue[c][k].heard /\ r.len <= LOG_SIZE
  BY <1>2, <1>3, <1>6, <1>11 DEF OwnCell
<1>13. QED  BY <1>1, <1>2, <1>9, <1>10, <1>12

LEMMA SetCategoryEffect ==
  ASSUME TypeOK, Holding, NEW p \in Producers, SetCategory(p)
  PROVE  \E c \in Channels, k \in Nat, r \in Cells :
           /\ c = call[p].chl /\ OwnCell(p, c, k)
           /\ queue' \in [Channels -> Seq(Cells)] /\ Rewrites(c, k, r)
           /\ Keeps(r, queue[c][k]) /\ r.stale
           /\ ~r.ready /\ r.heard = queue[c][k].heard /\ r.len = queue[c][k].len
<1>1. PICK c \in Channels : c = call[p].chl /\ InHand(p, c)
  BY CallTyped DEF SetCategory, At, InHand, Calls
<1>2. PICK k \in Nat : k = Held(p, c) /\ OwnCell(p, c, k)  BY <1>1, HeldCell
<1>3. PICK s \in Cells : s = queue[c][k]  BY <1>2 DEF OwnCell
<1>4. PICK cat \in Categories :
        queue' = [queue EXCEPT ![c][k].cat = cat, ![c][k].stale = TRUE, ![c][k].wanted = {}]
  BY <1>1, <1>2 DEF SetCategory
<1>5. PICK r : r = [s EXCEPT !.cat = cat, !.stale = TRUE, !.wanted = {}]  OBVIOUS
<1>6. queue \in [Channels -> Seq(Cells)]  BY DEF TypeOK
<1>7. queue' = [queue EXCEPT ![c] = [queue[c] EXCEPT ![k] = r]]
  BY <1>2, <1>3, <1>4, <1>5, <1>6 DEF OwnCell
<1>8. r \in Cells  BY <1>5 DEF Cells
<1>9. queue' \in [Channels -> Seq(Cells)] /\ Rewrites(c, k, r)
  BY <1>2, <1>7, <1>8, RewriteCell DEF OwnCell
<1>10. Keeps(r, s) /\ r.stale /\ r.ready = s.ready /\ r.heard = s.heard /\ r.len = s.len
  BY <1>5 DEF Cells, Keeps
<1>11. /\ Keeps(r, queue[c][k]) /\ r.stale
       /\ ~r.ready /\ r.heard = queue[c][k].heard /\ r.len = queue[c][k].len
  BY <1>2, <1>3, <1>10 DEF OwnCell
<1>12. QED  BY <1>1, <1>2, <1>8, <1>9, <1>11

\* What a call takes along to the target: the record of cell r.
TakesAlong(t, p, c, r) ==
  /\ t.pc = "transmit" /\ t.n = call[p].n /\ t.chl = c
  /\ t.pri = r.pri /\ t.cat = r.cat
  /\ t.wanted = Wanted(Target, r.pri, r.cat) /\ ~t.stale

\* The hook leaves its trace in the cell, and the call takes the record along; or
\* the record is not for the hook.
LEMMA DestroyEffect ==
  ASSUME TypeOK, Holding, NEW p \in Producers, Destroy(p)
  PROVE  \E c \in Channels, k \in Nat :
           /\ c = call[p].chl /\ OwnCell(p, c, k)
           /\ \/ /\ Transmits(c, queue[c][k])
                 /\ \E t \in Calls :
                      call' = [call EXCEPT ![p] = t] /\ TakesAlong(t, p, c, queue[c][k])
                 /\ \E r \in Cells :
                      /\ queue' \in [Channels -> Seq(Cells)] /\ Rewrites(c, k, r)
                      /\ Keeps(r, queue[c][k]) /\ SameRecord(r, queue[c][k])
                      /\ ~r.ready /\ r.len = queue[c][k].len
              \/ UNCHANGED queue /\ call' = [call EXCEPT ![p].pc = "push"]
<1>1. PICK c \in Channels : c = call[p].chl /\ InHand(p, c) /\ call[p] \in Calls
  BY CallTyped DEF Destroy, At, InHand, Calls
<1>2. PICK k \in Nat : k = Held(p, c) /\ OwnCell(p, c, k)  BY <1>1, HeldCell
<1>3. PICK s \in Cells : s = queue[c][k]  BY <1>2 DEF OwnCell
<1>4. CASE Transmits(c, s)
  <2>1. queue' = [queue EXCEPT ![c][k].heard = TRUE]
    BY <1>1, <1>2, <1>3, <1>4 DEF Destroy, Record
  <2>2. PICK r : r = [s EXCEPT !.heard = TRUE]  OBVIOUS
  <2>3. queue' = [queue EXCEPT ![c] = [queue[c] EXCEPT ![k] = r]]  BY <1>3, <2>1, <2>2
  <2>4. r \in Cells  BY <2>2 DEF Cells
  <2>5. queue' \in [Channels -> Seq(Cells)] /\ Rewrites(c, k, r)
    BY <1>2, <2>3, <2>4, RewriteCell DEF OwnCell
  <2>6. Keeps(r, s) /\ SameRecord(r, s) /\ r.ready = s.ready /\ r.len = s.len
    BY <2>2 DEF Cells, Keeps, SameRecord
  <2>7. Keeps(r, queue[c][k]) /\ SameRecord(r, queue[c][k]) /\ ~r.ready /\ r.len = queue[c][k].len
    BY <1>2, <1>3, <2>6 DEF OwnCell
  <2>8. PICK w \in SUBSET Nat : w = Wanted(Target, s.pri, s.cat)
    BY WantedTyped, LogStreamAssumption
  <2>9. call' = [call EXCEPT ![p].pc = "transmit", ![p].pri = s.pri, ![p].cat = s.cat,
                   ![p].wanted = w, ![p].stale = FALSE]
    BY <1>1, <1>2, <1>3, <1>4, <2>8 DEF Destroy, Record
  <2>10. PICK u \in Calls : u = call[p]  BY <1>1
  <2>11. PICK t : t = [u EXCEPT !.pc = "transmit", !.pri = s.pri, !.cat = s.cat,
                         !.wanted = w, !.stale = FALSE]
    OBVIOUS
  <2>12. call' = [call EXCEPT ![p] = t]  BY <2>9, <2>10, <2>11 DEF TypeOK
  <2>13. t \in Calls  BY <2>8, <2>11 DEF Calls, Cells
  <2>14. /\ t.pc = "transmit" /\ t.n = u.n /\ t.chl = u.chl /\ t.pri = s.pri
         /\ t.cat = s.cat /\ t.wanted = w /\ ~t.stale
    BY <2>11 DEF Calls
  <2>15. TakesAlong(t, p, c, queue[c][k])
    BY <1>1, <1>3, <2>8, <2>10, <2>14 DEF TakesAlong
  <2>16. QED  BY <1>1, <1>2, <1>3, <1>4, <2>4, <2>5, <2>7, <2>12, <2>13, <2>15
<1>5. CASE ~Transmits(c, s)
  <2>1. UNCHANGED queue /\ call' = [call EXCEPT ![p].pc = "push"]
    BY <1>1, <1>2, <1>3, <1>5 DEF Destroy, Record
  <2> QED  BY <1>1, <1>2, <2>1
<1> QED  BY <1>4, <1>5

\* PushChannel on a cell in hand: the record is clipped and the cell is ready.
LEMMA ReadyEffect ==
  ASSUME TypeOK, Holding, NEW p \in Producers, NEW c \in Channels, InHand(p, c),
         NEW len \in Nat, Ready(c, Held(p, c), len)
  PROVE  \E k \in Nat, r \in Cells :
           /\ OwnCell(p, c, k)
           /\ queue' \in [Channels -> Seq(Cells)] /\ Rewrites(c, k, r)
           /\ Keeps(r, queue[c][k]) /\ SameRecord(r, queue[c][k])
           /\ r.ready /\ r.heard = queue[c][k].heard /\ r.len < LOG_SIZE
<1>1. PICK k \in Nat : k = Held(p, c) /\ OwnCell(p, c, k)  BY HeldCell
<1>2. PICK s \in Cells : s = queue[c][k]  BY <1>1 DEF OwnCell
<1>3. PICK l \in Nat : l = Pushed(len) /\ l < LOG_SIZE
  BY LogStreamAssumption DEF Pushed, Smaller
<1>4. queue' = [queue EXCEPT ![c][k].ready = TRUE, ![c][k].len = l]  BY <1>1, <1>3 DEF Ready
<1>5. PICK r : r = [s EXCEPT !.ready = TRUE, !.len = l]  OBVIOUS
<1>6. queue \in [Channels -> Seq(Cells)]  BY DEF TypeOK
<1>7. queue' = [queue EXCEPT ![c] = [queue[c] EXCEPT ![k] = r]]
  BY <1>1, <1>2, <1>4, <1>5, <1>6 DEF OwnCell
<1>8. r \in Cells  BY <1>5 DEF Cells
<1>9. queue' \in [Channels -> Seq(Cells)] /\ Rewrites(c, k, r)
  BY <1>1, <1>7, <1>8, RewriteCell DEF OwnCell
<1>10. Keeps(r, s) /\ SameRecord(r, s) /\ r.ready /\ r.heard = s.heard /\ r.len = l
  BY <1>5 DEF Cells, Keeps, SameRecord
<1>11. /\ Keeps(r, queue[c][k]) /\ SameRecord(r, queue[c][k])
       /\ r.ready /\ r.heard = queue[c][k].heard /\ r.len < LOG_SIZE
  BY <1>2, <1>3, <1>10
<1>12. QED  BY <1>1, <1>8, <1>9, <1>11

LEMMA TransmitPushEffect ==
  ASSUME TypeOK, Holding, NEW p \in Producers, TransmitPush(p)
  PROVE  \E k \in Nat, r \in Cells :
           /\ OwnCell(p, Target, k)
           /\ queue' \in [Channels -> Seq(Cells)] /\ Rewrites(Target, k, r)
           /\ Keeps(r, queue[Target][k]) /\ SameRecord(r, queue[Target][k])
           /\ r.ready /\ r.heard = queue[Target][k].heard /\ r.len < LOG_SIZE
<1>1. InHand(p, Target)  BY DEF TransmitPush, At, InHand
<1>2. queue[Target][Held(p, Target)].len \in Nat
  BY <1>1, HeldCell, LogStreamAssumption DEF OwnCell, Cells
<1>3. Ready(Target, Held(p, Target), queue[Target][Held(p, Target)].len)  BY DEF TransmitPush
<1> QED  BY <1>1, <1>2, <1>3, ReadyEffect, LogStreamAssumption

LEMMA PushEffect ==
  ASSUME TypeOK, Holding, NEW p \in Producers, PushChannel(p)
  PROVE  \E c \in Channels, k \in Nat, r \in Cells :
           /\ c = call[p].chl /\ OwnCell(p, c, k)
           /\ queue' \in [Channels -> Seq(Cells)] /\ Rewrites(c, k, r)
           /\ Keeps(r, queue[c][k]) /\ SameRecord(r, queue[c][k])
           /\ r.ready /\ r.heard = queue[c][k].heard /\ r.len < LOG_SIZE
<1> DEFINE c == call[p].chl
<1>1. call[p] \in Calls /\ c \in Channels /\ InHand(p, c)
  BY CallTyped DEF PushChannel, At, InHand, Calls
<1>2. queue[c][Held(p, c)].len \in Nat  BY <1>1, HeldCell DEF OwnCell, Cells
<1>3. Ready(c, Held(p, c), queue[c][Held(p, c)].len)  BY DEF PushChannel, Record
<1> QED  BY <1>1, <1>2, <1>3, ReadyEffect

LEMMA HoldEffect ==
  ASSUME TypeOK, NEW p \in Producers, HoldChannel(p)
  PROVE  /\ queue' \in [Channels -> Seq(Cells)]
         /\ call[p] \in Calls /\ call[p].chl \in Channels
         /\ Adds(call[p].chl, Cell(p, Prefix, FALSE))
<1>1. call[p] \in Calls /\ call[p].chl \in Channels
  BY CallTyped DEF HoldChannel, At, Calls
<1>2. Cell(p, Prefix, FALSE) \in Cells  BY <1>1, LogStreamAssumption DEF Cell, Cells, Calls
<1> QED  BY <1>1, <1>2, AddCell DEF HoldChannel

LEMMA TransmitHoldEffect ==
  ASSUME TypeOK, Holding, ContentFits, NEW p \in Producers, TransmitHold(p)
  PROVE  /\ queue' \in [Channels -> Seq(Cells)]
         /\ call[p] \in Calls
         /\ \E len \in Nat : len <= LOG_SIZE /\ Adds(Target, Cell(p, len, TRUE))
<1>1. PICK c \in Channels : c = call[p].chl /\ InHand(p, c) /\ call[p] \in Calls
  BY CallTyped DEF TransmitHold, At, InHand, Calls
<1>2. OwnCell(p, c, Held(p, c))  BY <1>1, HeldCell
<1>3. PICK len \in Nat : len = Record(p).len /\ len <= LOG_SIZE
  BY <1>1, <1>2 DEF Record, OwnCell, Cells, ContentFits
<1>4. Cell(p, len, TRUE) \in Cells  BY <1>1 DEF Cell, Cells, Calls
<1>5. queue' = [queue EXCEPT ![Target] = Append(@, Cell(p, len, TRUE))]
  BY <1>3 DEF TransmitHold
<1>6. queue' \in [Channels -> Seq(Cells)] /\ Adds(Target, Cell(p, len, TRUE))
  BY <1>4, <1>5, AddCell, LogStreamAssumption
<1> QED  BY <1>1, <1>3, <1>6
----------------------------------------------------------------------------
(* Types                                                                   *)

LEMMA MessageTyped ==
  /\ \A m \in Messages : m[1] \in Priorities /\ m[2] \in Categories
  /\ Priorities \subseteq Nat /\ Categories \subseteq Nat
BY LogStreamAssumption DEF Priorities, Categories

\* One field of a channel's filter, or of a device, is stored.
LEMMA ConfigStep ==
  ASSUME config \in Configuration, SameDevices, NEW c \in Channels, NEW other \in Configs,
         SetChannelConfig(c, other) \/ SetDeviceConfig(c, other)
  PROVE  config' \in Configuration /\ SameDevices'
<1>1. other \in Configuration  BY LogStreamAssumption
<1>2. /\ config[c].filter \in ChannelFilter /\ other[c].filter \in ChannelFilter
      /\ config[c].devices \in Seq(Device) /\ other[c].devices \in Seq(Device)
      /\ config[c] \in [filter : ChannelFilter, devices : Seq(Device), virtual : Nat]
  BY <1>1 DEF Configuration
<1>3. CASE SetChannelConfig(c, other)
  <2>1. PICK f \in DOMAIN config[c].filter :
          config' = [config EXCEPT ![c].filter[f] = other[c].filter[f]]
    BY <1>3 DEF SetChannelConfig
  <2>2. [config[c].filter EXCEPT ![f] = other[c].filter[f]] \in ChannelFilter
    BY <1>2 DEF ChannelFilter
  <2>3. PICK g \in ChannelFilter : g = [config[c].filter EXCEPT ![f] = other[c].filter[f]]
    BY <2>2
  <2>4. config' = [config EXCEPT ![c] = [config[c] EXCEPT !.filter = g]]  BY <2>1, <2>3
  <2>5. config' \in Configuration  BY <1>2, <2>4 DEF Configuration
  <2>6. \A x \in Channels : config'[x].devices = config[x].devices
    BY <1>2, <2>4 DEF Configuration
  <2> QED  BY <2>5, <2>6 DEF SameDevices
<1>4. CASE SetDeviceConfig(c, other)
  <2>1. PICK d \in DOMAIN config[c].devices, f \in {"able", "pri", "begin", "count", "mask"} :
          config' = [config EXCEPT ![c].devices[d][f] = other[c].devices[d][f]]
    BY <1>4 DEF SetDeviceConfig
  <2>2. config[c].devices[d] \in Device /\ other[c].devices[d] \in Device
    <3>1. DOMAIN config[c].devices = 1 .. Len(config[c].devices)  BY <1>2, LenProperties
    <3>2. d \in 1 .. Len(other[c].devices)  BY <3>1 DEF SameDevices
    <3> QED  BY <1>2, <3>1, <3>2, ElementOfSeq
  <2>3. PICK g : g = [config[c].devices[d] EXCEPT ![f] = other[c].devices[d][f]]  OBVIOUS
  <2>4. g \in Device  BY <2>2, <2>3 DEF Device
  <2>5. PICK s : s = [config[c].devices EXCEPT ![d] = g]  OBVIOUS
  <2>6. s \in Seq(Device) /\ Len(s) = Len(config[c].devices)
    BY <1>2, <2>4, <2>5, ExceptSeq, LenProperties
  <2>7. config' = [config EXCEPT ![c] = [config[c] EXCEPT !.devices = s]]
    BY <2>1, <2>3, <2>5
  <2>8. config' \in Configuration  BY <1>2, <2>6, <2>7 DEF Configuration
  <2>9. \A x \in Channels : Len(config'[x].devices) = Len(config[x].devices)
    BY <1>2, <2>6, <2>7 DEF Configuration
  <2> QED  BY <2>8, <2>9 DEF SameDevices
<1> QED  BY <1>3, <1>4

LEMMA TypeStep ==
  ASSUME Inv, [Next]_vars
  PROVE  TypeOK' /\ SameDevices'
<1> USE DEF Inv, states
<1> DEFINE Same == UNCHANGED config
<1>0. ASSUME Same PROVE config' \in Configuration /\ SameDevices'
  BY <1>0 DEF TypeOK, SameDevices
<1>1. ASSUME NEW p \in Producers, Log(p) PROVE TypeOK' /\ SameDevices'
  <2>1. calls' \in Nat /\ UNCHANGED <<logger_state, channel_state, config, queue>>
    BY <1>1 DEF Log, TypeOK
  <2>2. PICK c \in Channels, m \in Messages :
          \/ UNCHANGED call
          \/ call' = [call EXCEPT ![p] =
               [pc |-> "hold", n |-> calls', chl |-> c, pri |-> m[1], cat |-> m[2],
                wanted |-> Wanted(c, m[1], m[2]), stale |-> FALSE]]
    BY <1>1 DEF Log
  <2>3. [pc |-> "hold", n |-> calls', chl |-> c, pri |-> m[1], cat |-> m[2],
         wanted |-> Wanted(c, m[1], m[2]), stale |-> FALSE] \in Calls
    BY <2>1, WantedTyped, MessageTyped DEF Calls
  <2> HIDE DEF Inv
  <2>4. call' \in [Producers -> {Idle} \cup Calls]
    BY <2>2, <2>3 DEF Inv, TypeOK
  <2> QED  BY <1>0, <2>1, <2>4 DEF Inv, TypeOK
<1>2. ASSUME NEW p \in Producers, HoldChannel(p) PROVE TypeOK' /\ SameDevices'
  <2>1. queue' \in [Channels -> Seq(Cells)] /\ call[p] \in Calls  BY <1>2, HoldEffect
  <2>2. call' \in [Producers -> {Idle} \cup Calls]
    BY <1>2, <2>1 DEF HoldChannel, TypeOK, Calls
  <2> QED  BY <1>0, <1>2, <2>1, <2>2 DEF HoldChannel, TypeOK
<1>3. ASSUME NEW p \in Producers, Write(p) PROVE TypeOK' /\ SameDevices'
  <2>1. queue' \in [Channels -> Seq(Cells)]  BY <1>3, WriteEffect
  <2> QED  BY <1>0, <1>3, <2>1 DEF Write, TypeOK
<1>4. ASSUME NEW p \in Producers, SetCategory(p) PROVE TypeOK' /\ SameDevices'
  <2>1. queue' \in [Channels -> Seq(Cells)]  BY <1>4, SetCategoryEffect
  <2> QED  BY <1>0, <1>4, <2>1 DEF SetCategory, TypeOK
<1>5. ASSUME NEW p \in Producers, Destroy(p) PROVE TypeOK' /\ SameDevices'
  <2>1. queue' \in [Channels -> Seq(Cells)]  BY <1>5, DestroyEffect DEF TypeOK
  <2>2. call[p] \in Calls  BY <1>5, CallTyped DEF Destroy, At
  <2>3. \/ \E t \in Calls : call' = [call EXCEPT ![p] = t]
        \/ call' = [call EXCEPT ![p].pc = "push"]
    BY <1>5, DestroyEffect
  <2>4. [call EXCEPT ![p].pc = "push"] \in [Producers -> {Idle} \cup Calls]
    BY <2>2 DEF TypeOK, Calls
  <2>5. call' \in [Producers -> {Idle} \cup Calls]  BY <2>3, <2>4 DEF TypeOK
  <2> QED  BY <1>0, <1>5, <2>1, <2>5 DEF Destroy, TypeOK
<1>6. ASSUME NEW p \in Producers, TransmitHold(p) PROVE TypeOK' /\ SameDevices'
  <2>1. queue' \in [Channels -> Seq(Cells)] /\ call[p] \in Calls
    BY <1>6, TransmitHoldEffect
  <2>2. call' \in [Producers -> {Idle} \cup Calls]
    BY <1>6, <2>1 DEF TransmitHold, TypeOK, Calls
  <2> QED  BY <1>0, <1>6, <2>1, <2>2 DEF TransmitHold, TypeOK
<1>7. ASSUME NEW p \in Producers, TransmitPush(p) PROVE TypeOK' /\ SameDevices'
  <2>1. queue' \in [Channels -> Seq(Cells)]  BY <1>7, TransmitPushEffect
  <2>2. call[p] \in Calls  BY <1>7, CallTyped DEF TransmitPush, At
  <2>3. call' \in [Producers -> {Idle} \cup Calls]
    BY <1>7, <2>2 DEF TransmitPush, TypeOK, Calls
  <2> QED  BY <1>0, <1>7, <2>1, <2>3 DEF TransmitPush, TypeOK
<1>8. ASSUME NEW p \in Producers, PushChannel(p) PROVE TypeOK' /\ SameDevices'
  <2>1. queue' \in [Channels -> Seq(Cells)]  BY <1>8, PushEffect
  <2>2. call' \in [Producers -> {Idle} \cup Calls]  BY <1>8 DEF PushChannel, TypeOK
  <2> QED  BY <1>0, <1>8, <2>1, <2>2 DEF PushChannel, TypeOK
<1>9. ASSUME NEW c \in Channels, Dispatch(c) PROVE TypeOK' /\ SameDevices'
  <2>1. queue' \in [Channels -> Seq(Cells)]  BY <1>9, TakeCell DEF Dispatch
  <2> QED  BY <1>0, <1>9, <2>1 DEF Dispatch, TypeOK
<1>10. ASSUME NEW c \in Channels, Configure(c) PROVE TypeOK' /\ SameDevices'
  <2>1. config' \in Configuration /\ SameDevices'
    BY <1>10, ConfigStep DEF Configure, TypeOK
  <2>2. queue' \in [Channels -> Seq(Cells)]  BY <1>10, StaleCells DEF Configure
  <2>3. \A p \in Producers : ~At(p, "idle") => Staled(call[p]) \in Calls
    BY CallTyped DEF Staled, Calls
  <2>4. call' \in [Producers -> {Idle} \cup Calls]  BY <1>10, <2>3 DEF Configure
  <2> QED  BY <1>10, <2>1, <2>2, <2>4 DEF Configure, TypeOK
<1>11. ASSUME NEW p \in Producers, HoldStopped(p) \/ PushStopped(p)
       PROVE  TypeOK' /\ SameDevices'
  <2>1. call' \in [Producers -> {Idle} \cup Calls]
    BY <1>11 DEF HoldStopped, PushStopped, TypeOK
  <2> QED  BY <1>0, <1>11, <2>1 DEF HoldStopped, PushStopped, TypeOK
<1>12. ASSUME NEW p \in Producers, TransmitStopped(p) PROVE TypeOK' /\ SameDevices'
  <2>1. call[p] \in Calls  BY <1>12, CallTyped DEF TransmitStopped, At
  <2>2. call' \in [Producers -> {Idle} \cup Calls]
    BY <1>12, <2>1 DEF TransmitStopped, TypeOK, Calls
  <2> QED  BY <1>0, <1>12, <2>2 DEF TransmitStopped, TypeOK
<1>13. ASSUME StopLogger PROVE TypeOK' /\ SameDevices'
  BY <1>0, <1>13 DEF StopLogger, TypeOK
<1>14. ASSUME NEW c \in Channels, StopChannel(c) PROVE TypeOK' /\ SameDevices'
  BY <1>0, <1>14 DEF StopChannel, TypeOK
<1>15. ASSUME UNCHANGED vars PROVE TypeOK' /\ SameDevices'
  BY <1>0, <1>15 DEF vars, TypeOK
<1> QED
  BY <1>1, <1>2, <1>3, <1>4, <1>5, <1>6, <1>7, <1>8, <1>9, <1>10, <1>11, <1>12, <1>13,
     <1>14, <1>15
     DEF Next, Step

\* A channel that is stopped stays so, and is stopped only behind closed filters.
LEMMA StoppedStays ==
  ASSUME Inv, [Next]_vars
  PROVE  ClosedFirst' /\ \A c \in Channels : ~Running(c) => ~Running(c)'
<1>1. CASE StopLogger  BY <1>1 DEF StopLogger, Running, Inv, ClosedFirst
<1>2. ASSUME NEW c \in Channels, StopChannel(c)
      PROVE  ClosedFirst' /\ \A x \in Channels : ~Running(x) => ~Running(x)'
  BY <1>2 DEF StopChannel, Running, Inv, TypeOK, ClosedFirst
<1>3. CASE UNCHANGED states  BY <1>3 DEF states, Running, Inv, ClosedFirst
<1>4. ASSUME NEW p \in Producers, Log(p) \/ Write(p) \/ SetCategory(p) \/ Step(p)
      PROVE  UNCHANGED states
  BY <1>4 DEF Log, Write, SetCategory, Step, HoldChannel, Destroy, TransmitHold, TransmitPush,
              PushChannel, HoldStopped, TransmitStopped, PushStopped
<1>5. ASSUME NEW c \in Channels, Dispatch(c) \/ Configure(c) PROVE UNCHANGED states
  BY <1>5 DEF Dispatch, Configure
<1> QED  BY <1>1, <1>2, <1>3, <1>4, <1>5 DEF Next, vars
----------------------------------------------------------------------------
(* Lengths                                                                 *)

LEMMA FitsStep ==
  ASSUME Inv, [Next]_vars
  PROVE  ContentFits'
<1> USE LogStreamAssumption
<1>1. ASSUME UNCHANGED queue PROVE ContentFits'  BY <1>1 DEF Inv, ContentFits
<1>2. ASSUME NEW c \in Channels, NEW k, NEW r, Rewrites(c, k, r),
             r.len <= LOG_SIZE, r.ready => r.len < LOG_SIZE
      PROVE  ContentFits'
  BY <1>2 DEF Inv, ContentFits, Rewrites
<1>3. ASSUME NEW c \in Channels, NEW r, Adds(c, r), r.len <= LOG_SIZE, ~r.ready
      PROVE  ContentFits'
  BY <1>3 DEF Inv, ContentFits, Adds
<1>4. \A r \in Cells : r.len < LOG_SIZE => r.len <= LOG_SIZE  BY DEF Cells
<1>5. ASSUME NEW p \in Producers, Write(p) PROVE ContentFits'
  BY <1>2, <1>5, WriteEffect DEF Inv
<1>6. ASSUME NEW p \in Producers, SetCategory(p) PROVE ContentFits'
  <2>1. PICK c \in Channels, k \in Nat, r \in Cells :
          OwnCell(p, c, k) /\ Rewrites(c, k, r) /\ ~r.ready /\ r.len = queue[c][k].len
    BY <1>6, SetCategoryEffect DEF Inv
  <2>2. r.len <= LOG_SIZE  BY <2>1 DEF Inv, ContentFits, OwnCell
  <2> QED  BY <1>2, <2>1, <2>2
<1>7. ASSUME NEW p \in Producers, Destroy(p) PROVE ContentFits'
  <2>1. CASE UNCHANGED queue  BY <1>1, <2>1
  <2>2. CASE queue' # queue
    <3>1. PICK c \in Channels, k \in Nat, r \in Cells :
            OwnCell(p, c, k) /\ Rewrites(c, k, r) /\ ~r.ready /\ r.len = queue[c][k].len
      BY <1>7, <2>2, DestroyEffect DEF Inv
    <3>2. r.len <= LOG_SIZE  BY <3>1 DEF Inv, ContentFits, OwnCell
    <3> QED  BY <1>2, <3>1, <3>2
  <2> QED  BY <2>1, <2>2
<1>8. ASSUME NEW p \in Producers, HoldChannel(p) PROVE ContentFits'
  <2>1. Cell(p, Prefix, FALSE).len <= LOG_SIZE /\ ~Cell(p, Prefix, FALSE).ready
    BY DEF Cell
  <2> QED  BY <1>3, <1>8, <2>1, HoldEffect DEF Inv
<1>9. ASSUME NEW p \in Producers, TransmitHold(p) PROVE ContentFits'
  <2>1. PICK len \in Nat : len <= LOG_SIZE /\ Adds(Target, Cell(p, len, TRUE))
    BY <1>9, TransmitHoldEffect DEF Inv
  <2>2. Cell(p, len, TRUE).len <= LOG_SIZE /\ ~Cell(p, len, TRUE).ready  BY <2>1 DEF Cell
  <2> QED  BY <1>3, <2>1, <2>2
<1>10. ASSUME NEW p \in Producers, TransmitPush(p) PROVE ContentFits'
  BY <1>2, <1>4, <1>10, TransmitPushEffect DEF Inv
<1>11. ASSUME NEW p \in Producers, PushChannel(p) PROVE ContentFits'
  BY <1>2, <1>4, <1>11, PushEffect DEF Inv
<1>12. ASSUME NEW c \in Channels, Dispatch(c) PROVE ContentFits'
  <2>1. Takes(c)  BY <1>12, TakeCell DEF Inv, Dispatch
  <2> QED  BY <2>1 DEF Inv, ContentFits, Takes
<1>13. ASSUME NEW c \in Channels, Configure(c) PROVE ContentFits'
  <2>1. Stales  BY <1>13, StaleCells DEF Inv, Configure
  <2>2. \A s \in Cells : Staled(s).len = s.len /\ Staled(s).ready = s.ready
    BY DEF Staled, Cells
  <2> QED  BY <2>1, <2>2, CellTyped DEF Inv, ContentFits, Stales
<1> QED
  BY <1>1, <1>5, <1>6, <1>7, <1>8, <1>9, <1>10, <1>11, <1>12, <1>13
     DEF Next, Step, Log, HoldStopped, TransmitStopped, PushStopped, StopLogger, StopChannel, vars
----------------------------------------------------------------------------
(* One cell for each thread at work                                        *)

\* What the proof looks at: whose the unready cells are, and where each call is.
SameCells ==
  /\ \A x \in Channels : DOMAIN queue'[x] = DOMAIN queue[x]
  /\ \A x \in Channels : \A j \in DOMAIN queue[x] :
       Keeps(queue'[x][j], queue[x][j]) /\ (queue'[x][j].ready <=> queue[x][j].ready)

LEMMA HoldingKept ==
  ASSUME Holding, SameCells,
         \A q \in Producers :
           /\ \A x \in Channels : InHand(q, x)' =>
                InHand(q, x) /\ call'[q].n = call[q].n /\ call'[q].chl = call[q].chl
           /\ \A x \in Channels :
                InHand(q, x) \/ Abandoned(q, x) => InHand(q, x)' \/ Abandoned(q, x)'
           /\ call'[q].pc \in {"transmit", "copy"} => call'[q].chl # Target
  PROVE  Holding'
<1>1. \A q \in Producers : \A x \in Channels : Mine(q, x)' = Mine(q, x)
  BY DEF SameCells, Mine, Keeps
<1>2. \A x \in Channels : \A j \in DOMAIN queue[x] :
        queue'[x][j].n = queue[x][j].n /\ queue'[x][j].copy = queue[x][j].copy
  BY DEF SameCells, Keeps
<1>3. ASSUME NEW q \in Producers, NEW x \in Channels, NEW k \in Mine(q, x)
      PROVE  /\ InHand(q, x)' \/ Abandoned(q, x)'
             /\ InHand(q, x)' => queue'[x][k].n = call'[q].n
             /\ InHand(q, x)' => (queue'[x][k].copy <=> x # call'[q].chl)
             /\ \A j \in Mine(q, x) : j = k
  BY <1>2 DEF Holding, Mine
<1> QED  BY <1>1, <1>3 DEF Holding

LEMMA RewriteKeepsCells ==
  ASSUME NEW c \in Channels, NEW k, NEW r, Rewrites(c, k, r), Keeps(r, queue[c][k]),
         r.ready <=> queue[c][k].ready
  PROVE  SameCells
BY DEF SameCells, Rewrites, Keeps

LEMMA HoldingStep ==
  ASSUME Inv, [Next]_vars
  PROVE  Holding'
<1> DEFINE Held1(q, x) ==
             /\ InHand(q, x) => Mine(q, x) # {}
             /\ \A k \in Mine(q, x) :
                  /\ InHand(q, x) \/ Abandoned(q, x)
                  /\ InHand(q, x) => queue[x][k].n = call[q].n
                  /\ InHand(q, x) => (queue[x][k].copy <=> x # call[q].chl)
                  /\ \A j \in Mine(q, x) : j = k
<1>0. /\ \A q \in Producers : call[q].pc \in {"transmit", "copy"} => call[q].chl # Target
      /\ \A q \in Producers : \A x \in Channels : Held1(q, x)
  BY DEF Inv, Holding
\* Cells and calls stay; a channel may be stopped.
<1>1. ASSUME UNCHANGED <<queue, call>> PROVE Holding'
  <2>1. \A q \in Producers : \A x \in Channels :
          Mine(q, x)' = Mine(q, x) /\ (InHand(q, x)' <=> InHand(q, x))
    BY <1>1 DEF Mine, InHand
  <2>2. \A q \in Producers : \A x \in Channels : Abandoned(q, x) => Abandoned(q, x)'
    BY <1>1, StoppedStays DEF Abandoned
  <2> QED  BY <1>0, <1>1, <2>1, <2>2 DEF Holding
\* A thread whose call does not move.
<1>13. ASSUME NEW q \in Producers, call'[q] = call[q], NEW x \in Channels
       PROVE  (InHand(q, x)' <=> InHand(q, x)) /\ (Abandoned(q, x) => Abandoned(q, x)')
  BY <1>13, StoppedStays DEF InHand, Abandoned
\* A call begins: its thread has nothing in hand before and after, and has abandoned
\* nothing, for no channel has been stopped.
<1>2. ASSUME NEW p \in Producers, Log(p) PROVE Holding'
  <2>1. CASE UNCHANGED call  BY <1>1, <1>2, <2>1 DEF Log
  <2>2. CASE call' # call
    <3>1. PICK t : call' = [call EXCEPT ![p] = t] /\ t.pc = "hold"
      <4>1. PICK c \in Channels, m \in Messages :
              call' = [call EXCEPT ![p] =
                [pc |-> "hold", n |-> calls', chl |-> c, pri |-> m[1], cat |-> m[2],
                 wanted |-> Wanted(c, m[1], m[2]), stale |-> FALSE]]
        BY <1>2, <2>2 DEF Log
      <4>2. PICK t : t = [pc |-> "hold", n |-> calls', chl |-> c, pri |-> m[1], cat |-> m[2],
                          wanted |-> Wanted(c, m[1], m[2]), stale |-> FALSE]
        OBVIOUS
      <4>3. t.pc = "hold"  BY <4>2
      <4> QED  BY <4>1, <4>2, <4>3
    <3>2. /\ call'[p].pc = "hold" /\ call[p].pc = "idle"
          /\ \A q \in Producers : q # p => call'[q] = call[q]
      BY <1>2, <3>1 DEF Log, At, Inv, TypeOK
    <3>3. UNCHANGED queue  BY <1>2 DEF Log
    <3>4. \A x \in Channels : ~InHand(p, x) /\ ~InHand(p, x)'  BY <3>2 DEF InHand
    <3>8. logger_state = "RUNNING"  BY <1>2, <2>2 DEF Log, BlockInput, Open
    <3>9. \A x \in Channels : ~Abandoned(p, x)  BY <3>8 DEF Abandoned, Inv, ClosedFirst
    <3>5. \A q \in Producers : \A x \in Channels : Mine(q, x)' = Mine(q, x)
      BY <3>3 DEF Mine
    <3>6. \A x \in Channels : Mine(p, x) = {}  BY <1>0, <3>4, <3>9
    <3>7. \A q \in Producers : \A x \in Channels : Held1(q, x)'
      BY <1>0, <1>13, <3>2, <3>3, <3>4, <3>5, <3>6
    <3>10. \A q \in Producers : call'[q].pc \in {"transmit", "copy"} => call'[q].chl # Target
      BY <1>0, <3>2
    <3> QED  BY <3>7, <3>10 DEF Holding
  <2> QED  BY <2>1, <2>2
\* What the thread does to its record changes neither whose it is nor that it is held.
<1>3. ASSUME NEW p \in Producers, Write(p) \/ SetCategory(p) PROVE Holding'
  <2>1. PICK c \in Channels, k \in Nat, r \in Cells :
          OwnCell(p, c, k) /\ Rewrites(c, k, r) /\ Keeps(r, queue[c][k]) /\ ~r.ready
    BY <1>3, WriteEffect, SetCategoryEffect DEF Inv
  <2>2. SameCells  BY <2>1, RewriteKeepsCells DEF OwnCell
  <2>3. UNCHANGED call  BY <1>3 DEF Write, SetCategory
  <2> QED  BY <1>0, <1>13, <2>2, <2>3, HoldingKept DEF Inv
<1>4. ASSUME NEW p \in Producers, Destroy(p) PROVE Holding'
  <2>1. call[p] \in Calls /\ call[p].pc = "write"  BY <1>4, CallTyped DEF Destroy, At, Inv
  <2>2. PICK c \in Channels, k \in Nat :
          /\ c = call[p].chl /\ OwnCell(p, c, k)
          /\ \/ /\ Transmits(c, queue[c][k])
                /\ \E t \in Calls :
                     call' = [call EXCEPT ![p] = t] /\ TakesAlong(t, p, c, queue[c][k])
                /\ \E r \in Cells :
                     Rewrites(c, k, r) /\ Keeps(r, queue[c][k]) /\ ~r.ready
             \/ UNCHANGED queue /\ call' = [call EXCEPT ![p].pc = "push"]
    BY <1>4, DestroyEffect DEF Inv
  <2>3. SameCells
    <3>1. CASE UNCHANGED queue  BY <3>1 DEF SameCells, Keeps
    <3>2. CASE queue' # queue
      BY <2>2, <3>2, RewriteKeepsCells DEF OwnCell
    <3> QED  BY <3>1, <3>2
  <2>4. /\ \A q \in Producers : q # p => call'[q] = call[q]
        /\ call'[p].n = call[p].n /\ call'[p].chl = c
        /\ call'[p].pc \in {"transmit", "push"}
        /\ call'[p].pc = "transmit" => c # Target
    BY <2>1, <2>2 DEF TakesAlong, Transmits, Inv, TypeOK, Calls
  <2>5. \A x \in Channels : (InHand(p, x)' <=> InHand(p, x)) /\ ~Abandoned(p, x)
    BY <2>1, <2>2, <2>4 DEF InHand, Abandoned
  <2>6. \A q \in Producers : call'[q].pc \in {"transmit", "copy"} => call'[q].chl # Target
    BY <1>0, <2>4
  <2>7. call'[p].n = call[p].n /\ call'[p].chl = call[p].chl
    BY <2>2, <2>4
  <2> QED  BY <1>13, <2>3, <2>4, <2>5, <2>6, <2>7, HoldingKept DEF Inv
\* A new cell belongs to the thread that asked for it.
<1>5. ASSUME NEW p \in Producers, NEW c \in Channels, NEW r, Adds(c, r),
             r.by = p, ~r.ready, r.n = call[p].n, r.copy <=> c # call[p].chl,
             ~InHand(p, c), NEW where \in {"write", "copy"}, call[p] \in Calls,
             call[p].pc \in {"hold", "transmit"},
             call' = [call EXCEPT ![p].pc = where],
             \A x \in Channels : InHand(p, x)' <=> InHand(p, x) \/ x = c,
             where = "copy" => call[p].chl # Target
      PROVE  Holding'
  <2>1. /\ \A q \in Producers : q # p => call'[q] = call[q]
        /\ call'[p].n = call[p].n /\ call'[p].chl = call[p].chl /\ call'[p].pc = where
    BY <1>5 DEF Inv, TypeOK, Calls
  <2>2. \A q \in Producers : \A x \in Channels :
          Mine(q, x)' = IF q = p /\ x = c THEN Mine(q, x) \cup {Len(queue[c]) + 1} ELSE Mine(q, x)
    BY <1>5 DEF Adds, Mine
  <2>9. \A x \in Channels : ~Abandoned(p, x)  BY <1>5 DEF Abandoned
  <2>3. Mine(p, c) = {}  BY <1>0, <1>5, <2>9
  <2>4. \A q \in Producers : q # p => \A x \in Channels :
          (InHand(q, x)' <=> InHand(q, x)) /\ (Abandoned(q, x) => Abandoned(q, x)')
    BY <1>13, <2>1
  <2>5. \A q \in Producers : call'[q].pc \in {"transmit", "copy"} => call'[q].chl # Target
    BY <1>0, <1>5, <2>1
  <2>6. \A x \in Channels : \A j \in DOMAIN queue[x] : queue'[x][j] = queue[x][j]
    BY <1>5 DEF Adds
  <2>7. ASSUME NEW q \in Producers, NEW x \in Channels, q # p \/ x # c
        PROVE  Held1(q, x)'
    <3>1. /\ Mine(q, x)' = Mine(q, x) /\ (InHand(q, x)' <=> InHand(q, x))
          /\ Abandoned(q, x) => Abandoned(q, x)'
      BY <1>5, <2>2, <2>4, <2>7, <2>9
    <3>2. \A k \in Mine(q, x) : queue'[x][k] = queue[x][k]  BY <2>6 DEF Mine
    <3>3. call'[q].n = call[q].n /\ call'[q].chl = call[q].chl  BY <2>1
    <3> QED  BY <1>0, <3>1, <3>2, <3>3
  <2>8. /\ InHand(p, c)' /\ Mine(p, c)' = {Len(queue[c]) + 1}
        /\ queue'[c][Len(queue[c]) + 1] = r
    BY <1>5, <2>2, <2>3 DEF Adds
  <2>10. Held1(p, c)'  BY <1>5, <2>1, <2>8
  <2> QED  BY <2>5, <2>7, <2>10 DEF Holding
<1>6. ASSUME NEW p \in Producers, HoldChannel(p) PROVE Holding'
  <2> DEFINE c == call[p].chl
  <2>1. call[p] \in Calls /\ c \in Channels /\ Adds(c, Cell(p, Prefix, FALSE))
    BY <1>6, HoldEffect DEF Inv
  <2>2. /\ call[p].pc = "hold" /\ call' = [call EXCEPT ![p].pc = "write"]
        /\ call'[p].pc = "write" /\ call'[p].chl = c
    BY <1>6, <2>1 DEF HoldChannel, At, Inv, TypeOK, Calls
  <2>3. \A x \in Channels : ~InHand(p, x) /\ (InHand(p, x)' <=> x = c)  BY <2>2 DEF InHand
  <2>4. LET r == Cell(p, Prefix, FALSE) IN
        r.by = p /\ ~r.ready /\ r.n = call[p].n /\ ~r.copy
    BY DEF Cell
  <2> QED  BY <1>5, <2>1, <2>2, <2>3, <2>4
<1>7. ASSUME NEW p \in Producers, TransmitHold(p) PROVE Holding'
  <2>1. PICK len \in Nat : call[p] \in Calls /\ Adds(Target, Cell(p, len, TRUE))
    BY <1>7, TransmitHoldEffect DEF Inv
  <2>2. /\ call[p].pc = "transmit" /\ call' = [call EXCEPT ![p].pc = "copy"]
        /\ call'[p].pc = "copy" /\ call'[p].chl = call[p].chl
    BY <1>7, <2>1 DEF TransmitHold, At, Inv, TypeOK, Calls
  <2>3. call[p].chl # Target  BY <1>0, <2>2
  <2>4. \A x \in Channels : InHand(p, x)' <=> InHand(p, x) \/ x = Target
    BY <2>2 DEF InHand
  <2>5. ~InHand(p, Target)  BY <2>2, <2>3 DEF InHand
  <2>6. LET r == Cell(p, len, TRUE) IN
        r.by = p /\ ~r.ready /\ r.n = call[p].n /\ r.copy
    BY DEF Cell
  <2> QED  BY <1>5, <2>1, <2>2, <2>3, <2>4, <2>5, <2>6, LogStreamAssumption
\* A pushed cell is nobody's.
<1>8. ASSUME NEW p \in Producers, NEW c \in Channels, NEW k \in Nat, NEW r,
             OwnCell(p, c, k), Rewrites(c, k, r), Keeps(r, queue[c][k]), r.ready,
             \A q \in Producers : q # p => call'[q] = call[q],
             \A x \in Channels : InHand(p, x)' <=> InHand(p, x) /\ x # c,
             \/ call'[p] = Idle
             \/ /\ call'[p].n = call[p].n /\ call'[p].chl = call[p].chl
                /\ call'[p].pc = "push"
      PROVE  Holding'
  <2>1. \A q \in Producers : \A x \in Channels :
          Mine(q, x)' = IF q = p /\ x = c THEN {} ELSE Mine(q, x)
    <3>1. Mine(p, c) = {k} /\ k \notin Mine(p, c)'  BY <1>8 DEF OwnCell, Mine, Rewrites
    <3>2. Mine(p, c)' \subseteq Mine(p, c)  BY <1>8 DEF Mine, Rewrites, Keeps
    <3>3. ASSUME NEW q \in Producers, NEW x \in Channels, q # p \/ x # c
          PROVE  Mine(q, x)' = Mine(q, x)
      BY <1>8, <3>3 DEF OwnCell, Mine, Rewrites, Keeps
    <3> QED  BY <3>1, <3>2, <3>3
  <2>2. \A q \in Producers : q # p => \A x \in Channels :
          (InHand(q, x)' <=> InHand(q, x)) /\ (Abandoned(q, x) => Abandoned(q, x)')
    BY <1>8, <1>13
  <2>6. \A x \in Channels : Abandoned(p, x) => Abandoned(p, x)'
    BY <1>8, StoppedStays DEF Abandoned, Idle
  <2>3. \A x \in Channels : \A j \in DOMAIN queue[x] :
          queue'[x][j].n = queue[x][j].n /\ queue'[x][j].copy = queue[x][j].copy
    BY <1>8 DEF Rewrites, Keeps
  <2>4. \A q \in Producers : call'[q].pc \in {"transmit", "copy"} => call'[q].chl # Target
    BY <1>0, <1>8 DEF Idle
  <2>5. ASSUME NEW q \in Producers, NEW x \in Channels
        PROVE  Held1(q, x)'
    <3>1. CASE q = p /\ x = c  BY <1>8, <2>1, <3>1
    <3>2. CASE q # p \/ x # c
      <4>1. /\ Mine(q, x)' = Mine(q, x) /\ (InHand(q, x)' <=> InHand(q, x))
            /\ Abandoned(q, x) => Abandoned(q, x)'
        BY <1>8, <2>1, <2>2, <2>6, <3>2
      <4>2. \A j \in Mine(q, x) :
              queue'[x][j].n = queue[x][j].n /\ queue'[x][j].copy = queue[x][j].copy
        BY <2>3 DEF Mine
      <4>3. InHand(q, x)' => call'[q].n = call[q].n /\ call'[q].chl = call[q].chl
        BY <1>8 DEF InHand, Idle
      <4> QED  BY <1>0, <4>1, <4>2, <4>3
    <3> QED  BY <3>1, <3>2
  <2> QED  BY <2>4, <2>5 DEF Holding
<1>9. ASSUME NEW p \in Producers, TransmitPush(p) PROVE Holding'
  <2>1. PICK k \in Nat, r \in Cells :
          OwnCell(p, Target, k) /\ Rewrites(Target, k, r) /\ Keeps(r, queue[Target][k]) /\ r.ready
    BY <1>9, TransmitPushEffect DEF Inv
  <2>2. call[p] \in Calls /\ call[p].pc = "copy"  BY <1>9, CallTyped DEF TransmitPush, At, Inv
  <2>3. /\ \A q \in Producers : q # p => call'[q] = call[q]
        /\ call'[p].n = call[p].n /\ call'[p].chl = call[p].chl /\ call'[p].pc = "push"
    BY <1>9, <2>2 DEF TransmitPush, Inv, TypeOK, Calls
  <2>4. call[p].chl # Target  BY <1>0, <2>2
  <2>5. \A x \in Channels : InHand(p, x)' <=> InHand(p, x) /\ x # Target
    BY <2>2, <2>3, <2>4 DEF InHand
  <2> QED  BY <1>8, <2>1, <2>3, <2>5, LogStreamAssumption
<1>10. ASSUME NEW p \in Producers, PushChannel(p) PROVE Holding'
  <2>1. PICK c \in Channels, k \in Nat, r \in Cells :
          /\ c = call[p].chl /\ OwnCell(p, c, k) /\ Rewrites(c, k, r)
          /\ Keeps(r, queue[c][k]) /\ r.ready
    BY <1>10, PushEffect DEF Inv
  <2>2. call[p].pc = "push"  BY <1>10 DEF PushChannel, At
  <2>3. (\A q \in Producers : q # p => call'[q] = call[q]) /\ call'[p] = Idle
    BY <1>10 DEF PushChannel, Inv, TypeOK
  <2>4. \A x \in Channels : InHand(p, x)' <=> InHand(p, x) /\ x # c
    BY <2>1, <2>2, <2>3 DEF InHand, Idle
  <2> QED  BY <1>8, <2>1, <2>3, <2>4
\* What is taken was ready; the others move up.
<1>11. ASSUME NEW c \in Channels, Dispatch(c) PROVE Holding'
  <2>1. Takes(c) /\ queue[c][1].ready /\ UNCHANGED call
    BY <1>11, TakeCell DEF Inv, Dispatch, Takes
  <2>2. \A x \in Channels : DOMAIN queue[x] \subseteq Nat \ {0}
    <3> SUFFICES ASSUME NEW x \in Channels PROVE DOMAIN queue[x] \subseteq Nat \ {0}
      OBVIOUS
    <3>1. queue[x] \in Seq(Cells)  BY DEF Inv, TypeOK
    <3> QED  BY <3>1, LenProperties
  <2>3. \A q \in Producers : \A x \in Channels :
          (InHand(q, x)' <=> InHand(q, x)) /\ (Abandoned(q, x) => Abandoned(q, x)')
    BY <1>13, <2>1
  <2>4. ASSUME NEW q \in Producers, NEW x \in Channels, x # c
        PROVE  Held1(q, x)'
    <3>1. Mine(q, x)' = Mine(q, x) /\ queue'[x] = queue[x]  BY <2>1, <2>4 DEF Takes, Mine
    <3> QED  BY <1>0, <2>1, <2>3, <3>1
  <2>5. ASSUME NEW q \in Producers
        PROVE  Mine(q, c)' = {j \in Nat : j + 1 \in Mine(q, c)}
    BY <2>1, <2>2 DEF Takes, Mine
  <2>6. \A q \in Producers : \A j \in Mine(q, c) : j \in Nat /\ j - 1 \in Nat /\ j = (j - 1) + 1
    BY <2>2 DEF Mine
  <2>7. \A q \in Producers : \A j \in Mine(q, c)' : j \in Nat /\ queue'[c][j] = queue[c][j + 1]
    BY <2>1 DEF Takes, Mine
  <2>8. ASSUME NEW q \in Producers PROVE Held1(q, c)'
    <3>1. InHand(q, c)' => Mine(q, c)' # {}
      BY <1>0, <2>3, <2>5, <2>6
    <3>2. ASSUME NEW j \in Mine(q, c)'
          PROVE  /\ InHand(q, c)' \/ Abandoned(q, c)'
                 /\ InHand(q, c)' => queue'[c][j].n = call'[q].n
                 /\ InHand(q, c)' => (queue'[c][j].copy <=> c # call'[q].chl)
      <4>1. j + 1 \in Mine(q, c) /\ queue'[c][j] = queue[c][j + 1]  BY <2>5, <2>7
      <4> QED  BY <1>0, <2>1, <2>3, <4>1
    <3>3. ASSUME NEW j \in Mine(q, c)', NEW i \in Mine(q, c)' PROVE i = j
      <4>1. j + 1 \in Mine(q, c) /\ i + 1 \in Mine(q, c) /\ i \in Nat /\ j \in Nat
        BY <2>5
      <4>2. i + 1 = j + 1  BY <1>0, <4>1
      <4> QED  BY <4>1, <4>2
    <3> QED  BY <3>1, <3>2, <3>3
  <2> QED  BY <1>0, <2>1, <2>4, <2>8 DEF Holding
<1>12. ASSUME NEW c \in Channels, Configure(c) PROVE Holding'
  <2>1. Stales  BY <1>12, StaleCells DEF Inv, Configure
  <2>2. \A s \in Cells : Keeps(Staled(s), s) /\ Staled(s).ready = s.ready
    BY DEF Staled, Cells, Keeps
  <2>3. SameCells  BY <2>1, <2>2, CellTyped DEF Inv, SameCells, Stales
  <2>4. ASSUME NEW q \in Producers
        PROVE  /\ call'[q].pc = call[q].pc /\ call'[q].n = call[q].n
               /\ call'[q].chl = call[q].chl
    <3>1. CASE At(q, "idle")
      <4>1. call[q] = Idle  BY <3>1 DEF Inv, TypeOK, At, Calls
      <4> QED  BY <1>12, <3>1, <4>1 DEF Configure
    <3>2. CASE ~At(q, "idle")
      <4>1. PICK u \in Calls : u = call[q]  BY <3>2, CallTyped DEF Inv
      <4>2. call'[q] = Staled(u)  BY <1>12, <3>2, <4>1 DEF Configure
      <4> QED  BY <4>1, <4>2 DEF Staled, Calls
    <3> QED  BY <3>1, <3>2
  <2>5. \A q \in Producers : \A x \in Channels :
          (InHand(q, x)' <=> InHand(q, x)) /\ (Abandoned(q, x) => Abandoned(q, x)')
    BY <2>4, StoppedStays DEF InHand, Abandoned
  <2>6. \A q \in Producers : call'[q].pc \in {"transmit", "copy"} => call'[q].chl # Target
    BY <1>0, <2>4
  <2> QED  BY <2>3, <2>4, <2>5, <2>6, HoldingKept DEF Inv
\* A call that gives up keeps nothing in hand that it had not; what it had is abandoned.
<1>14. ASSUME NEW p \in Producers, UNCHANGED queue, NEW t, call' = [call EXCEPT ![p] = t],
              t.pc \in {"idle", "push"},
              \A x \in Channels : InHand(p, x)' =>
                InHand(p, x) /\ t.n = call[p].n /\ t.chl = call[p].chl,
              \A x \in Channels : InHand(p, x) => InHand(p, x)' \/ ~Running(x)
       PROVE  Holding'
  <2>1. SameCells  BY <1>14 DEF SameCells, Keeps
  <2>2. call'[p] = t /\ \A q \in Producers : q # p => call'[q] = call[q]
    BY <1>14 DEF Inv, TypeOK
  <2>3. \A x \in Channels :
          InHand(p, x) \/ Abandoned(p, x) => InHand(p, x)' \/ Abandoned(p, x)'
    BY <1>14, <2>2, StoppedStays DEF Abandoned
  <2>4. \A q \in Producers : call'[q].pc \in {"transmit", "copy"} => call'[q].chl # Target
    BY <1>0, <1>14, <2>2
  <2> QED  BY <1>13, <1>14, <2>1, <2>2, <2>3, <2>4, HoldingKept DEF Inv
<1>15. ASSUME NEW p \in Producers, HoldStopped(p) PROVE Holding'
  <2>1. /\ call[p].pc = "hold" /\ call' = [call EXCEPT ![p] = Idle] /\ UNCHANGED queue
        /\ call'[p].pc = "idle" /\ Idle.pc = "idle"
    BY <1>15 DEF HoldStopped, At, Idle, Inv, TypeOK
  <2>2. \A x \in Channels : ~InHand(p, x) /\ ~InHand(p, x)'  BY <2>1 DEF InHand
  <2> QED  BY <1>14, <2>1, <2>2
<1>16. ASSUME NEW p \in Producers, PushStopped(p) PROVE Holding'
  <2>1. /\ call[p].pc = "push" /\ call' = [call EXCEPT ![p] = Idle] /\ UNCHANGED queue
        /\ call'[p].pc = "idle" /\ Idle.pc = "idle" /\ ~Running(call[p].chl)
    BY <1>16 DEF PushStopped, At, Idle, Inv, TypeOK
  <2>2. \A x \in Channels : (InHand(p, x) => x = call[p].chl) /\ ~InHand(p, x)'
    BY <2>1 DEF InHand
  <2> QED  BY <1>14, <2>1, <2>2
<1>17. ASSUME NEW p \in Producers, TransmitStopped(p) PROVE Holding'
  <2>1. PICK u \in Calls : u = call[p] /\ u.pc \in {"transmit", "copy"} /\ ~Running(Target)
    BY <1>17, CallTyped DEF TransmitStopped, At, Inv
  <2>2. PICK t : t = [u EXCEPT !.pc = "push"]  OBVIOUS
  <2>3. t.pc = "push" /\ t.n = u.n /\ t.chl = u.chl  BY <2>2 DEF Calls
  <2>4. call' = [call EXCEPT ![p] = t] /\ UNCHANGED queue
    BY <1>17, <2>1, <2>2 DEF TransmitStopped
  <2>5. call'[p] = t  BY <2>4 DEF Inv, TypeOK
  <2>6. \A x \in Channels :
          (InHand(p, x) => InHand(p, x)' \/ x = Target) /\ (InHand(p, x)' => InHand(p, x))
    BY <2>1, <2>3, <2>5 DEF InHand
  <2> QED  BY <1>14, <2>1, <2>3, <2>4, <2>6
<1> QED
  BY <1>1, <1>2, <1>3, <1>4, <1>6, <1>7, <1>9, <1>10, <1>11, <1>12, <1>15, <1>16, <1>17
     DEF Next, Step, StopLogger, StopChannel, vars
----------------------------------------------------------------------------
(* Filters                                                                 *)

\* What the filters of BlockInput let in, DispatchLog hands to exactly the devices that want it.
LEMMA DispatchAgrees ==
  ASSUME TypeOK, NEW c \in Channels, NEW r \in Cells, ~Filtered(c, r.pri, r.cat)
  PROVE  DispatchLog(c, r) = Wanted(c, r.pri, r.cat)
<1>1. r.pri \in Nat /\ r.cat \in Nat /\ r.pri \in Priorities /\ r.cat \in Categories
  BY MessageTyped DEF Cells
<1>2. config[c].filter \in ChannelFilter /\ config[c].devices \in Seq(Device)
  BY DEF TypeOK, Configuration
<1>3. \A d \in DOMAIN config[c].devices : config[c].devices[d] \in Device
  BY <1>2, LenProperties, ElementOfSeq
<1>4. ASSUME NEW f, f.begin \in Nat, f.count \in Nat, f.pri \in Nat
      PROVE  <<r.pri, r.cat>> \in Accepted(f)
               <=> r.pri >= f.pri /\ ~OutOfRange(f, r.cat) /\ ~Masked(f, r.cat)
  BY <1>1, <1>4 DEF Accepted, OutOfRange, Masked
<1>5. <<r.pri, r.cat>> \in Accepted(config[c].filter)
  BY <1>1, <1>2, <1>4 DEF Filtered, ChannelFilter
<1>6. \A d \in DOMAIN config[c].devices :
        <<r.pri, r.cat>> \in Accepted(config[c].devices[d])
          <=> /\ r.pri >= config[c].devices[d].pri
              /\ ~OutOfRange(config[c].devices[d], r.cat)
              /\ ~Masked(config[c].devices[d], r.cat)
  BY <1>3, <1>4 DEF Device
<1> QED  BY <1>5, <1>6 DEF DispatchLog, Wanted

\* What the filters of BlockInput turn away, nobody wants.
LEMMA BlockedUnwanted ==
  ASSUME TypeOK, NEW c \in Channels, NEW m \in Messages, Filtered(c, m[1], m[2])
  PROVE  Wanted(c, m[1], m[2]) = {}
<1>1. m[1] \in Nat /\ m[2] \in Nat  BY MessageTyped
<1>2. config[c].filter \in ChannelFilter /\ config[c].devices \in Seq(Device)
  BY DEF TypeOK, Configuration
<1>3. \A d \in DOMAIN config[c].devices : config[c].devices[d] \in Device
  BY <1>2, LenProperties, ElementOfSeq
<1>4. ASSUME NEW f, f.begin \in Nat, f.count \in Nat, f.pri \in Nat,
             <<m[1], m[2]>> \in Accepted(f)
      PROVE  m[1] >= f.pri /\ ~OutOfRange(f, m[2]) /\ ~Masked(f, m[2])
  BY <1>1, <1>4 DEF Accepted, OutOfRange, Masked
<1>5. CASE NeedWrite(c, m[1], m[2])
  <2>1. <<m[1], m[2]>> \notin Accepted(config[c].filter)
    BY <1>1, <1>2, <1>4, <1>5 DEF Filtered, ChannelFilter
  <2> QED  BY <2>1 DEF Wanted
<1>6. CASE ~NeedWrite(c, m[1], m[2])
  <2> SUFFICES ASSUME NEW d \in Wanted(c, m[1], m[2]) PROVE FALSE
    OBVIOUS
  <2>1. /\ d \in DOMAIN config[c].devices
        /\ config[c].devices[d].able /\ config[c].devices[d].in_null
        /\ <<m[1], m[2]>> \in Accepted(config[c].devices[d])
    BY DEF Wanted
  <2>2. /\ m[1] >= config[c].devices[d].pri
        /\ ~OutOfRange(config[c].devices[d], m[2]) /\ ~Masked(config[c].devices[d], m[2])
    BY <1>3, <1>4, <2>1 DEF Device
  <2> QED  BY <1>6, <2>1, <2>2 DEF NeedWrite
<1> QED  BY <1>5, <1>6

LEMMA AgreeStep ==
  ASSUME Inv, [Next]_vars
  PROVE  FiltersAgree'
<1>1. ASSUME NEW p \in Producers, Log(p) PROVE FiltersAgree'
  <2>1. PICK c \in Channels, m \in Messages :
          \/ Filtered(c, m[1], m[2]) /\ last' = Judged({}, Wanted(c, m[1], m[2]), FALSE)
          \/ last' = Judged({}, Wanted(c, m[1], m[2]), TRUE)
          \/ UNCHANGED last
    BY <1>1 DEF Log, BlockInput
  <2>2. Filtered(c, m[1], m[2]) => Wanted(c, m[1], m[2]) = {}
    BY BlockedUnwanted DEF Inv
  <2> QED  BY <2>1, <2>2 DEF Inv, FiltersAgree, Judged
<1>2. ASSUME NEW c \in Channels, Dispatch(c) PROVE FiltersAgree'
  <2>1. PICK r : r = Head(queue[c]) /\ last' = Judged(DispatchLog(c, r), r.wanted, r.stale)
    BY <1>2 DEF Dispatch
  <2>2. 1 \in DOMAIN queue[c] /\ queue[c][1] = r
    BY <1>2, <2>1, TakeCell DEF Inv, Dispatch, Takes
  <2>3. CASE r.stale  BY <2>1, <2>3 DEF Judged, Inv, FiltersAgree
  <2>4. CASE ~r.stale
    <3>1. ~Filtered(c, r.pri, r.cat) /\ r.wanted = Wanted(c, r.pri, r.cat)
      BY <2>2, <2>4 DEF Inv, Fresh, Passes
    <3>2. r \in Cells  BY <2>2, CellTyped DEF Inv
    <3> QED  BY <2>1, <2>4, <3>1, <3>2, DispatchAgrees DEF Inv, FiltersAgree, Judged
  <2> QED  BY <2>3, <2>4
<1>3. ASSUME UNCHANGED last PROVE FiltersAgree'  BY <1>3 DEF Inv, FiltersAgree
<1> QED
  BY <1>1, <1>2, <1>3
     DEF Next, Step, vars, HoldChannel, Write, SetCategory, Destroy, TransmitHold, TransmitPush,
         PushChannel, HoldStopped, TransmitStopped, PushStopped, StopLogger, StopChannel, Configure

\* Filters that nobody touches judge as before.
LEMMA PassesKept ==
  UNCHANGED config => \A c, r : Passes(c, r)' <=> Passes(c, r)
BY DEF Passes, Filtered, NeedWrite, OutOfRange, Masked, Wanted, Accepted

LEMMA FreshStep ==
  ASSUME Inv, [Next]_vars
  PROVE  Fresh'
<1> DEFINE FreshCells == \A x \in Channels : \A j \in DOMAIN queue[x] : Passes(x, queue[x][j])
           FreshCalls == \A q \in Producers :
                           /\ At(q, "hold") => Passes(call[q].chl, call[q])
                           /\ At(q, "transmit") => Passes(Target, call[q])
<1>1. FreshCells /\ FreshCalls  BY DEF Inv, Fresh
<1>2. FreshCells' /\ FreshCalls' => Fresh'  BY DEF Fresh
<1>3. ASSUME UNCHANGED <<queue, config>> PROVE FreshCells'  BY <1>1, <1>3, PassesKept
<1>4. ASSUME UNCHANGED <<call, config>> PROVE FreshCalls'  BY <1>1, <1>4, PassesKept DEF At
<1>5. ASSUME NEW c \in Channels, NEW k, NEW r, Rewrites(c, k, r), UNCHANGED config,
             k \in DOMAIN queue[c] => Passes(c, r)
      PROVE  FreshCells'
  BY <1>1, <1>5, PassesKept DEF Rewrites
<1>6. ASSUME NEW c \in Channels, NEW r, Adds(c, r), UNCHANGED config, Passes(c, r)
      PROVE  FreshCells'
  BY <1>1, <1>6, PassesKept DEF Adds
<1>7. ASSUME NEW p \in Producers, NEW t, call' = [call EXCEPT ![p] = t], UNCHANGED config,
             t.pc = "hold" => Passes(t.chl, t), t.pc = "transmit" => Passes(Target, t)
      PROVE  FreshCalls'
  <2>1. call'[p] = t /\ \A q \in Producers : q # p => call'[q] = call[q]
    BY <1>7 DEF Inv, TypeOK
  <2> QED  BY <1>1, <1>7, <2>1, PassesKept DEF At
<1>8. ASSUME NEW r, NEW s, SameRecord(r, s), NEW c, Passes(c, s) PROVE Passes(c, r)
  BY <1>8 DEF Passes, SameRecord
<1>9. ASSUME NEW p \in Producers, Log(p) PROVE Fresh'
  <2>1. UNCHANGED <<queue, config>>  BY <1>9 DEF Log
  <2>2. CASE UNCHANGED call  BY <1>2, <1>3, <1>4, <2>1, <2>2
  <2>3. CASE call' # call
    <3>1. PICK c \in Channels, m \in Messages :
            /\ ~BlockInput(c, m[1], m[2])
            /\ call' = [call EXCEPT ![p] =
                 [pc |-> "hold", n |-> calls', chl |-> c, pri |-> m[1], cat |-> m[2],
                  wanted |-> Wanted(c, m[1], m[2]), stale |-> FALSE]]
      BY <1>9, <2>3 DEF Log
    <3>2. PICK t : t = [pc |-> "hold", n |-> calls', chl |-> c, pri |-> m[1], cat |-> m[2],
                        wanted |-> Wanted(c, m[1], m[2]), stale |-> FALSE]
      OBVIOUS
    <3>3. /\ t.pc = "hold" /\ t.chl = c /\ t.pri = m[1] /\ t.cat = m[2]
          /\ t.wanted = Wanted(c, m[1], m[2])
      BY <3>2
    <3>4. Passes(t.chl, t)  BY <3>1, <3>3 DEF Passes, BlockInput
    <3>5. FreshCalls'  BY <1>7, <2>1, <3>1, <3>2, <3>3, <3>4
    <3> QED  BY <1>2, <1>3, <2>1, <3>5
  <2> QED  BY <2>2, <2>3
\* A call keeps what it knows while it moves on.
<1>10. ASSUME NEW p \in Producers, call[p] \in Calls, NEW where \in {"write", "copy", "push"},
              call' = [call EXCEPT ![p].pc = where], UNCHANGED config
       PROVE  FreshCalls'
  <2>1. PICK u \in Calls : u = call[p]  BY <1>10
  <2>2. PICK t : t = [u EXCEPT !.pc = where]  OBVIOUS
  <2>3. call' = [call EXCEPT ![p] = t]  BY <1>10, <2>1, <2>2
  <2>4. t.pc = where  BY <2>2 DEF Calls
  <2> QED  BY <1>7, <1>10, <2>3, <2>4
<1>11. ASSUME NEW p \in Producers, HoldChannel(p) PROVE Fresh'
  <2>1. /\ call[p] \in Calls /\ call[p].chl \in Channels
        /\ Adds(call[p].chl, Cell(p, Prefix, FALSE))
    BY <1>11, HoldEffect DEF Inv
  <2>2. SameRecord(Cell(p, Prefix, FALSE), call[p])  BY DEF Cell, SameRecord
  <2>3. Passes(call[p].chl, call[p])  BY <1>1, <1>11 DEF HoldChannel
  <2>4. Passes(call[p].chl, Cell(p, Prefix, FALSE))  BY <1>8, <2>2, <2>3
  <2>5. FreshCells'  BY <1>6, <1>11, <2>1, <2>4 DEF HoldChannel
  <2>6. FreshCalls'  BY <1>10, <1>11, <2>1 DEF HoldChannel
  <2> QED  BY <1>2, <2>5, <2>6
<1>12. ASSUME NEW p \in Producers, TransmitHold(p) PROVE Fresh'
  <2>1. PICK len \in Nat : call[p] \in Calls /\ Adds(Target, Cell(p, len, TRUE))
    BY <1>12, TransmitHoldEffect DEF Inv
  <2>2. SameRecord(Cell(p, len, TRUE), call[p])  BY DEF Cell, SameRecord
  <2>3. Passes(Target, call[p])  BY <1>1, <1>12 DEF TransmitHold
  <2>4. Passes(Target, Cell(p, len, TRUE))  BY <1>8, <2>2, <2>3
  <2>5. FreshCells'  BY <1>6, <1>12, <2>1, <2>4, LogStreamAssumption DEF TransmitHold
  <2>6. FreshCalls'  BY <1>10, <1>12, <2>1 DEF TransmitHold
  <2> QED  BY <1>2, <2>5, <2>6
<1>13. ASSUME NEW p \in Producers, Write(p) PROVE Fresh'
  <2>1. PICK c \in Channels, k \in Nat, r \in Cells :
          OwnCell(p, c, k) /\ Rewrites(c, k, r) /\ SameRecord(r, queue[c][k])
    BY <1>13, WriteEffect DEF Inv
  <2>2. UNCHANGED <<config, call>>  BY <1>13 DEF Write
  <2>3. Passes(c, r)  BY <1>1, <1>8, <2>1 DEF OwnCell
  <2> QED  BY <1>2, <1>4, <1>5, <2>1, <2>2, <2>3
<1>14. ASSUME NEW p \in Producers, SetCategory(p) PROVE Fresh'
  <2>1. PICK c \in Channels, k \in Nat, r \in Cells : Rewrites(c, k, r) /\ r.stale
    BY <1>14, SetCategoryEffect DEF Inv
  <2>2. UNCHANGED <<config, call>>  BY <1>14 DEF SetCategory
  <2>3. Passes(c, r)  BY <2>1 DEF Passes
  <2> QED  BY <1>2, <1>4, <1>5, <2>1, <2>2, <2>3
<1>15. ASSUME NEW p \in Producers, Destroy(p) PROVE Fresh'
  <2>1. call[p] \in Calls /\ UNCHANGED config
    BY <1>15, CallTyped DEF Destroy, At, Inv
  <2>2. CASE UNCHANGED queue /\ call' = [call EXCEPT ![p].pc = "push"]
    BY <1>2, <1>3, <1>10, <2>1, <2>2
  <2>3. CASE ~(UNCHANGED queue /\ call' = [call EXCEPT ![p].pc = "push"])
    <3>1. PICK c \in Channels, k \in Nat, t \in Calls, r \in Cells :
            /\ OwnCell(p, c, k) /\ Transmits(c, queue[c][k])
            /\ call' = [call EXCEPT ![p] = t] /\ TakesAlong(t, p, c, queue[c][k])
            /\ Rewrites(c, k, r) /\ SameRecord(r, queue[c][k])
      BY <1>15, <2>3, DestroyEffect DEF Inv
    <3>2. Passes(c, r)  BY <1>1, <1>8, <3>1 DEF OwnCell
    <3>3. Passes(Target, t) /\ t.pc = "transmit"
      BY <3>1 DEF Passes, TakesAlong, Transmits, BlockInput
    <3>4. FreshCells'  BY <1>5, <2>1, <3>1, <3>2
    <3>5. FreshCalls'  BY <1>7, <2>1, <3>1, <3>3
    <3> QED  BY <1>2, <3>4, <3>5
  <2> QED  BY <2>2, <2>3
<1>16. ASSUME NEW p \in Producers, TransmitPush(p) PROVE Fresh'
  <2>1. PICK k \in Nat, r \in Cells :
          OwnCell(p, Target, k) /\ Rewrites(Target, k, r) /\ SameRecord(r, queue[Target][k])
    BY <1>16, TransmitPushEffect DEF Inv
  <2>2. Passes(Target, r)  BY <1>1, <1>8, <2>1 DEF OwnCell
  <2>3. FreshCells'  BY <1>5, <1>16, <2>1, <2>2, LogStreamAssumption DEF TransmitPush
  <2>4. call[p] \in Calls  BY <1>16, CallTyped DEF TransmitPush, At, Inv
  <2>5. FreshCalls'  BY <1>10, <1>16, <2>4 DEF TransmitPush
  <2> QED  BY <1>2, <2>3, <2>5
<1>17. ASSUME NEW p \in Producers, PushChannel(p) PROVE Fresh'
  <2>1. PICK c \in Channels, k \in Nat, r \in Cells :
          OwnCell(p, c, k) /\ Rewrites(c, k, r) /\ SameRecord(r, queue[c][k])
    BY <1>17, PushEffect DEF Inv
  <2>2. Passes(c, r)  BY <1>1, <1>8, <2>1 DEF OwnCell
  <2>3. FreshCells'  BY <1>5, <1>17, <2>1, <2>2 DEF PushChannel
  <2>4. FreshCalls'  BY <1>7, <1>17 DEF PushChannel, Idle
  <2> QED  BY <1>2, <2>3, <2>4
<1>18. ASSUME NEW c \in Channels, Dispatch(c) PROVE Fresh'
  <2>1. Takes(c) /\ UNCHANGED <<call, config>>  BY <1>18, TakeCell DEF Inv, Dispatch
  <2>2. FreshCells'
    <3> SUFFICES ASSUME NEW x \in Channels, NEW j \in DOMAIN queue'[x]
                 PROVE  \A r : r = queue'[x][j] => Passes(x, r)
      BY <2>1, PassesKept
    <3>1. CASE x = c  BY <1>1, <2>1, <3>1 DEF Takes
    <3>2. CASE x # c  BY <1>1, <2>1, <3>2 DEF Takes
    <3> QED  BY <3>1, <3>2
  <2> QED  BY <1>2, <1>4, <2>1, <2>2
<1>19. ASSUME NEW c \in Channels, Configure(c) PROVE Fresh'
  <2>1. Stales  BY <1>19, StaleCells DEF Inv, Configure
  <2>2. \A s \in Cells \cup Calls : Staled(s).stale  BY DEF Staled, Cells, Calls
  <2>3. \A x \in Channels : \A j \in DOMAIN queue'[x] : queue'[x][j].stale
    BY <2>1, <2>2, CellTyped DEF Inv, Stales
  <2>4. \A q \in Producers : call'[q].pc # "idle" => call'[q].stale
    BY <1>19, <2>2, CallTyped DEF Inv, Configure, Idle
  <2> QED  BY <2>3, <2>4 DEF Fresh, Passes, At
<1>20. ASSUME UNCHANGED <<queue, call, config>> PROVE Fresh'
  BY <1>2, <1>3, <1>4, <1>20
<1>21. ASSUME NEW p \in Producers, HoldStopped(p) \/ PushStopped(p) PROVE Fresh'
  <2>1. UNCHANGED <<queue, config>> /\ call' = [call EXCEPT ![p] = Idle]
    BY <1>21 DEF HoldStopped, PushStopped
  <2>2. FreshCalls'  BY <1>7, <2>1 DEF Idle
  <2> QED  BY <1>2, <1>3, <2>1, <2>2
<1>22. ASSUME NEW p \in Producers, TransmitStopped(p) PROVE Fresh'
  <2>1. call[p] \in Calls  BY <1>22, CallTyped DEF TransmitStopped, At, Inv
  <2>2. FreshCalls'  BY <1>10, <1>22, <2>1 DEF TransmitStopped
  <2> QED  BY <1>2, <1>3, <1>22, <2>2 DEF TransmitStopped
<1> QED
  BY <1>9, <1>11, <1>12, <1>13, <1>14, <1>15, <1>16, <1>17, <1>18, <1>19, <1>20, <1>21, <1>22
     DEF Next, Step, StopLogger, StopChannel, vars
----------------------------------------------------------------------------
(* The copy and its original                                               *)

\* Record n has reached the target after the step.
Lands(n) ==
  \/ n \in delivered'
  \/ \E j \in DOMAIN queue'[Target] :
       queue'[Target][j].copy /\ queue'[Target][j].ready /\ queue'[Target][j].n = n

\* What has reached the target is not lost there.
LEMMA TransmittedKept ==
  ASSUME Inv, [Next]_vars, NEW n, Transmitted(n)
  PROVE  Lands(n)
<1>1. ASSUME UNCHANGED <<queue, delivered>> PROVE Lands(n)  BY <1>1 DEF Transmitted, Lands
<1>2. ASSUME NEW p \in Producers, NEW c \in Channels, NEW k \in Nat, OwnCell(p, c, k), NEW r,
             Rewrites(c, k, r), UNCHANGED delivered
      PROVE  Lands(n)
  BY <1>2, LogStreamAssumption DEF Transmitted, Lands, Rewrites, OwnCell
<1>3. ASSUME NEW c \in Channels, NEW r, Adds(c, r), UNCHANGED delivered PROVE Lands(n)
  BY <1>3, LogStreamAssumption DEF Transmitted, Lands, Adds
<1>4. ASSUME NEW p \in Producers, Destroy(p) PROVE Lands(n)
  <2>1. UNCHANGED delivered  BY <1>4 DEF Destroy
  <2>2. CASE UNCHANGED queue  BY <1>1, <2>1, <2>2
  <2>3. CASE queue' # queue  BY <1>2, <1>4, <2>1, <2>3, DestroyEffect DEF Inv
  <2> QED  BY <2>2, <2>3
<1>5. ASSUME NEW c \in Channels, Dispatch(c) PROVE Lands(n)
  <2>1. /\ Takes(c)
        /\ delivered' = IF queue[c][1].copy THEN delivered \cup {queue[c][1].n} ELSE delivered
    BY <1>5, TakeCell DEF Inv, Dispatch, Takes
  <2>2. CASE n \in delivered  BY <2>1, <2>2 DEF Transmitted, Lands
  <2>3. CASE n \notin delivered
    <3>1. PICK j \in DOMAIN queue[Target] :
            queue[Target][j].copy /\ queue[Target][j].ready /\ queue[Target][j].n = n
      BY <2>3 DEF Transmitted, Lands
    <3>2. CASE Target # c  BY <2>1, <3>1, <3>2, LogStreamAssumption DEF Takes, Transmitted, Lands
    <3>3. CASE Target = c /\ j = 1  BY <2>1, <3>1, <3>3 DEF Transmitted, Lands
    <3>4. CASE Target = c /\ j # 1
      <4>1. queue[c] \in Seq(Cells)  BY DEF Inv, TypeOK
      <4>2. j \in Nat /\ j - 1 \in Nat /\ j - 1 # 0  BY <3>1, <3>4, <4>1, LenProperties
      <4>3. j - 1 \in DOMAIN queue'[c] /\ queue'[c][j - 1] = queue[c][j]
        BY <2>1, <3>1, <3>4, <4>2 DEF Takes
      <4> QED  BY <3>1, <3>4, <4>3 DEF Transmitted, Lands
    <3> QED  BY <3>2, <3>3, <3>4
  <2> QED  BY <2>2, <2>3
<1>6. ASSUME NEW c \in Channels, Configure(c) PROVE Lands(n)
  <2>1. Stales /\ UNCHANGED delivered  BY <1>6, StaleCells DEF Inv, Configure
  <2>2. \A s \in Cells :
          Staled(s).copy = s.copy /\ Staled(s).ready = s.ready /\ Staled(s).n = s.n
    BY DEF Staled, Cells
  <2> QED  BY <2>1, <2>2, CellTyped, LogStreamAssumption DEF Inv, Stales, Transmitted, Lands
<1>7. ASSUME NEW p \in Producers, Write(p) \/ SetCategory(p) \/ PushChannel(p)
      PROVE  Lands(n)
  BY <1>2, <1>7, WriteEffect, SetCategoryEffect, PushEffect
     DEF Inv, Write, SetCategory, PushChannel
<1>8. ASSUME NEW p \in Producers, TransmitPush(p) PROVE Lands(n)
  BY <1>2, <1>8, TransmitPushEffect, LogStreamAssumption DEF Inv, TransmitPush
<1>9. ASSUME NEW p \in Producers, HoldChannel(p) PROVE Lands(n)
  BY <1>3, <1>9, HoldEffect DEF Inv, HoldChannel
<1>10. ASSUME NEW p \in Producers, TransmitHold(p) PROVE Lands(n)
  BY <1>3, <1>10, TransmitHoldEffect, LogStreamAssumption DEF Inv, TransmitHold
<1>11. ASSUME NEW p \in Producers, Log(p) PROVE Lands(n)  BY <1>1, <1>11 DEF Log
<1>12. ASSUME NEW p \in Producers, HoldStopped(p) \/ TransmitStopped(p) \/ PushStopped(p)
       PROVE  Lands(n)
  BY <1>1, <1>12 DEF HoldStopped, TransmitStopped, PushStopped
<1> QED
  BY <1>1, <1>4, <1>5, <1>6, <1>7, <1>8, <1>9, <1>10, <1>11, <1>12
     DEF Next, Step, StopLogger, StopChannel, vars

\* What Heard says of one cell.
HeardCell(r) ==
  /\ r.heard => ~r.copy
  /\ ~r.ready /\ At(r.by, "write") => ~r.heard
  /\ r.heard /\ (r.ready \/ At(r.by, "push")) => Transmitted(r.n) \/ ~Running(Target)

LEMMA HeardStep ==
  ASSUME Inv, [Next]_vars
  PROVE  Heard'
<1> DEFINE Safe(r) ==
             /\ r.heard => ~r.copy
             /\ ~r.ready /\ call'[r.by].pc = "write" => ~r.heard
             /\ r.heard /\ (r.ready \/ call'[r.by].pc = "push") =>
                  Lands(r.n) \/ ~Running(Target)'
<1>1. \A x \in Channels : \A j \in DOMAIN queue[x] : HeardCell(queue[x][j])
  BY DEF Inv, Heard, HeardCell
<1>2. ASSUME \A x \in Channels : \A j \in DOMAIN queue'[x] : Safe(queue'[x][j]) PROVE Heard'
  BY <1>2 DEF Heard, At, Transmitted, Lands
<1>0. ~Running(Target) => ~Running(Target)'  BY StoppedStays, LogStreamAssumption
\* A cell whose thread's call moved neither to write nor to push stays as it was.
<1>3. ASSUME NEW x \in Channels, NEW j \in DOMAIN queue[x],
             \/ call'[queue[x][j].by].pc = call[queue[x][j].by].pc
             \/ call'[queue[x][j].by].pc \notin {"write", "push"}
             \/ queue[x][j].ready
      PROVE  Safe(queue[x][j])
  BY <1>0, <1>1, <1>3, TransmittedKept DEF HeardCell, At
\* The cells of the other threads.
<1>4. ASSUME NEW p \in Producers, NEW t, call' = [call EXCEPT ![p] = t],
             NEW x \in Channels, NEW j \in DOMAIN queue[x], queue[x][j].by # p
      PROVE  Safe(queue[x][j])
  <2>1. queue[x][j].by \in Producers  BY CellTyped DEF Inv, Cells
  <2>2. call'[queue[x][j].by] = call[queue[x][j].by]  BY <1>4, <2>1 DEF Inv, TypeOK
  <2> QED  BY <1>3, <2>2
\* A new cell.
<1>5. ASSUME NEW c \in Channels, NEW r, Adds(c, r), Safe(r),
              \A x \in Channels : \A j \in DOMAIN queue[x] : Safe(queue[x][j])
       PROVE  Heard'
  <2>1. ASSUME NEW x \in Channels, NEW j \in DOMAIN queue'[x] PROVE Safe(queue'[x][j])
    <3>1. CASE x # c  BY <1>5, <3>1 DEF Adds
    <3>2. CASE x = c /\ j \in DOMAIN queue[c]  BY <1>5, <3>2 DEF Adds
    <3>3. CASE x = c /\ j = Len(queue[c]) + 1
      <4>1. queue'[x][j] = r  BY <1>5, <3>3 DEF Adds
      <4> QED  BY <1>5, <4>1
    <3> QED  BY <1>5, <3>1, <3>2, <3>3 DEF Adds
  <2> QED  BY <1>2, <2>1
<1>6. ASSUME NEW p \in Producers, Log(p) PROVE Heard'
  <2>1. UNCHANGED queue  BY <1>6 DEF Log
  <2>2. \A q \in Producers : call'[q].pc = call[q].pc \/ call'[q].pc = "hold"
    <3>1. CASE UNCHANGED call  BY <3>1
    <3>2. CASE call' # call
      <4>1. PICK c \in Channels, m \in Messages :
              call' = [call EXCEPT ![p] =
                [pc |-> "hold", n |-> calls', chl |-> c, pri |-> m[1], cat |-> m[2],
                 wanted |-> Wanted(c, m[1], m[2]), stale |-> FALSE]]
        BY <1>6, <3>2 DEF Log
      <4>2. PICK t : t = [pc |-> "hold", n |-> calls', chl |-> c, pri |-> m[1], cat |-> m[2],
                          wanted |-> Wanted(c, m[1], m[2]), stale |-> FALSE]
        OBVIOUS
      <4>3. t.pc = "hold"  BY <4>2
      <4> QED  BY <4>1, <4>2, <4>3 DEF Inv, TypeOK
    <3> QED  BY <3>1, <3>2
  <2>3. \A x \in Channels : \A j \in DOMAIN queue[x] : queue[x][j].by \in Producers
    BY CellTyped DEF Inv, Cells
  <2> QED  BY <1>2, <1>3, <2>1, <2>2, <2>3
<1>7. ASSUME NEW p \in Producers, HoldChannel(p) PROVE Heard'
  <2> DEFINE c == call[p].chl
  <2>1. call[p] \in Calls /\ c \in Channels /\ Adds(c, Cell(p, Prefix, FALSE))
    BY <1>7, HoldEffect DEF Inv
  <2>2. call[p].pc = "hold" /\ call' = [call EXCEPT ![p].pc = "write"]
    BY <1>7 DEF HoldChannel, At
  <2>3. \A x \in Channels : \A j \in DOMAIN queue[x] : queue[x][j].by = p => queue[x][j].ready
    BY <2>2 DEF Inv, Holding, InHand, Abandoned, Mine
  <2>4. Safe(Cell(p, Prefix, FALSE))  BY DEF Cell
  <2>5. call' = [call EXCEPT ![p] = [call[p] EXCEPT !.pc = "write"]]  BY <2>2
  <2>6. \A x \in Channels : \A j \in DOMAIN queue[x] : Safe(queue[x][j])
    BY <1>3, <1>4, <2>3, <2>5
  <2> QED  BY <1>5, <2>1, <2>4, <2>6
<1>8. ASSUME NEW p \in Producers, Write(p) \/ SetCategory(p) PROVE Heard'
  <2>1. PICK c \in Channels, k \in Nat, r \in Cells :
          /\ OwnCell(p, c, k) /\ Rewrites(c, k, r) /\ Keeps(r, queue[c][k]) /\ ~r.ready
          /\ r.heard = queue[c][k].heard
    BY <1>8, WriteEffect, SetCategoryEffect DEF Inv
  <2>2. UNCHANGED call  BY <1>8 DEF Write, SetCategory
  <2>3. \A x \in Channels : \A j \in DOMAIN queue[x] : Safe(queue[x][j])  BY <1>3, <2>2
  <2>4. Safe(queue[c][k])  BY <2>1, <2>3 DEF OwnCell
  <2>5. Safe(r)  BY <2>1, <2>4 DEF OwnCell, Keeps
  <2> QED  BY <1>2, <2>1, <2>3, <2>5 DEF Rewrites
<1>9. ASSUME NEW p \in Producers, Destroy(p) PROVE Heard'
  <2>1. call[p] \in Calls /\ call[p].pc = "write"  BY <1>9, CallTyped DEF Destroy, At, Inv
  <2>2. CASE UNCHANGED queue /\ call' = [call EXCEPT ![p].pc = "push"]
    <3>1. call' = [call EXCEPT ![p] = [call[p] EXCEPT !.pc = "push"]]  BY <2>2
    <3>2. ASSUME NEW x \in Channels, NEW j \in DOMAIN queue[x], queue[x][j].by = p,
                 ~queue[x][j].ready
          PROVE  Safe(queue[x][j])
      BY <1>1, <2>1, <3>2 DEF HeardCell, At
    <3>3. \A x \in Channels : \A j \in DOMAIN queue[x] : Safe(queue[x][j])
      BY <1>3, <1>4, <3>1, <3>2
    <3> QED  BY <1>2, <2>2, <3>3
  <2>3. CASE ~(UNCHANGED queue /\ call' = [call EXCEPT ![p].pc = "push"])
    <3>1. PICK c \in Channels, k \in Nat, t \in Calls, r \in Cells :
            /\ OwnCell(p, c, k) /\ c = call[p].chl /\ Transmits(c, queue[c][k])
            /\ call' = [call EXCEPT ![p] = t] /\ TakesAlong(t, p, c, queue[c][k])
            /\ Rewrites(c, k, r) /\ Keeps(r, queue[c][k]) /\ ~r.ready
      BY <1>9, <2>3, DestroyEffect DEF Inv
    <3>2. call'[p].pc = "transmit"  BY <3>1 DEF TakesAlong, Inv, TypeOK
    <3>3. \A x \in Channels : \A j \in DOMAIN queue[x] : Safe(queue[x][j])
      BY <1>3, <1>4, <3>1, <3>2
    <3>4. Safe(r)
      <4>1. ~r.copy /\ r.by = p  BY <3>1 DEF OwnCell, Keeps
      <4> QED  BY <3>1, <3>2, <4>1
    <3> QED  BY <1>2, <3>1, <3>3, <3>4 DEF Rewrites
  <2> QED  BY <2>2, <2>3
<1>10. ASSUME NEW p \in Producers, TransmitHold(p) PROVE Heard'
  <2>1. PICK len \in Nat : call[p] \in Calls /\ Adds(Target, Cell(p, len, TRUE))
    BY <1>10, TransmitHoldEffect DEF Inv
  <2>2. call' = [call EXCEPT ![p].pc = "copy"] /\ call'[p].pc = "copy"
    BY <1>10, <2>1 DEF TransmitHold, Inv, TypeOK, Calls
  <2>3. Safe(Cell(p, len, TRUE))  BY DEF Cell
  <2>4. call' = [call EXCEPT ![p] = [call[p] EXCEPT !.pc = "copy"]]  BY <2>2
  <2>5. \A x \in Channels : \A j \in DOMAIN queue[x] : Safe(queue[x][j])
    BY <1>3, <1>4, <2>2, <2>4
  <2> QED  BY <1>5, <2>1, <2>3, <2>5, LogStreamAssumption
\* The original may be pushed now, for the copy is ready.
<1>11. ASSUME NEW p \in Producers, TransmitPush(p) PROVE Heard'
  <2>1. PICK k \in Nat, r \in Cells :
          /\ OwnCell(p, Target, k) /\ Rewrites(Target, k, r)
          /\ Keeps(r, queue[Target][k]) /\ r.ready /\ r.heard = queue[Target][k].heard
    BY <1>11, TransmitPushEffect DEF Inv
  <2>2. call[p] \in Calls /\ call[p].pc = "copy" /\ call' = [call EXCEPT ![p].pc = "push"]
    BY <1>11, CallTyped DEF TransmitPush, At, Inv
  <2>3. call[p].chl # Target  BY <2>2 DEF Inv, Holding
  <2>4. r.copy /\ r.n = call[p].n /\ ~r.heard
    BY <1>1, <2>1, <2>3, LogStreamAssumption DEF OwnCell, Keeps, HeardCell
  <2>5. Lands(call[p].n)
    BY <2>1, <2>4, LogStreamAssumption DEF Lands, Rewrites, OwnCell
  <2>6. ASSUME NEW x \in Channels, NEW j \in DOMAIN queue[x], queue[x][j].by = p,
               ~queue[x][j].ready
        PROVE  Safe(queue[x][j])
    <3>1. queue[x][j].n = call[p].n  BY <2>2, <2>6 DEF Inv, Holding, Abandoned, Mine
    <3>2. queue[x][j].heard => ~queue[x][j].copy  BY <1>1 DEF HeardCell
    <3>3. call'[p].pc = "push"  BY <2>2 DEF Inv, TypeOK, Calls
    <3> QED  BY <2>5, <2>6, <3>1, <3>2, <3>3
  <2>7. call' = [call EXCEPT ![p] = [call[p] EXCEPT !.pc = "push"]]  BY <2>2
  <2>8. \A x \in Channels : \A j \in DOMAIN queue[x] : Safe(queue[x][j])
    BY <1>3, <1>4, <2>6, <2>7
  <2>9. Safe(r)  BY <2>1, <2>4
  <2> QED  BY <1>2, <2>1, <2>8, <2>9, LogStreamAssumption DEF Rewrites
<1>12. ASSUME NEW p \in Producers, PushChannel(p) PROVE Heard'
  <2>1. PICK c \in Channels, k \in Nat, r \in Cells :
          /\ OwnCell(p, c, k) /\ Rewrites(c, k, r) /\ Keeps(r, queue[c][k]) /\ r.ready
          /\ r.heard = queue[c][k].heard
    BY <1>12, PushEffect DEF Inv
  <2>2. At(p, "push") /\ call' = [call EXCEPT ![p] = Idle]  BY <1>12 DEF PushChannel
  <2>3. call'[p].pc = "idle"  BY <2>2 DEF Inv, TypeOK, Idle
  <2>4. \A x \in Channels : \A j \in DOMAIN queue[x] : Safe(queue[x][j])
    BY <1>3, <1>4, <2>2, <2>3
  <2>5. HeardCell(queue[c][k])  BY <1>1, <2>1 DEF OwnCell
  <2>6. queue[c][k].heard => Transmitted(queue[c][k].n) \/ ~Running(Target)
    BY <2>1, <2>2, <2>5 DEF OwnCell, HeardCell
  <2>7. r.heard => Lands(r.n) \/ ~Running(Target)'
    BY <1>0, <2>1, <2>6, TransmittedKept DEF Keeps
  <2>8. Safe(r)  BY <2>1, <2>5, <2>7 DEF Keeps, HeardCell
  <2> QED  BY <1>2, <2>1, <2>4, <2>8 DEF Rewrites
<1>13. ASSUME NEW c \in Channels, Dispatch(c) PROVE Heard'
  <2>1. Takes(c) /\ UNCHANGED call  BY <1>13, TakeCell DEF Inv, Dispatch
  <2>2. \A x \in Channels : \A j \in DOMAIN queue[x] : Safe(queue[x][j])  BY <1>3, <2>1
  <2> QED  BY <1>2, <2>1, <2>2 DEF Takes
<1>14. ASSUME NEW c \in Channels, Configure(c) PROVE Heard'
  <2>1. Stales  BY <1>14, StaleCells DEF Inv, Configure
  <2>2. \A q \in Producers : call'[q].pc = call[q].pc
    <3> SUFFICES ASSUME NEW q \in Producers PROVE call'[q].pc = call[q].pc
      OBVIOUS
    <3>1. CASE At(q, "idle")
      <4>1. call[q] = Idle  BY <3>1 DEF Inv, TypeOK, At, Calls
      <4> QED  BY <1>14, <3>1, <4>1 DEF Configure
    <3>2. CASE ~At(q, "idle")
      <4>1. PICK u \in Calls : u = call[q]  BY <3>2, CallTyped DEF Inv
      <4>2. call'[q] = Staled(u)  BY <1>14, <3>2, <4>1 DEF Configure
      <4> QED  BY <4>1, <4>2 DEF Staled, Calls
    <3> QED  BY <3>1, <3>2
  <2>3. \A x \in Channels : \A j \in DOMAIN queue[x] : queue[x][j].by \in Producers
    BY CellTyped DEF Inv, Cells
  <2>4. \A x \in Channels : \A j \in DOMAIN queue[x] : Safe(queue[x][j])
    BY <1>3, <2>2, <2>3
  <2>5. \A s \in Cells :
          Keeps(Staled(s), s) /\ Staled(s).ready = s.ready /\ Staled(s).heard = s.heard
    BY DEF Staled, Cells, Keeps
  <2>6. \A s \in Cells : Safe(s) => Safe(Staled(s))  BY <2>5 DEF Keeps
  <2> QED  BY <1>2, <2>1, <2>4, <2>6, CellTyped DEF Inv, Stales
<1>15. ASSUME UNCHANGED <<queue, call>> PROVE Heard'
  <2>1. \A x \in Channels : \A j \in DOMAIN queue[x] : Safe(queue[x][j])
    BY <1>3, <1>15
  <2> QED  BY <1>2, <1>15, <2>1
\* A call that gives up: what its thread abandons is pushed by nobody, and the original
\* is pushed without a copy only if the target was stopped.
<1>16. ASSUME NEW p \in Producers, HoldStopped(p) \/ PushStopped(p) PROVE Heard'
  <2>1. call' = [call EXCEPT ![p] = Idle] /\ UNCHANGED queue
    BY <1>16 DEF HoldStopped, PushStopped
  <2>2. call'[p].pc = "idle"  BY <2>1 DEF Inv, TypeOK, Idle
  <2>3. \A x \in Channels : \A j \in DOMAIN queue[x] : Safe(queue[x][j])
    BY <1>3, <1>4, <2>1, <2>2
  <2> QED  BY <1>2, <2>1, <2>3
<1>17. ASSUME NEW p \in Producers, TransmitStopped(p) PROVE Heard'
  <2>1. call' = [call EXCEPT ![p] = [call[p] EXCEPT !.pc = "push"]] /\ UNCHANGED queue
    BY <1>17 DEF TransmitStopped
  <2>2. ~Running(Target)'  BY <1>0, <1>17 DEF TransmitStopped
  <2>3. call[p] \in Calls  BY <1>17, CallTyped DEF TransmitStopped, At, Inv
  <2>4. call'[p].pc = "push"  BY <2>1, <2>3 DEF Inv, TypeOK, Calls
  <2>5. ASSUME NEW x \in Channels, NEW j \in DOMAIN queue[x], queue[x][j].by = p
        PROVE  Safe(queue[x][j])
    BY <1>1, <2>2, <2>4, <2>5 DEF HeardCell
  <2>6. \A x \in Channels : \A j \in DOMAIN queue[x] : Safe(queue[x][j])
    BY <1>4, <2>1, <2>5
  <2> QED  BY <1>2, <2>1, <2>6
<1> QED
  BY <1>6, <1>7, <1>8, <1>9, <1>10, <1>11, <1>12, <1>13, <1>14, <1>15, <1>16, <1>17
     DEF Next, Step, StopLogger, StopChannel, vars
----------------------------------------------------------------------------
(* The theorems                                                            *)

\* The filters of every channel, the cells of every queue and where every call is
\* stay as Inv says, whatever threads, hooks and hot updates do in between.
THEOREM LogStreamInvariant == Spec => []Inv
<1>1. Init => Inv
  <2> SUFFICES ASSUME Init PROVE Inv
    OBVIOUS
  <2> USE LogStreamAssumption
  <2>1. TypeOK  BY EmptySeq DEF Init, TypeOK
  <2>2. SameDevices  BY DEF Init, SameDevices
  <2>3. \A c \in Channels : DOMAIN queue[c] = {}
    <3>1. DOMAIN <<>> = {}  OBVIOUS
    <3> QED  BY <3>1 DEF Init
  <2>4. \A p \in Producers : call[p].pc = "idle"  BY DEF Init, Idle
  <2>5. Holding  BY <2>3, <2>4 DEF Holding, InHand, Mine
  <2>9. ClosedFirst  BY DEF Init, ClosedFirst, Running
  <2>6. ContentFits /\ Heard  BY <2>3 DEF ContentFits, Heard
  <2>7. Fresh  BY <2>3, <2>4 DEF Fresh, At
  <2>8. FiltersAgree  BY DEF Init, FiltersAgree
  <2> QED  BY <2>1, <2>2, <2>5, <2>6, <2>7, <2>8, <2>9 DEF Inv
<1>2. Inv /\ [Next]_vars => Inv'
  BY TypeStep, StoppedStays, HoldingStep, FitsStep, FreshStep, AgreeStep, HeardStep DEF Inv
<1> QED  BY <1>1, <1>2, PTL DEF Spec

\* Whatever a thread writes into a record, in any sequence of stream operations, and
\* whatever TransmitChannel copies, stays within LOG_SIZE, with a byte to spare once
\* PushChannel has been called.
THEOREM RecordsFit == Spec => []ContentFits
<1>1. Inv => ContentFits  BY DEF Inv
<1> QED  BY <1>1, LogStreamInvariant, PTL

\* A record whose category nobody changed reaches exactly the devices that its own and
\* its channel's options ask for, whatever BlockInput, DispatchLog and TransmitChannel
\* make of it, unless a filter was stored on the way.
THEOREM FiltersConcur == Spec => []FiltersAgree
<1>1. Inv => FiltersAgree  BY DEF Inv
<1> QED  BY <1>1, LogStreamInvariant, PTL

\* No device of the record's own channel can see a record that the hook transmitted
\* before the copy is complete in the target channel, if the target still runs.
THEOREM CopyIsFirst == Spec => []CopyComesFirst
<1>1. Inv => CopyComesFirst
  BY DEF Inv, Heard, CopyComesFirst, Transmitted
<1> QED  BY <1>1, LogStreamInvariant, PTL
=============================================================================
