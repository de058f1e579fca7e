---------------------------- MODULE LexerProofs -----------------------------
(***************************************************************************)
(* Proofs about Lexer, for a text of any length over any characters.       *)
(***************************************************************************)
EXTENDS Lexer, SequenceTheorems, FiniteSetTheorems, WellFoundedInduction, TLAPS

\* Whatever may stand in a text.
Letters == Chars \cup ListChars \cup CommentChars \cup {"NUL"}

At(c) == {i \in DOMAIN text : text[i] = c}
EndsIn(c) == Len(text) > 0 /\ text[Len(text)] = c
AtLineEnd == EndsIn("CR") \/ EndsIn("LF")

\* Line ends are written one way.
OneWay == At("CR") \in {{}, {i - 1 : i \in At("LF")}}

\* The last line has no line end.
Ended == result = "PEC_NONE" /\ text # <<>> /\ ~AtLineEnd

TypeOK == text \in Seq(Letters) /\ next \in Letters /\ line_no \in Nat

\* Where Lex stands when it begins a line and when it is through with one.
Standing ==
  /\ from \in 1 .. Len(text) + 1
  /\ result = "lexing" /\ AtLineEnd => next # "NUL"
  /\ result = "lexing" /\ from = Here => text = <<>> \/ AtLineEnd
  /\ result = "PEC_NONE" /\ next # "NUL" => AtLineEnd

\* CR and LF that belong together are taken together; what is left of LF CR LF gives
\* away that the text writes its line ends in more than one way.
Paired == EndsIn("CR") /\ next = "LF" => \E i \in At("LF") : i - 1 \notin At("CR")

Counted == OneWay => line_no = 1 + Cardinality(At("LF")) + IF Ended THEN 1 ELSE 0

Inv == TypeOK /\ Standing /\ Paired /\ Counted

-----------------------------------------------------------------------------
(* What a round of Lex's loop does to the text.                            *)

Read ==
  /\ ~IsLineBound(next)
  /\ text' = Append(text, next) /\ next' \in Letters
  /\ UNCHANGED <<line_no, result, from>>

Failed == result' \notin {"lexing", "PEC_NONE"} /\ UNCHANGED <<text, next, line_no, from>>

Returned == AtEnd /\ result' = "PEC_NONE" /\ UNCHANGED <<text, next, line_no, from>>

AtNul ==
  /\ next = "NUL" /\ from # Here /\ UNCHANGED <<text, next, from>>
  /\ line_no' = line_no + 1 /\ result' = "PEC_NONE"

OverLineEnd ==
  /\ next \in {"CR", "LF"} /\ from' = from
  /\ line_no' = line_no + 1 /\ result' = "PEC_NONE"
  /\ next' \in Letters
  /\ \/ text' = Append(text, next) /\ ~(next' \in {"CR", "LF"} /\ next' # next)
     \/ \E c \in {"CR", "LF"} : c # next /\ text' = Append(Append(text, next), c)

LEMMA FollowingLetters ==
  ASSUME NEW t, NEW s
  PROVE  Following(t, s) \subseteq Letters
BY DEF Following, Letters

LEMMA ContinueReads ==
  ASSUME NEW l, Continue(l), ~IsLineBound(next)
  PROVE  Read
BY FollowingLetters DEF Continue, Read

LEMMA FailFails ==
  ASSUME NEW e, e \notin {"lexing", "PEC_NONE"}, Fail(e)
  PROVE  Failed
BY DEF Fail, Failed

LEMMA SeparatorStep ==
  ASSUME NEW l, Separator(l), ~IsLineBound(next)
  PROVE  Read \/ Failed
<1>1. CASE \E m : Continue(m)  BY <1>1, ContinueReads
<1>2. CASE Fail("PEC_NONSUPPORT_SYNTAX")  BY <1>2, FailFails
<1> QED  BY <1>1, <1>2 DEF Separator

LEMMA BoundStep ==
  ASSUME TypeOK, Bound
  PROVE  Read \/ Failed \/ AtNul \/ OverLineEnd
<1>1. CASE Fail("PEC_NOT_CLOSURE")  BY <1>1, FailFails
<1>2. CASE next = "#" /\ Continue([AtBound EXCEPT !.block = "CLEAN"])
  BY <1>2, ContinueReads DEF IsLineBound
<1>3. CASE /\ next \in {"NUL", "CR", "LF"} /\ line_no' = line_no + 1 /\ result' = "PEC_NONE"
           /\ next = "NUL" /\ UNCHANGED <<text, next, from>>
  BY <1>3 DEF Bound, AtEnd, AtNul
<1>4. CASE /\ next \in {"CR", "LF"} /\ line_no' = line_no + 1 /\ result' = "PEC_NONE"
           /\ from' = from
           /\ \E c \in Following(Append(text, next), Here + 1) : LineEnd(c)
  <2>1. PICK c \in Following(Append(text, next), Here + 1) : LineEnd(c)  BY <1>4
  <2>2. c \in Letters  BY FollowingLetters
  <2>3. CASE c \in {"CR", "LF"} /\ c # next
    <3>1. text' = text \o <<next, c>> /\ next' \in Letters
      BY <2>1, <2>3, FollowingLetters DEF LineEnd
    <3>2. text' = Append(Append(text, next), c)
      BY <2>2, <3>1 DEF TypeOK
    <3> QED  BY <1>4, <2>3, <3>1, <3>2 DEF OverLineEnd
  <2>4. CASE ~(c \in {"CR", "LF"} /\ c # next)
    <3>1. text' = Append(text, next) /\ next' = c  BY <2>1, <2>4 DEF LineEnd
    <3> QED  BY <1>4, <2>2, <2>4, <3>1 DEF OverLineEnd
  <2> QED  BY <2>3, <2>4
<1> QED
  BY <1>1, <1>2, <1>3, <1>4 DEF Bound, IsSoftLineBound, IsLineBound

LEMMA LexStep ==
  ASSUME TypeOK, Lex
  PROVE  result = "lexing" /\ (Read \/ Failed \/ Returned \/ AtNul \/ OverLineEnd)
<1>1. result = "lexing"  BY DEF Lex
<1>0. CASE Nothing  BY <1>1, <1>0 DEF Nothing, Returned
<1>2. CASE Bound  BY <1>1, <1>2, BoundStep
<1>3. CASE Clean  BY <1>1, <1>3, ContinueReads DEF Clean
<1>4. CASE Begin
  <2>1. ~IsLineBound(next)  BY <1>4 DEF Begin, IsSoftLineBound
  <2>2. (\E l : Continue(l)) \/ Fail("PEC_ILLEGAL_KEY")  BY <1>4 DEF Begin
  <2> QED  BY <1>1, <2>1, <2>2, ContinueReads, FailFails
<1>5. CASE Key
  <2>1. ~IsLineBound(next)  BY <1>5 DEF Key, IsSoftLineBound
  <2>2. (\E l : Continue(l)) \/ Fail("PEC_ILLEGAL_KEY") \/ (\E l : Separator(l))  BY <1>5 DEF Key
  <2> QED  BY <1>1, <2>1, <2>2, ContinueReads, FailFails, SeparatorStep
<1>6. CASE PreSep
  BY <1>1, <1>6, SeparatorStep DEF PreSep, IsSoftLineBound
<1>7. CASE PreVal
  <2>1. ~IsLineBound(next)  BY <1>7 DEF PreVal, IsSoftLineBound
  <2>2. \E l : Continue(l)  BY <1>7 DEF PreVal
  <2> QED  BY <1>1, <2>1, <2>2, ContinueReads
<1>8. CASE Val
  <2>1. ~IsLineBound(next)  BY <1>8 DEF Val, IsSoftLineBound
  <2>2. \E l : Continue(l)  BY <1>8 DEF Val
  <2> QED  BY <1>1, <2>1, <2>2, ContinueReads
<1> QED  BY <1>0, <1>2, <1>3, <1>4, <1>5, <1>6, <1>7, <1>8 DEF Lex

-----------------------------------------------------------------------------
(* Line ends in a text that grows.                                         *)

LEMMA Grown ==
  ASSUME TypeOK, NEW c \in Letters, text' = Append(text, c)
  PROVE  /\ text' \in Seq(Letters) /\ Len(text') = Len(text) + 1 /\ Len(text) \in Nat
         /\ text'[Len(text) + 1] = c
         /\ \A d : At(d)' = IF d = c THEN At(d) \cup {Len(text) + 1} ELSE At(d)
<1>1. /\ text' \in Seq(Letters) /\ Len(text') = Len(text) + 1 /\ Len(text) \in Nat
      /\ text'[Len(text) + 1] = c /\ \A i \in 1 .. Len(text) : text'[i] = text[i]
  BY AppendProperties DEF TypeOK
<1>2. DOMAIN text = 1 .. Len(text) /\ DOMAIN text' = 1 .. Len(text) + 1
  BY <1>1 DEF TypeOK
<1>3. ASSUME NEW d
      PROVE  {i \in DOMAIN text' : text'[i] = d}
               = IF d = c THEN {i \in DOMAIN text : text[i] = d} \cup {Len(text) + 1}
                 ELSE {i \in DOMAIN text : text[i] = d}
  BY <1>1, <1>2
<1> QED  BY <1>1, <1>3 DEF At

LEMMA AtFinite ==
  ASSUME TypeOK, NEW c
  PROVE  /\ IsFiniteSet(At(c)) /\ Cardinality(At(c)) \in Nat
         /\ \A i \in At(c) : i \in 1 .. Len(text)
<1>1. At(c) \subseteq 1 .. Len(text) /\ Len(text) \in Nat  BY DEF At, TypeOK
<1>2. IsFiniteSet(1 .. Len(text))  BY <1>1, FS_Interval
<1> QED  BY <1>1, <1>2, FS_Subset, FS_CardinalityType

\* One more line end of the text's way is one more LF.
LEMMA OneMore ==
  ASSUME TypeOK, NEW i \in Nat, i > Len(text)
  PROVE  Cardinality(At("LF") \cup {i}) = Cardinality(At("LF")) + 1
<1>1. i \notin At("LF")  BY AtFinite
<1> QED  BY <1>1, AtFinite, FS_AddElement

LEMMA ReadStep ==
  ASSUME Inv, result = "lexing", Read
  PROVE  Inv'
<1>1. next \notin {"NUL", "CR", "LF"} /\ next \in Letters
  BY DEF Read, IsLineBound, Inv, TypeOK
<1>2. /\ text' \in Seq(Letters) /\ Len(text') = Len(text) + 1 /\ Len(text) \in Nat
      /\ text'[Len(text) + 1] = next
      /\ At("CR")' = At("CR") /\ At("LF")' = At("LF")
  BY <1>1, Grown DEF Read, Inv
<1>3. ~AtLineEnd'  BY <1>1, <1>2 DEF AtLineEnd, EndsIn
<1>4. TypeOK'  BY <1>2 DEF Read, Inv, TypeOK
<1>5. Standing'
  <2>1. from' = from /\ from \in 1 .. Len(text) + 1 /\ result' = result
    BY DEF Read, Inv, Standing
  <2>2. from' \in 1 .. Len(text') + 1 /\ from' # Here'  BY <1>2, <2>1 DEF Here
  <2> QED  BY <1>3, <2>1, <2>2 DEF Standing
<1>6. Paired'  BY <1>3 DEF Paired, AtLineEnd
<1>7. Counted'
  <2>1. ~Ended /\ ~Ended'  BY DEF Ended, Read
  <2>2. line_no' = line_no  BY DEF Read
  <2> QED  BY <1>2, <2>1, <2>2 DEF Inv, Counted, OneWay
<1> QED  BY <1>4, <1>5, <1>6, <1>7 DEF Inv

LEMMA SameText ==
  ASSUME UNCHANGED text
  PROVE  /\ \A c : At(c)' = At(c) /\ EndsIn(c)' = EndsIn(c)
         /\ AtLineEnd' = AtLineEnd /\ OneWay' = OneWay
BY DEF At, EndsIn, AtLineEnd, OneWay

LEMMA AtNulStep ==
  ASSUME Inv, result = "lexing", AtNul
  PROVE  Inv'
<1>1. /\ next = "NUL" /\ text' = text /\ next' = next /\ result' = "PEC_NONE"
      /\ from' = from /\ from # Here /\ line_no' = line_no + 1 /\ line_no \in Nat
  BY DEF AtNul, Inv, TypeOK
<1>2. ~AtLineEnd /\ text # <<>>
  <2>1. text = <<>> => Here = 1 /\ from = 1  BY DEF Here, Inv, Standing
  <2> QED  BY <1>1, <2>1 DEF Inv, Standing
<1>3. TypeOK' /\ Standing' /\ Paired'
  BY <1>1, SameText DEF Inv, TypeOK, Standing, Paired
<1>4. ~Ended /\ Ended'  BY <1>1, <1>2, SameText DEF Ended
<1>5. At("LF")' = At("LF") /\ OneWay' = OneWay  BY <1>1, SameText
<1>6. PICK n \in Nat : n = Cardinality(At("LF"))  BY AtFinite DEF Inv
<1>7. Counted'  BY <1>1, <1>4, <1>5, <1>6 DEF Inv, Counted
<1> QED  BY <1>3, <1>7 DEF Inv

\* An empty text, in which there is no line.
LEMMA ReturnedStep ==
  ASSUME Inv, result = "lexing", Returned
  PROVE  Inv'
<1>1. /\ UNCHANGED <<text, next, line_no, from>> /\ result' = "PEC_NONE"
      /\ next = "NUL" /\ from = Here
  BY DEF Returned, AtEnd
<1>2. text = <<>>  BY <1>1 DEF Inv, Standing
<1>3. TypeOK' /\ Standing' /\ Paired'
  BY <1>1, SameText DEF Inv, TypeOK, Standing, Paired
<1>4. ~Ended /\ ~Ended'  BY <1>1, <1>2 DEF Ended
<1>5. Counted'  BY <1>1, <1>4, SameText DEF Inv, Counted
<1> QED  BY <1>3, <1>5 DEF Inv

LEMMA FailedStep ==
  ASSUME Inv, result = "lexing", Failed
  PROVE  Inv'
<1>1. UNCHANGED <<text, next, line_no, from>> /\ result' \notin {"lexing", "PEC_NONE"}
  BY DEF Failed
<1>2. TypeOK' /\ Standing' /\ Paired'
  BY <1>1, SameText DEF Inv, TypeOK, Standing, Paired
<1>3. ~Ended /\ ~Ended'  BY <1>1 DEF Ended
<1>4. Counted'  BY <1>1, <1>3, SameText DEF Inv, Counted
<1> QED  BY <1>2, <1>4 DEF Inv

\* A line end of one character.
LEMMA SingleStep ==
  ASSUME Inv, result = "lexing", next \in {"CR", "LF"}, line_no' = line_no + 1,
         result' = "PEC_NONE", next' \in Letters, from' = from, text' = Append(text, next),
         ~(next' \in {"CR", "LF"} /\ next' # next)
  PROVE  Inv'
<1> DEFINE n == Len(text)
<1>0. TypeOK /\ line_no \in Nat /\ next \in Letters  BY DEF Inv, TypeOK
<1>1. /\ text' \in Seq(Letters) /\ Len(text') = n + 1 /\ n \in Nat /\ text'[n + 1] = next
      /\ At("CR")' = IF next = "CR" THEN At("CR") \cup {n + 1} ELSE At("CR")
      /\ At("LF")' = IF next = "LF" THEN At("LF") \cup {n + 1} ELSE At("LF")
  BY <1>0, Grown
<1>2. /\ \A i \in At("CR") : i \in 1 .. n
      /\ \A i \in At("LF") : i \in 1 .. n
  BY <1>0, AtFinite
<1>3. AtLineEnd'  BY <1>1 DEF AtLineEnd, EndsIn
<1>4. TypeOK'  BY <1>0, <1>1 DEF TypeOK
<1>5. Standing'  BY <1>1, <1>3 DEF Inv, Standing
<1>6. Paired'  BY <1>1 DEF Paired, EndsIn
<1>7. ~Ended /\ ~Ended'  BY <1>3 DEF Ended
<1>8. CASE next = "CR"
  <2>1. n + 1 \in At("CR")' /\ n + 1 \notin {i - 1 : i \in At("LF")'}
    BY <1>1, <1>2, <1>8
  <2> QED  BY <1>4, <1>5, <1>6, <2>1 DEF Inv, Counted, OneWay
<1>9. CASE next = "LF"
  <2>1. ASSUME OneWay' PROVE OneWay
    <3>1. CASE At("CR")' = {}  BY <1>1, <1>9, <3>1 DEF OneWay
    <3>2. CASE At("CR")' = {i - 1 : i \in At("LF")'}
      <4>1. n \in At("CR")
        <5>1. n + 1 \in At("LF")' /\ (n + 1) - 1 = n /\ At("CR")' = At("CR")  BY <1>1, <1>9
        <5>2. (n + 1) - 1 \in At("CR")'  BY <3>2, <5>1
        <5> QED  BY <5>1, <5>2
      <4>2. EndsIn("CR")  BY <1>0, <1>1, <1>2, <4>1 DEF EndsIn, At
      <4>3. PICK i \in At("LF") : i - 1 \notin At("CR")  BY <1>9, <4>2 DEF Inv, Paired
      <4>4. i - 1 \in At("CR")'  BY <1>1, <1>9, <3>2, <4>3
      <4> QED  BY <1>1, <1>9, <4>3, <4>4
    <3> QED  BY <2>1, <3>1, <3>2 DEF OneWay
  <2>2. Cardinality(At("LF")') = Cardinality(At("LF")) + 1
    BY <1>0, <1>1, <1>9, OneMore
  <2>3. PICK m \in Nat : m = Cardinality(At("LF"))  BY <1>0, AtFinite
  <2>4. Counted'  BY <1>0, <1>7, <2>1, <2>2, <2>3 DEF Inv, Counted
  <2> QED  BY <1>4, <1>5, <1>6, <2>4 DEF Inv
<1> QED  BY <1>8, <1>9

\* A line end of two characters.
LEMMA DoubleStep ==
  ASSUME Inv, result = "lexing", next \in {"CR", "LF"}, line_no' = line_no + 1,
         result' = "PEC_NONE", next' \in Letters, from' = from, NEW c \in {"CR", "LF"}, c # next,
         text' = Append(Append(text, next), c)
  PROVE  Inv'
<1> DEFINE n == Len(text)
<1>0. TypeOK /\ line_no \in Nat /\ next \in Letters  BY DEF Inv, TypeOK
<1>1. /\ text' \in Seq(Letters) /\ Len(text') = n + 2 /\ n \in Nat
      /\ text'[n + 1] = next /\ text'[n + 2] = c
      /\ \A i \in 1 .. n : text'[i] = text[i]
  <2>1. c \in Letters  BY DEF Letters, CommentChars
  <2>2. PICK t \in Seq(Letters) : t = Append(text, next)  BY <1>0, AppendProperties DEF TypeOK
  <2>3. /\ Len(t) = n + 1 /\ n \in Nat /\ t[n + 1] = next
        /\ \A i \in 1 .. n : t[i] = text[i]
    BY <1>0, <2>2, AppendProperties DEF TypeOK
  <2>4. text' = Append(t, c)  BY <2>2
  <2>5. /\ text' \in Seq(Letters) /\ Len(text') = Len(t) + 1 /\ text'[Len(t) + 1] = c
        /\ \A i \in 1 .. Len(t) : text'[i] = t[i]
    BY <2>1, <2>2, <2>4, AppendProperties
  <2> QED  BY <2>3, <2>5
<1>2. \A d : At(d)' = At(d) \cup {i \in {n + 1, n + 2} : text'[i] = d}
  <2>1. DOMAIN text = 1 .. n /\ DOMAIN text' = 1 .. n + 2  BY <1>0, <1>1 DEF TypeOK
  <2>2. ASSUME NEW d
        PROVE  {i \in DOMAIN text' : text'[i] = d}
                 = {i \in DOMAIN text : text[i] = d} \cup {i \in {n + 1, n + 2} : text'[i] = d}
    BY <1>1, <2>1
  <2> QED  BY <2>2 DEF At
<1>3. /\ \A i \in At("CR") : i \in 1 .. n
      /\ \A i \in At("LF") : i \in 1 .. n
  BY <1>0, AtFinite
<1>4. AtLineEnd'  BY <1>1 DEF AtLineEnd, EndsIn
<1>5. TypeOK'  BY <1>0, <1>1 DEF TypeOK
<1>6. Standing'  BY <1>1, <1>4 DEF Inv, Standing
<1>7. ~Ended /\ ~Ended'  BY <1>4 DEF Ended
<1>8. CASE next = "CR"
  <2>1. At("CR")' = At("CR") \cup {n + 1} /\ At("LF")' = At("LF") \cup {n + 2}
    BY <1>1, <1>2, <1>8
  <2>2. Paired'  BY <1>1, <1>8 DEF Paired, EndsIn
  <2>3. ASSUME OneWay' PROVE OneWay
    <3>1. At("CR")' = {i - 1 : i \in At("LF")'}  BY <2>1, <2>3 DEF OneWay
    <3>2. \A i \in At("CR") : i \in {j - 1 : j \in At("LF")}
      BY <1>1, <1>3, <2>1, <3>1
    <3>3. \A j \in At("LF") : j - 1 \in At("CR")
      BY <1>1, <1>3, <2>1, <3>1
    <3> QED  BY <3>2, <3>3 DEF OneWay
  <2>4. Cardinality(At("LF")') = Cardinality(At("LF")) + 1
    BY <1>0, <1>1, <2>1, OneMore
  <2>5. PICK m \in Nat : m = Cardinality(At("LF"))  BY <1>0, AtFinite
  <2>6. Counted'  BY <1>0, <1>7, <2>3, <2>4, <2>5 DEF Inv, Counted
  <2> QED  BY <1>5, <1>6, <2>2, <2>6 DEF Inv
<1>9. CASE next = "LF"
  <2>1. At("CR")' = At("CR") \cup {n + 2} /\ At("LF")' = At("LF") \cup {n + 1}
    BY <1>1, <1>2, <1>9
  <2>2. ~OneWay'
    <3>1. n + 2 \in At("CR")' /\ n + 2 \notin {i - 1 : i \in At("LF")'}
      BY <1>1, <1>3, <2>1
    <3> QED  BY <3>1 DEF OneWay
  <2>3. \E i \in At("LF")' : i - 1 \notin At("CR")'
    <3>1. CASE n \in At("CR")
      <4>1. EndsIn("CR")  BY <1>1, <1>3, <3>1 DEF EndsIn, At
      <4>2. PICK i \in At("LF") : i - 1 \notin At("CR")  BY <1>9, <4>1 DEF Inv, Paired
      <4> QED  BY <1>1, <1>3, <2>1, <4>2
    <3>2. CASE n \notin At("CR")
      <4>1. n + 1 \in At("LF")' /\ (n + 1) - 1 \notin At("CR")'  BY <1>1, <2>1, <3>2
      <4> QED  BY <4>1
    <3> QED  BY <3>1, <3>2
  <2>4. Paired'  BY <2>3 DEF Paired
  <2> QED  BY <1>5, <1>6, <2>2, <2>4 DEF Inv, Counted
<1> QED  BY <1>8, <1>9

LEMMA AgainStep ==
  ASSUME Inv, Again
  PROVE  Inv'
<1>1. /\ result = "PEC_NONE" /\ next # "NUL" /\ result' = "lexing"
      /\ UNCHANGED <<text, next, line_no>> /\ from' = Len(text) + 1 /\ Len(text) \in Nat
  BY DEF Again, Inv, TypeOK
<1>2. AtLineEnd  BY <1>1 DEF Inv, Standing
<1>3. TypeOK' /\ Standing' /\ Paired'
  BY <1>1, SameText DEF Inv, TypeOK, Standing, Paired
<1>4. ~Ended /\ ~Ended'  BY <1>1, <1>2 DEF Ended
<1>5. Counted'  BY <1>1, <1>4, SameText DEF Inv, Counted
<1> QED  BY <1>3, <1>5 DEF Inv

-----------------------------------------------------------------------------
(* Line numbers.                                                           *)

\* line_no_ counts the line ends of a text of any length that writes them one way, LF or
\* CR LF, and the last line if it has none; an empty text has no line (LineNumbers; Lex).
THEOREM LineNumbersCount == Spec => []LineNumbers
<1>1. Init => Inv
  <2> SUFFICES ASSUME Init PROVE Inv
    OBVIOUS
  <2>1. text = <<>> /\ next \in Letters /\ line_no = 1 /\ result = "lexing" /\ from = 1
    BY FollowingLetters DEF Init
  <2>2. text \in Seq(Letters) /\ Len(text) = 0  BY <2>1
  <2>3. \A c : At(c) = {} /\ ~EndsIn(c)
    <3>1. DOMAIN text = {}  BY <2>1
    <3> QED  BY <2>2, <3>1 DEF At, EndsIn
  <2>4. Cardinality(At("LF")) = 0  BY <2>3, FS_EmptySet
  <2> QED
    BY <2>1, <2>2, <2>3, <2>4 DEF Inv, TypeOK, Standing, AtLineEnd, Paired, Counted, Ended
<1>2. Inv /\ [Next]_vars => Inv'
  <2> SUFFICES ASSUME Inv, [Next]_vars PROVE Inv'
    OBVIOUS
  <2>1. CASE Lex
    <3>1. result = "lexing" /\ (Read \/ Failed \/ Returned \/ AtNul \/ OverLineEnd)
      BY <2>1, LexStep DEF Inv
    <3>2. CASE OverLineEnd
      BY <3>1, <3>2, SingleStep, DoubleStep DEF OverLineEnd
    <3> QED  BY <3>1, <3>2, ReadStep, FailedStep, ReturnedStep, AtNulStep
  <2>2. CASE Again  BY <2>2, AgainStep
  <2>3. CASE UNCHANGED vars
    <3>1. UNCHANGED <<text, next, line_no, result, from>> /\ Here' = Here
      BY <2>3 DEF vars, Here
    <3> QED  BY <3>1, SameText DEF Inv, TypeOK, Standing, Paired, Counted, Ended
  <2> QED  BY <2>1, <2>2, <2>3 DEF Next
<1>3. Inv => LineNumbers
  <2> SUFFICES ASSUME Inv PROVE LineNumbers
    OBVIOUS
  <2>1. text # <<>> => (text[Len(text)] \notin {"CR", "LF"} <=> ~AtLineEnd)
    <3>1. text = <<>> <=> ~(Len(text) > 0)  BY DEF Inv, TypeOK
    <3> QED  BY <3>1 DEF AtLineEnd, EndsIn
  <2> QED  BY <2>1 DEF LineNumbers, Inv, Counted, OneWay, At, Ended
<1> QED  BY <1>1, <1>2, <1>3, PTL DEF Spec

-----------------------------------------------------------------------------
(* What a line means, by positions: f is where the line begins in the text *)
(* t, l what Lex has made of it.                                           *)

\* What code is made of: all before a comment or a line end.
Plain == (Chars \cup ListChars) \ {"CR", "LF", "#"}

AllPlain(t, a, b) == \A i \in a .. b : t[i] \in Plain
Blanks(t, a, b)   == \A i \in a .. b : IsBlank(t[i])
Indents(c)        == c \in {" ", "-"}
Dashes(t, a, b)   == \A i \in a .. b : Indents(t[i])

\* The code ends before position e.
CodeEnds(t, f, e) ==
  /\ e \in f .. Len(t) + 1 /\ AllPlain(t, f, e - 1)
  /\ e <= Len(t) => t[e] \notin Plain

\* Leading blanks, and a key.
Header(t, f, l, b) ==
  /\ f + l.blank <= b /\ Blanks(t, f, f + l.blank - 1) /\ ~IsBlank(t[f + l.blank])
  /\ \E i \in f .. b : ~Indents(t[i])
Known(l) == l.key \in {"key", "list"}

NoColon(t, a, b) == \A i \in a .. b : t[i] # ":"
Colon(t, f, s)   == t[s] = ":" /\ NoColon(t, f, s - 1)

\* The value is what stands at a .. b, without the blanks before it.
Cut(t, a, b, l) ==
  \/ Blanks(t, a, b) /\ l.val_end <= l.val_begin
  \/ /\ a <= l.val_begin /\ l.val_begin < l.val_end /\ l.val_end <= b + 1
     /\ ~IsBlank(t[l.val_begin])
     /\ Blanks(t, a, l.val_begin - 1) /\ Blanks(t, l.val_end, b)

\* It has no blanks at its end.
Tidy(t, l) == l.val_end <= l.val_begin \/ ~IsBlank(t[l.val_end - 1])

\* A value without quotes and one with them, behind the colon at s.
Bare(t, s, b, l) ==
  Cut(t, s + 1, b, l) /\ (l.val_begin < l.val_end => t[l.val_begin] \notin DOMAIN Closer)
Opened(t, s, o) == Blanks(t, s + 1, o - 1) /\ t[o] \in DOMAIN Closer
Unclosed(t, o, b) == \A i \in o + 1 .. b : t[i] # Closer[t[o]]
Quoted(t, s, b, l) ==
  \E o \in s + 1 .. b : \E c \in o + 1 .. b :
    Opened(t, s, o) /\ t[c] = Closer[t[o]] /\ Unclosed(t, o, c - 1) /\ Cut(t, o + 1, c - 1, l)

\* The code f .. e - 1 means l.
Meant(t, f, l, e) ==
  \/ Dashes(t, f, e - 1) /\ l.key = "NULL" /\ l.val_begin = 0 /\ l.val_end = 0
  \/ /\ Known(l) /\ Header(t, f, l, e - 1)
     /\ \E s \in f .. e - 1 : Colon(t, f, s) /\ (Bare(t, s, e - 1, l) \/ Quoted(t, s, e - 1, l))

\* What Lex knows while it is inside the line, block by block.
InNone(t, f, l) ==
  /\ Dashes(t, f, Len(t)) /\ l.key = "NULL" /\ l.val_begin = 0 /\ l.val_end = 0
  /\ f + l.blank <= Len(t) + 1 /\ Blanks(t, f, f + l.blank - 1)
  /\ f + l.blank <= Len(t) => ~IsBlank(t[f + l.blank])
InKey(t, f, l)    == Header(t, f, l, Len(t)) /\ NoColon(t, f, Len(t))
InPreVal(t, f, l) ==
  /\ Known(l) /\ Header(t, f, l, Len(t))
  /\ \E s \in f .. Len(t) : Colon(t, f, s) /\ Blanks(t, s + 1, Len(t))
InBare(t, f, l) ==
  /\ Known(l) /\ Header(t, f, l, Len(t))
  /\ \E s \in f .. Len(t) :
       /\ Colon(t, f, s)
       /\ l.val_begin \in s + 1 .. Len(t) /\ Blanks(t, s + 1, l.val_begin - 1)
       /\ ~IsBlank(t[l.val_begin]) /\ t[l.val_begin] \notin DOMAIN Closer
InQuotes(t, f, l) ==
  /\ Known(l) /\ Header(t, f, l, Len(t))
  /\ \E s \in f .. Len(t) : \E o \in s + 1 .. Len(t) :
       /\ Colon(t, f, s) /\ Opened(t, s, o) /\ l.stack = Closer[t[o]] /\ Unclosed(t, o, Len(t))
       /\ l.val_begin \in o + 1 .. Len(t) + 1 /\ Blanks(t, o + 1, l.val_begin - 1)
       /\ l.val_begin <= Len(t) => ~IsBlank(t[l.val_begin])
InClean(t, f, l) ==
  \E e \in f .. Len(t) + 1 :
    /\ CodeEnds(t, f, e) /\ Meant(t, f, l, e)
    /\ e = Len(t) + 1 =>
         /\ Known(l) /\ Header(t, f, l, Len(t))
         /\ \E s \in f .. Len(t) : Colon(t, f, s) /\ Quoted(t, s, Len(t), l)

Inside(t, f, l) ==
  /\ l.block # "CLEAN" => AllPlain(t, f, Len(t))
  /\ l.block = "NONE" => InNone(t, f, l)
  /\ l.block = "KEY" => InKey(t, f, l)
  /\ l.block = "PRE_SEP" => Known(l) /\ InKey(t, f, l)
  /\ l.block = "PRE_VAL" => InPreVal(t, f, l)
  /\ l.block = "VAL" /\ l.stack = "NUL" => InBare(t, f, l)
  /\ l.block = "VAL" /\ l.stack # "NUL" => InQuotes(t, f, l)
  /\ l.block = "CLEAN" => InClean(t, f, l)

LineType ==
  [blank : Nat, chars : Nat, block : {"NONE", "KEY", "PRE_SEP", "PRE_VAL", "VAL", "CLEAN"},
   stack : {"NUL", "quote", "]"}, key : {"NULL", "key", "list"}, val_begin : Nat, val_end : Nat]

\* What may follow where there is no comment.
Expected(t, f, c) == c \in Chars \cup ListChars \cup {"NUL"} \/ \E i \in f .. Len(t) : t[i] = "#"

Through(t, f, l) == \E e \in f .. Len(t) + 1 : CodeEnds(t, f, e) /\ Meant(t, f, l, e) /\ Tidy(t, l)

\* What Lex knows inside a line, and what it has made of a line it is through with.
MeaningInv ==
  /\ text \in Seq(Letters) /\ line \in LineType /\ from \in Nat \ {0} /\ from <= Len(text) + 1
  /\ result = "lexing" =>
       /\ line.chars = Len(text) + 1 - from
       /\ Expected(text, from, next) /\ next \in Letters /\ Inside(text, from, line)
  /\ result = "PEC_NONE" =>
       /\ next \in Chars \cup ListChars \cup {"NUL"}
       /\ Through(text, from, line)

-----------------------------------------------------------------------------
(* Smallest and largest positions.                                         *)

LEMMA SmallestExists ==
  ASSUME NEW T \in SUBSET Nat, T # {}
  PROVE  \E x \in T : \A y \in T : x <= y
<1>1. PICK x \in T : \A y \in T : <<y, x>> \notin OpToRel(<, Nat)
  BY NatLessThanWellFounded, WFMin
<1>2. \A y \in T : ~(y < x)
  BY <1>1 DEF OpToRel
<1>3. \A y \in T : y \in Nat /\ x \in Nat
  OBVIOUS
<1>4. \A y \in T : x <= y
  BY <1>2, <1>3
<1> QED  BY <1>4

LEMMA LargestExists ==
  ASSUME NEW n \in Nat, NEW S \in SUBSET (0 .. n), S # {}
  PROVE  \E x \in S : \A y \in S : y <= x
<1> DEFINE T == {n - x : x \in S}
<1>1. \A x \in S : x \in Nat /\ n - x \in Nat
  OBVIOUS
<1>2. T \in SUBSET Nat /\ T # {}
  BY <1>1
<1>3. PICK m \in T : \A y \in T : m <= y
  <2> HIDE DEF T
  <2> QED  BY <1>2, SmallestExists
<1>4. PICK x \in S : m = n - x
  OBVIOUS
<1>5. \A y \in S : n - x <= n - y
  BY <1>3, <1>4
<1>6. \A y \in S : y <= x
  BY <1>1, <1>5
<1> QED  BY <1>6

LEMMA MinIs ==
  ASSUME NEW T \in SUBSET Nat, NEW x \in T, \A y \in T : x <= y
  PROVE  Min(T) = x
<1> DEFINE m == CHOOSE z \in T : \A y \in T : z <= y
<1>1. m \in T /\ \A y \in T : m <= y  OBVIOUS
<1>2. m <= x /\ x <= m /\ m \in Nat /\ x \in Nat  BY <1>1
<1>3. Min(T) = m  BY DEF Min
<1> HIDE DEF m
<1> QED  BY <1>2, <1>3

LEMMA MaxIs ==
  ASSUME NEW T \in SUBSET Nat, NEW x \in T, \A y \in T : y <= x
  PROVE  Max(T) = x
<1> DEFINE m == CHOOSE z \in T : \A y \in T : z >= y
<1>0. \A y \in T : x >= y  OBVIOUS
<1>1. m \in T /\ \A y \in T : m >= y  BY <1>0
<1>2. m <= x /\ x <= m /\ m \in Nat /\ x \in Nat  BY <1>1
<1>3. Max(T) = m  BY DEF Max
<1> HIDE DEF m
<1> QED  BY <1>2, <1>3

-----------------------------------------------------------------------------
(* A meaning stays while the text grows.                                   *)

Grows(t, u) == Len(t) <= Len(u) /\ \A i \in 1 .. Len(t) : u[i] = t[i]

SameMeaning(l, m) ==
  m.blank = l.blank /\ m.key = l.key /\ m.val_begin = l.val_begin /\ m.val_end = l.val_end

LEMMA GrowsAt ==
  ASSUME NEW t \in Seq(Letters), NEW u \in Seq(Letters), Grows(t, u), NEW i \in 1 .. Len(t)
  PROVE  u[i] = t[i]
BY DEF Grows

LEMMA BlanksStay ==
  ASSUME NEW t \in Seq(Letters), NEW u \in Seq(Letters), Grows(t, u),
         NEW a \in Nat \ {0}, NEW b \in 0 .. Len(t), Blanks(t, a, b)
  PROVE  Blanks(u, a, b)
<1>1. ASSUME NEW i \in a .. b PROVE IsBlank(u[i])
  <2>1. i \in 1 .. Len(t)  OBVIOUS
  <2>2. IsBlank(t[i])  BY DEF Blanks
  <2> QED  BY <2>1, <2>2, GrowsAt
<1> QED  BY <1>1 DEF Blanks

LEMMA HeaderStays ==
  ASSUME NEW t \in Seq(Letters), NEW u \in Seq(Letters), Grows(t, u), NEW f \in Nat \ {0},
         NEW l \in LineType, NEW m \in LineType, m.blank = l.blank,
         NEW b \in 0 .. Len(t), Header(t, f, l, b), NEW d \in b .. Len(u)
  PROVE  Header(u, f, m, d)
<1>0. PICK k \in Nat : k = l.blank  BY DEF LineType
<1>1. f + k <= b /\ Blanks(t, f, f + k - 1) /\ ~IsBlank(t[f + k]) /\ m.blank = k
  BY <1>0 DEF Header
<1>2. f + k <= d /\ f + k \in 1 .. Len(t)
  <2>1. Len(t) \in Nat /\ b \in Nat /\ b <= Len(t) /\ b <= d /\ d \in Nat /\ f \in Nat /\ f >= 1
    OBVIOUS
  <2>2. f + k <= b  BY <1>1
  <2> QED  BY <2>1, <2>2
<1>3. Blanks(u, f, f + k - 1)
  <2>1. f + k - 1 \in 0 .. Len(t)  BY <1>2
  <2> QED  BY <1>1, <2>1, BlanksStay
<1>4. ~IsBlank(u[f + k])  BY <1>1, <1>2, GrowsAt
<1>5. \E i \in f .. d : ~Indents(u[i])
  <2>1. PICK i \in f .. b : ~Indents(t[i])  BY DEF Header
  <2>2. i \in f .. d /\ i \in 1 .. Len(t)  OBVIOUS
  <2>3. u[i] = t[i]  BY <2>2, GrowsAt
  <2> QED  BY <2>1, <2>2, <2>3
<1> QED  BY <1>1, <1>2, <1>3, <1>4, <1>5 DEF Header

LEMMA ColonStays ==
  ASSUME NEW t \in Seq(Letters), NEW u \in Seq(Letters), Grows(t, u), NEW f \in Nat \ {0},
         NEW s \in f .. Len(t), Colon(t, f, s)
  PROVE  Colon(u, f, s)
<1>1. \A i \in f .. s : i \in 1 .. Len(t)  OBVIOUS
<1>2. \A i \in f .. s : u[i] = t[i]  BY <1>1, GrowsAt
<1> QED  BY <1>2 DEF Colon, NoColon

LEMMA CutStays ==
  ASSUME NEW t \in Seq(Letters), NEW u \in Seq(Letters), Grows(t, u), NEW a \in Nat \ {0},
         NEW l \in LineType, NEW m \in LineType, SameMeaning(l, m),
         NEW b \in 0 .. Len(t), Cut(t, a, b, l)
  PROVE  Cut(u, a, b, m)
<1>0. PICK p \in Nat, q \in Nat : p = l.val_begin /\ q = l.val_end  BY DEF LineType
<1>1. m.val_begin = p /\ m.val_end = q  BY <1>0 DEF SameMeaning
<1>2. CASE Blanks(t, a, b) /\ q <= p
  BY <1>1, <1>2, BlanksStay DEF Cut
<1>3. CASE /\ a <= p /\ p < q /\ q <= b + 1 /\ ~IsBlank(t[p])
           /\ Blanks(t, a, p - 1) /\ Blanks(t, q, b)
  <2>1. Len(t) \in Nat /\ b \in Nat /\ b <= Len(t) /\ a >= 1 /\ a \in Nat  OBVIOUS
  <2>2. a <= p /\ p < q /\ q <= b + 1  BY <1>3
  <2>3. p \in 1 .. Len(t) /\ p - 1 \in 0 .. Len(t) /\ q \in Nat \ {0}  BY <2>1, <2>2
  <2>4. Blanks(u, a, p - 1) /\ Blanks(u, q, b) /\ ~IsBlank(u[p])
    BY <1>3, <2>3, BlanksStay, GrowsAt
  <2> QED  BY <1>1, <1>3, <2>4 DEF Cut
<1> QED  BY <1>0, <1>2, <1>3 DEF Cut

LEMMA BareStays ==
  ASSUME NEW t \in Seq(Letters), NEW u \in Seq(Letters), Grows(t, u), NEW s \in Nat \ {0},
         NEW l \in LineType, NEW m \in LineType, SameMeaning(l, m),
         NEW b \in 0 .. Len(t), Bare(t, s, b, l)
  PROVE  Bare(u, s, b, m)
<1>1. l.val_begin \in Nat /\ l.val_end \in Nat  BY DEF LineType
<1>2. Cut(u, s + 1, b, m)  BY CutStays DEF Bare
<1>3. ASSUME l.val_begin < l.val_end PROVE u[l.val_begin] = t[l.val_begin]
  <2>0. PICK p \in Nat, q \in Nat : p = l.val_begin /\ q = l.val_end  BY <1>1
  <2>1. s + 1 <= p /\ q <= b + 1 /\ p < q
    <3>1. p < q /\ ~(q <= p)  BY <2>0, <1>3
    <3>2. (Blanks(t, s + 1, b) /\ q <= p) \/ (s + 1 <= p /\ q <= b + 1)
      BY <2>0 DEF Bare, Cut
    <3> QED  BY <3>1, <3>2
  <2>2. l.val_begin \in 1 .. Len(t)
    <3>1. Len(t) \in Nat /\ b \in Nat /\ b <= Len(t) /\ s \in Nat  OBVIOUS
    <3> QED  BY <2>0, <2>1, <3>1
  <2> QED  BY <2>2, GrowsAt
<1> QED  BY <1>2, <1>3 DEF Bare, SameMeaning

LEMMA QuotedStays ==
  ASSUME NEW t \in Seq(Letters), NEW u \in Seq(Letters), Grows(t, u), NEW s \in Nat \ {0},
         NEW l \in LineType, NEW m \in LineType, SameMeaning(l, m),
         NEW b \in 0 .. Len(t), Quoted(t, s, b, l), NEW d \in b .. Len(u)
  PROVE  Quoted(u, s, d, m)
<1>0. PICK o \in s + 1 .. b : \E c \in o + 1 .. b :
        /\ Opened(t, s, o) /\ t[c] = Closer[t[o]] /\ Unclosed(t, o, c - 1)
        /\ Cut(t, o + 1, c - 1, l)
  BY DEF Quoted
<1>1. PICK c \in o + 1 .. b :
        /\ Opened(t, s, o) /\ t[c] = Closer[t[o]] /\ Unclosed(t, o, c - 1)
        /\ Cut(t, o + 1, c - 1, l)
  BY <1>0
<1>2. o \in s + 1 .. d /\ c \in o + 1 .. d /\ o \in 1 .. Len(t) /\ c \in 1 .. Len(t)  OBVIOUS
<1>3. u[o] = t[o] /\ u[c] = t[c]  BY <1>2, GrowsAt
<1>4. Opened(u, s, o)
  <2>1. s + 1 \in Nat \ {0} /\ o - 1 \in 0 .. Len(t)  OBVIOUS
  <2> QED  BY <1>1, <1>3, <2>1, BlanksStay DEF Opened
<1>5. Unclosed(u, o, c - 1)
  <2>1. \A i \in o + 1 .. c - 1 : i \in 1 .. Len(t)  OBVIOUS
  <2>2. \A i \in o + 1 .. c - 1 : u[i] = t[i]  BY <2>1, GrowsAt
  <2> QED  BY <1>1, <1>3, <2>2 DEF Unclosed
<1>6. Cut(u, o + 1, c - 1, m)
  <2>1. c - 1 \in 0 .. Len(t) /\ o + 1 \in Nat \ {0}  OBVIOUS
  <2> QED  BY <1>1, <2>1, CutStays
<1>7. u[c] = Closer[u[o]]  BY <1>1, <1>3
<1> QED  BY <1>2, <1>4, <1>5, <1>6, <1>7 DEF Quoted

LEMMA DashesStay ==
  ASSUME NEW t \in Seq(Letters), NEW u \in Seq(Letters), Grows(t, u),
         NEW a \in Nat \ {0}, NEW b \in 0 .. Len(t), Dashes(t, a, b)
  PROVE  Dashes(u, a, b)
<1>1. ASSUME NEW i \in a .. b PROVE Indents(u[i])
  <2>1. i \in 1 .. Len(t)  OBVIOUS
  <2>2. Indents(t[i])  BY DEF Dashes
  <2> QED  BY <2>1, <2>2, GrowsAt
<1> QED  BY <1>1 DEF Dashes

LEMMA MeantStays ==
  ASSUME NEW t \in Seq(Letters), NEW u \in Seq(Letters), Grows(t, u), NEW f \in Nat \ {0},
         NEW l \in LineType, NEW m \in LineType, SameMeaning(l, m),
         NEW e \in f .. Len(t) + 1, Meant(t, f, l, e)
  PROVE  Meant(u, f, m, e)
<1>1. CASE Dashes(t, f, e - 1) /\ l.key = "NULL" /\ l.val_begin = 0 /\ l.val_end = 0
  <2>1. e - 1 \in 0 .. Len(t)  OBVIOUS
  <2>2. Dashes(u, f, e - 1)  BY <1>1, <2>1, DashesStay
  <2> QED  BY <1>1, <2>2 DEF Meant, SameMeaning
<1>2. CASE /\ Known(l) /\ Header(t, f, l, e - 1)
           /\ \E s \in f .. e - 1 :
                Colon(t, f, s) /\ (Bare(t, s, e - 1, l) \/ Quoted(t, s, e - 1, l))
  <2>1. PICK s \in f .. e - 1 :
          Colon(t, f, s) /\ (Bare(t, s, e - 1, l) \/ Quoted(t, s, e - 1, l))
    BY <1>2
  <2>2. e - 1 \in 0 .. Len(t) /\ s \in f .. Len(t) /\ s \in Nat \ {0}
        /\ e - 1 \in e - 1 .. Len(u)
    BY DEF Grows
  <2>3. Header(u, f, m, e - 1)  BY <1>2, <2>2, HeaderStays DEF SameMeaning
  <2>4. Colon(u, f, s)  BY <2>1, <2>2, ColonStays
  <2>5. Bare(u, s, e - 1, m) \/ Quoted(u, s, e - 1, m)
    BY <2>1, <2>2, BareStays, QuotedStays
  <2>6. Known(m)  BY <1>2 DEF Known, SameMeaning
  <2> QED  BY <2>1, <2>3, <2>4, <2>5, <2>6 DEF Meant
<1> QED  BY <1>1, <1>2 DEF Meant

LEMMA CodeEndStays ==
  ASSUME NEW t \in Seq(Letters), NEW u \in Seq(Letters), Grows(t, u), NEW f \in Nat \ {0},
         NEW e, CodeEnds(t, f, e), e = Len(t) + 1 /\ Len(u) > Len(t) => u[e] \notin Plain
  PROVE  CodeEnds(u, f, e)
<1>1. e \in f .. Len(t) + 1  BY DEF CodeEnds
<1>2. ASSUME NEW i \in f .. e - 1 PROVE u[i] \in Plain
  <2>1. i \in 1 .. Len(t)  BY <1>1
  <2> QED  BY <2>1, GrowsAt DEF CodeEnds, AllPlain
<1>3. ASSUME e <= Len(u) PROVE u[e] \notin Plain
  <2>1. CASE e <= Len(t)
    <3>1. e \in 1 .. Len(t)  BY <1>1, <2>1
    <3> QED  BY <3>1, <2>1, GrowsAt DEF CodeEnds
  <2> QED  BY <1>1, <1>3, <2>1
<1>4. e \in f .. Len(u) + 1  BY <1>1 DEF Grows
<1> QED  BY <1>2, <1>3, <1>4 DEF CodeEnds, AllPlain

\* A value lies within the text.
LEMMA CutInside ==
  ASSUME NEW t \in Seq(Letters), NEW a \in Nat \ {0}, NEW b \in 0 .. Len(t),
         NEW l \in LineType, Cut(t, a, b, l), l.val_begin < l.val_end
  PROVE  l.val_begin \in a .. b /\ l.val_end - 1 \in a .. b
<1>1. PICK p \in Nat, q \in Nat : p = l.val_begin /\ q = l.val_end  BY DEF LineType
<1>2. p < q /\ ~(q <= p)  BY <1>1
<1>3. (Blanks(t, a, b) /\ q <= p) \/ (a <= p /\ q <= b + 1)  BY <1>1 DEF Cut
<1>4. a \in Nat /\ b \in Nat  OBVIOUS
<1>5. p \in a .. b /\ q - 1 \in a .. b  BY <1>2, <1>3, <1>4
<1> QED  BY <1>1, <1>5

LEMMA MeantInside ==
  ASSUME NEW t \in Seq(Letters), NEW f \in Nat \ {0}, NEW l \in LineType,
         NEW e \in f .. Len(t) + 1, Meant(t, f, l, e), l.val_begin < l.val_end
  PROVE  l.val_begin \in 1 .. Len(t) /\ l.val_end - 1 \in 1 .. Len(t)
<1>0. l.val_begin \in Nat /\ l.val_end \in Nat /\ e - 1 \in 0 .. Len(t)  BY DEF LineType
<1>1. ~(l.val_begin = 0 /\ l.val_end = 0)  BY <1>0
<1>2. PICK s \in f .. e - 1 : Bare(t, s, e - 1, l) \/ Quoted(t, s, e - 1, l)
  BY <1>1 DEF Meant
<1>3. CASE Bare(t, s, e - 1, l)
  <2>1. Cut(t, s + 1, e - 1, l)  BY <1>3 DEF Bare
  <2>2. s + 1 \in Nat \ {0}  OBVIOUS
  <2>3. l.val_begin \in s + 1 .. e - 1 /\ l.val_end - 1 \in s + 1 .. e - 1
    BY <1>0, <2>1, <2>2, CutInside
  <2> QED  BY <1>0, <2>2, <2>3
<1>4. CASE Quoted(t, s, e - 1, l)
  <2>1. PICK o \in s + 1 .. e - 1 : \E c \in o + 1 .. e - 1 : Cut(t, o + 1, c - 1, l)
    BY <1>4 DEF Quoted
  <2>2. PICK c \in o + 1 .. e - 1 : Cut(t, o + 1, c - 1, l)  BY <2>1
  <2>3. o + 1 \in Nat \ {0} /\ c - 1 \in 0 .. Len(t)  BY <1>0
  <2>4. l.val_begin \in o + 1 .. c - 1 /\ l.val_end - 1 \in o + 1 .. c - 1
    BY <1>0, <2>2, <2>3, CutInside
  <2> QED  BY <1>0, <2>3, <2>4
<1> QED  BY <1>2, <1>3, <1>4

LEMMA ThroughStays ==
  ASSUME NEW t \in Seq(Letters), NEW u \in Seq(Letters), Grows(t, u), NEW f \in Nat \ {0},
         NEW l \in LineType, NEW m \in LineType, SameMeaning(l, m),
         NEW e, CodeEnds(t, f, e), Meant(t, f, l, e), Tidy(t, l),
         e = Len(t) + 1 /\ Len(u) > Len(t) => u[e] \notin Plain
  PROVE  Through(u, f, m)
<1>1. e \in f .. Len(t) + 1  BY DEF CodeEnds
<1>2. CodeEnds(u, f, e)  BY CodeEndStays
<1>3. Meant(u, f, m, e)  BY <1>1, MeantStays
<1>4. Tidy(u, m)
  <2>0. PICK p \in Nat, q \in Nat : p = l.val_begin /\ q = l.val_end  BY DEF LineType
  <2>1. m.val_begin = p /\ m.val_end = q  BY <2>0 DEF SameMeaning
  <2>2. CASE q <= p  BY <2>1, <2>2 DEF Tidy
  <2>3. CASE p < q
    <3>1. q - 1 \in 1 .. Len(t)  BY <1>1, <2>0, <2>3, MeantInside
    <3>2. ~IsBlank(t[q - 1])
      <4>1. ~(q <= p)  BY <2>3
      <4> QED  BY <2>0, <4>1 DEF Tidy
    <3>3. ~IsBlank(u[q - 1])  BY <3>1, <3>2, GrowsAt
    <3> QED  BY <2>1, <3>3 DEF Tidy
  <2> QED  BY <2>2, <2>3
<1>5. e \in f .. Len(u) + 1  BY <1>1 DEF Grows
<1> QED  BY <1>2, <1>3, <1>4, <1>5 DEF Through

-----------------------------------------------------------------------------
(* The blanks at the end of a value.                                       *)

\* Trimmed, in the text t.
Trim(t, l) ==
  [l EXCEPT !.val_end = IF l.val_end <= l.val_begin THEN @ ELSE
     Max({l.val_begin} \cup {e \in l.val_begin + 1 .. l.val_end : ~IsBlank(t[e - 1])})]

LEMMA LastSolid ==
  ASSUME NEW t \in Seq(Letters), NEW p \in Nat \ {0}, NEW q \in p + 1 .. Len(t) + 1,
         ~IsBlank(t[p])
  PROVE  \E z \in p + 1 .. q :
           /\ Max({p} \cup {e \in p + 1 .. q : ~IsBlank(t[e - 1])}) = z
           /\ ~IsBlank(t[z - 1]) /\ Blanks(t, z, q - 1)
<1> DEFINE E == {e \in p + 1 .. q : ~IsBlank(t[e - 1])}
<1>0. q \in Nat /\ p \in Nat /\ p >= 1 /\ p + 1 <= q
  <2>1. Len(t) \in Nat  OBVIOUS
  <2> QED  BY <2>1
<1>1. E \in SUBSET (0 .. q) /\ E \in SUBSET Nat
  <2>1. \A e \in E : e \in 0 .. q /\ e \in Nat  BY <1>0
  <2> HIDE DEF E
  <2> QED  BY <2>1
<1>2. p + 1 \in E
  <2>1. p + 1 \in p + 1 .. q /\ (p + 1) - 1 = p  BY <1>0
  <2> QED  BY <2>1
<1>3. PICK z \in E : \A y \in E : y <= z
  <2> HIDE DEF E
  <2> QED  BY <1>0, <1>1, <1>2, LargestExists
<1>4. z \in p + 1 .. q /\ ~IsBlank(t[z - 1])  OBVIOUS
<1>5. Max({p} \cup E) = z
  <2>1. \A y \in {p} \cup E : y <= z
    <3>1. p <= z  BY <1>0, <1>4
    <3> QED  BY <1>3, <3>1
  <2>2. {p} \cup E \in SUBSET Nat /\ z \in {p} \cup E  BY <1>0, <1>1
  <2> HIDE DEF E
  <2> QED  BY <2>1, <2>2, MaxIs
<1>6. ASSUME NEW i \in z .. q - 1 PROVE IsBlank(t[i])
  <2>1. i \in Nat /\ i + 1 \in p + 1 .. q /\ (i + 1) - 1 = i /\ ~(i + 1 <= z)  BY <1>0, <1>4
  <2>2. i + 1 \notin E  BY <1>3, <2>1
  <2> QED  BY <2>1, <2>2
<1> QED  BY <1>4, <1>5, <1>6 DEF Blanks

LEMMA TrimLine ==
  ASSUME NEW t \in Seq(Letters), NEW a \in Nat \ {0}, NEW b \in 0 .. Len(t),
         NEW l \in LineType, Cut(t, a, b, l)
  PROVE  /\ Trim(t, l) \in LineType /\ Cut(t, a, b, Trim(t, l)) /\ Tidy(t, Trim(t, l))
         /\ Trim(t, l).val_begin < Trim(t, l).val_end => l.val_begin < l.val_end
<1>1. PICK p \in Nat, q \in Nat : p = l.val_begin /\ q = l.val_end  BY DEF LineType
<1>2. CASE q <= p
  <2>1. Trim(t, l) = l  BY <1>1, <1>2 DEF Trim, LineType
  <2> QED  BY <1>1, <1>2, <2>1 DEF Tidy
<1>3. CASE ~(q <= p)
  <2>1. /\ a <= p /\ p < q /\ q <= b + 1 /\ ~IsBlank(t[p])
        /\ Blanks(t, a, p - 1) /\ Blanks(t, q, b)
    BY <1>1, <1>3 DEF Cut
  <2>2. p \in Nat \ {0} /\ q \in p + 1 .. Len(t) + 1
    <3>1. a >= 1 /\ a \in Nat /\ b \in Nat /\ Len(t) \in Nat /\ b <= Len(t)  OBVIOUS
    <3>2. a <= p /\ p < q /\ q <= b + 1  BY <2>1
    <3> QED  BY <3>1, <3>2
  <2>3. PICK z \in p + 1 .. q :
          /\ Max({p} \cup {e \in p + 1 .. q : ~IsBlank(t[e - 1])}) = z
          /\ ~IsBlank(t[z - 1]) /\ Blanks(t, z, q - 1)
    BY <2>1, <2>2, LastSolid
  <2>4. Trim(t, l) = [l EXCEPT !.val_end = z]  BY <1>1, <1>3, <2>3 DEF Trim
  <2>5. PICK m \in LineType : m = Trim(t, l) /\ m.val_begin = p /\ m.val_end = z
    BY <1>1, <2>4 DEF LineType
  <2>6. Blanks(t, z, b)
    <3>1. ASSUME NEW i \in z .. b PROVE IsBlank(t[i])
      <4>1. i \in z .. q - 1 \/ i \in q .. b  BY <2>2
      <4> QED  BY <2>1, <2>3, <4>1 DEF Blanks
    <3> QED  BY <3>1 DEF Blanks
  <2>7. p < z /\ z <= b + 1
    <3>1. q <= b + 1  BY <2>1
    <3>2. b \in Nat  OBVIOUS
    <3> QED  BY <2>2, <3>1, <3>2
  <2>8. Cut(t, a, b, m)  BY <2>1, <2>5, <2>6, <2>7 DEF Cut
  <2>9. Tidy(t, m)  BY <2>3, <2>5 DEF Tidy
  <2> QED  BY <1>1, <2>1, <2>5, <2>8, <2>9
<1> QED  BY <1>2, <1>3

LEMMA TrimMeant ==
  ASSUME NEW t \in Seq(Letters), NEW f \in Nat \ {0}, NEW l \in LineType,
         NEW e \in f .. Len(t) + 1, Meant(t, f, l, e)
  PROVE  Trim(t, l) \in LineType /\ Meant(t, f, Trim(t, l), e) /\ Tidy(t, Trim(t, l))
<1> DEFINE m == Trim(t, l)
<1>0. e - 1 \in 0 .. Len(t)  OBVIOUS
<1>1. m.blank = l.blank /\ m.key = l.key /\ m.val_begin = l.val_begin  BY DEF Trim, LineType
<1>2. CASE Dashes(t, f, e - 1) /\ l.key = "NULL" /\ l.val_begin = 0 /\ l.val_end = 0
  <2>1. m = l  BY <1>2 DEF Trim, LineType
  <2>2. Tidy(t, l)  BY <1>2 DEF Tidy
  <2> QED  BY <2>1, <2>2
<1>3. CASE /\ Known(l) /\ Header(t, f, l, e - 1)
           /\ \E s \in f .. e - 1 :
                Colon(t, f, s) /\ (Bare(t, s, e - 1, l) \/ Quoted(t, s, e - 1, l))
  <2>1. PICK s \in f .. e - 1 :
          Colon(t, f, s) /\ (Bare(t, s, e - 1, l) \/ Quoted(t, s, e - 1, l))
    BY <1>3
  <2>2. Known(m) /\ Header(t, f, m, e - 1)  BY <1>1, <1>3 DEF Known, Header
  <2>3. /\ m \in LineType /\ Tidy(t, m)
        /\ Bare(t, s, e - 1, m) \/ Quoted(t, s, e - 1, m)
    <3>1. CASE Bare(t, s, e - 1, l)
      <4>1. Cut(t, s + 1, e - 1, l)  BY <3>1 DEF Bare
      <4>2. s + 1 \in Nat \ {0}  OBVIOUS
      <4>3. /\ m \in LineType /\ Cut(t, s + 1, e - 1, m) /\ Tidy(t, m)
            /\ m.val_begin < m.val_end => l.val_begin < l.val_end
        BY <1>0, <4>1, <4>2, TrimLine
      <4>4. Bare(t, s, e - 1, m)
        <5> HIDE DEF m
        <5> QED  BY <1>1, <3>1, <4>3 DEF Bare
      <4> QED  BY <4>3, <4>4
    <3>2. CASE Quoted(t, s, e - 1, l)
      <4>0. PICK o \in s + 1 .. e - 1 : \E c \in o + 1 .. e - 1 :
              /\ Opened(t, s, o) /\ t[c] = Closer[t[o]] /\ Unclosed(t, o, c - 1)
              /\ Cut(t, o + 1, c - 1, l)
        BY <3>2 DEF Quoted
      <4>1. PICK c \in o + 1 .. e - 1 :
              /\ Opened(t, s, o) /\ t[c] = Closer[t[o]] /\ Unclosed(t, o, c - 1)
              /\ Cut(t, o + 1, c - 1, l)
        BY <4>0
      <4>2. o + 1 \in Nat \ {0} /\ c - 1 \in 0 .. Len(t)  OBVIOUS
      <4>3. m \in LineType /\ Cut(t, o + 1, c - 1, m) /\ Tidy(t, m)
        BY <4>1, <4>2, TrimLine
      <4> HIDE DEF m
      <4>4. Quoted(t, s, e - 1, m)  BY <4>1, <4>3 DEF Quoted
      <4> QED  BY <4>3, <4>4
    <3> QED  BY <2>1, <3>1, <3>2
  <2> HIDE DEF m
  <2>4. \E x \in f .. e - 1 :
          Colon(t, f, x) /\ (Bare(t, x, e - 1, m) \/ Quoted(t, x, e - 1, m))
    BY <2>1, <2>3
  <2>5. Meant(t, f, m, e)  BY <2>2, <2>4 DEF Meant
  <2> QED  BY <2>3, <2>5 DEF m
<1> QED  BY <1>2, <1>3 DEF Meant

-----------------------------------------------------------------------------
(* What Lex knows inside the line, one character on.                       *)

Adds(t, u, c) == Len(u) = Len(t) + 1 /\ u[Len(t) + 1] = c /\ Grows(t, u)

LEMMA BlanksMore ==
  ASSUME NEW t \in Seq(Letters), NEW u \in Seq(Letters), NEW c, Adds(t, u, c),
         NEW a \in Nat \ {0}, Blanks(t, a, Len(t)), IsBlank(c)
  PROVE  Blanks(u, a, Len(u))
<1>1. Len(t) \in 0 .. Len(t) /\ Len(u) = Len(t) + 1  BY DEF Adds
<1>2. Blanks(u, a, Len(t)) /\ IsBlank(u[Len(t) + 1])  BY <1>1, BlanksStay DEF Adds
<1>3. ASSUME NEW i \in a .. Len(u) PROVE IsBlank(u[i])
  <2>1. i \in a .. Len(t) \/ i = Len(t) + 1  BY <1>1
  <2> QED  BY <1>2, <2>1 DEF Blanks
<1> QED  BY <1>3 DEF Blanks

LEMMA DashesMore ==
  ASSUME NEW t \in Seq(Letters), NEW u \in Seq(Letters), NEW c, Adds(t, u, c),
         NEW a \in Nat \ {0}, Dashes(t, a, Len(t)), Indents(c)
  PROVE  Dashes(u, a, Len(u))
<1>1. Len(t) \in 0 .. Len(t) /\ Len(u) = Len(t) + 1  BY DEF Adds
<1>2. Dashes(u, a, Len(t)) /\ Indents(u[Len(t) + 1])  BY <1>1, DashesStay DEF Adds
<1>3. ASSUME NEW i \in a .. Len(u) PROVE Indents(u[i])
  <2>1. i \in a .. Len(t) \/ i = Len(t) + 1  BY <1>1
  <2> QED  BY <1>2, <2>1 DEF Dashes
<1> QED  BY <1>3 DEF Dashes

LEMMA NoColonMore ==
  ASSUME NEW t \in Seq(Letters), NEW u \in Seq(Letters), NEW c, Adds(t, u, c),
         NEW a \in Nat \ {0}, NoColon(t, a, Len(t))
  PROVE  /\ NoColon(u, a, Len(t))
         /\ c # ":" => NoColon(u, a, Len(u))
<1>1. Len(t) \in Nat /\ Len(u) = Len(t) + 1 /\ u[Len(t) + 1] = c  BY DEF Adds
<1>2. ASSUME NEW i \in a .. Len(t) PROVE u[i] # ":"
  <2>1. i \in 1 .. Len(t)  OBVIOUS
  <2>2. u[i] = t[i]  BY <2>1, GrowsAt DEF Adds
  <2> QED  BY <2>2 DEF NoColon
<1>3. ASSUME c # ":", NEW i \in a .. Len(u) PROVE u[i] # ":"
  <2>1. i \in a .. Len(t) \/ i = Len(t) + 1  BY <1>1
  <2> QED  BY <1>1, <1>2, <1>3, <2>1
<1> QED  BY <1>2, <1>3 DEF NoColon

LEMMA PlainMore ==
  ASSUME NEW t \in Seq(Letters), NEW u \in Seq(Letters), NEW c, Adds(t, u, c),
         NEW a \in Nat \ {0}, AllPlain(t, a, Len(t)), c \in Plain
  PROVE  AllPlain(u, a, Len(u))
<1>1. Len(t) \in Nat /\ Len(u) = Len(t) + 1 /\ u[Len(t) + 1] = c  BY DEF Adds
<1>2. ASSUME NEW i \in a .. Len(t) PROVE u[i] \in Plain
  <2>1. i \in 1 .. Len(t)  OBVIOUS
  <2>2. u[i] = t[i]  BY <2>1, GrowsAt DEF Adds
  <2> QED  BY <2>2 DEF AllPlain
<1>3. ASSUME NEW i \in a .. Len(u) PROVE u[i] \in Plain
  <2>1. i \in a .. Len(t) \/ i = Len(t) + 1  BY <1>1
  <2> QED  BY <1>1, <1>2, <2>1
<1> QED  BY <1>3 DEF AllPlain

LEMMA HeaderMore ==
  ASSUME NEW t \in Seq(Letters), NEW u \in Seq(Letters), NEW c, Adds(t, u, c),
         NEW f \in Nat \ {0}, NEW l \in LineType, NEW m \in LineType, m.blank = l.blank,
         Header(t, f, l, Len(t))
  PROVE  Header(u, f, m, Len(u))
<1>1. Len(t) \in 0 .. Len(t) /\ Len(u) \in Len(t) .. Len(u)  BY DEF Adds
<1> QED  BY <1>1, HeaderStays DEF Adds

LEMMA NoneBlank ==
  ASSUME NEW t \in Seq(Letters), NEW u \in Seq(Letters), NEW c, Adds(t, u, c),
         NEW f \in 1 .. Len(t) + 1, NEW l \in LineType, NEW m \in LineType,
         InNone(t, f, l), IsBlank(c),
         m.key = l.key, m.val_begin = l.val_begin, m.val_end = l.val_end,
         m.blank = IF l.blank = Len(t) + 1 - f THEN l.blank + 1 ELSE l.blank
  PROVE  InNone(u, f, m)
<1>0. Len(t) \in 0 .. Len(t) /\ Len(u) = Len(t) + 1 /\ u[Len(t) + 1] = c /\ f \in Nat \ {0}
      /\ Len(t) \in Nat /\ f <= Len(t) + 1
  BY DEF Adds
<1>1. PICK k \in Nat : k = l.blank  BY DEF LineType
<1>2. Dashes(u, f, Len(u))
  <2>1. Indents(c)  BY DEF Indents, IsBlank
  <2> QED  BY <1>0, <2>1, DashesMore DEF InNone
<1>3. f + k <= Len(t) + 1 /\ Blanks(t, f, f + k - 1)
      /\ (f + k <= Len(t) => ~IsBlank(t[f + k]))
  BY <1>1 DEF InNone
<1>4. CASE f + k = Len(t) + 1
  <2>1. m.blank = k + 1  BY <1>0, <1>1, <1>4
  <2>2. f + k - 1 = Len(t)  BY <1>0, <1>4
  <2>3. Blanks(u, f, Len(u))  BY <1>0, <1>3, <2>2, BlanksMore
  <2>4. f + (k + 1) - 1 = Len(u) /\ ~(f + (k + 1) <= Len(u))  BY <1>0, <1>4
  <2>5. f + (k + 1) <= Len(u) + 1  BY <1>0, <1>4
  <2> QED  BY <1>2, <2>1, <2>3, <2>4, <2>5 DEF InNone
<1>5. CASE f + k # Len(t) + 1
  <2>1. m.blank = k  BY <1>0, <1>1, <1>5
  <2>2. f + k - 1 \in 0 .. Len(t) /\ f + k \in 1 .. Len(t)  BY <1>0, <1>3, <1>5
  <2>3. Blanks(u, f, f + k - 1)  BY <1>0, <1>3, <2>2, BlanksStay DEF Adds
  <2>4. ~IsBlank(u[f + k])  BY <1>3, <2>2, GrowsAt DEF Adds
  <2>5. f + k <= Len(u) + 1  BY <1>0, <2>2
  <2> QED  BY <1>2, <2>1, <2>3, <2>4, <2>5 DEF InNone
<1> QED  BY <1>4, <1>5

LEMMA NoneDash ==
  ASSUME NEW t \in Seq(Letters), NEW u \in Seq(Letters), NEW c, Adds(t, u, c),
         NEW f \in 1 .. Len(t) + 1, NEW l \in LineType, NEW m \in LineType,
         InNone(t, f, l), c = "-", SameMeaning(l, m)
  PROVE  InNone(u, f, m)
<1>0. Len(t) \in 0 .. Len(t) /\ Len(u) = Len(t) + 1 /\ u[Len(t) + 1] = c /\ f \in Nat \ {0}
      /\ Len(t) \in Nat /\ f <= Len(t) + 1
  BY DEF Adds
<1>1. PICK k \in Nat : k = l.blank  BY DEF LineType
<1>2. Indents(c) /\ ~IsBlank(c)  BY DEF Indents, IsBlank
<1>3. Dashes(u, f, Len(u))  BY <1>0, <1>2, DashesMore DEF InNone
<1>4. f + k <= Len(t) + 1 /\ Blanks(t, f, f + k - 1)
      /\ (f + k <= Len(t) => ~IsBlank(t[f + k]))
  BY <1>1 DEF InNone
<1>5. f + k - 1 \in 0 .. Len(t) /\ (f + k = Len(t) + 1 \/ f + k \in 1 .. Len(t))
  BY <1>0, <1>4
<1>6. Blanks(u, f, f + k - 1)  BY <1>0, <1>4, <1>5, BlanksStay DEF Adds
<1>7. ~IsBlank(u[f + k])
  <2>1. CASE f + k = Len(t) + 1  BY <1>0, <1>2, <2>1
  <2>2. CASE f + k \in 1 .. Len(t)  BY <1>4, <2>2, GrowsAt DEF Adds
  <2> QED  BY <1>5, <2>1, <2>2
<1>8. f + k <= Len(u) + 1  BY <1>0, <1>4
<1> QED  BY <1>1, <1>3, <1>6, <1>7, <1>8 DEF InNone, SameMeaning

LEMMA NoneKey ==
  ASSUME NEW t \in Seq(Letters), NEW u \in Seq(Letters), NEW c, Adds(t, u, c),
         NEW f \in 1 .. Len(t) + 1, NEW l \in LineType, NEW m \in LineType,
         InNone(t, f, l), IsLetter(c), m.blank = l.blank
  PROVE  InKey(u, f, m)
<1>0. Len(t) \in 0 .. Len(t) /\ Len(u) = Len(t) + 1 /\ u[Len(t) + 1] = c /\ f \in Nat \ {0}
      /\ Len(t) \in Nat /\ f <= Len(t) + 1
  BY DEF Adds
<1>1. PICK k \in Nat : k = l.blank  BY DEF LineType
<1>2. ~Indents(c) /\ ~IsBlank(c) /\ c # ":"  BY DEF Indents, IsBlank, IsLetter
<1>3. NoColon(t, f, Len(t))  BY DEF InNone, Dashes, Indents, NoColon
<1>4. NoColon(u, f, Len(u))  BY <1>0, <1>2, <1>3, NoColonMore
<1>5. f + k <= Len(t) + 1 /\ Blanks(t, f, f + k - 1)
      /\ (f + k <= Len(t) => ~IsBlank(t[f + k]))
  BY <1>1 DEF InNone
<1>6. f + k - 1 \in 0 .. Len(t) /\ (f + k = Len(t) + 1 \/ f + k \in 1 .. Len(t))
  BY <1>0, <1>5
<1>7. Blanks(u, f, f + k - 1)  BY <1>0, <1>5, <1>6, BlanksStay DEF Adds
<1>8. ~IsBlank(u[f + k])
  <2>1. CASE f + k = Len(t) + 1  BY <1>0, <1>2, <2>1
  <2>2. CASE f + k \in 1 .. Len(t)  BY <1>5, <2>2, GrowsAt DEF Adds
  <2> QED  BY <1>6, <2>1, <2>2
<1>9. f + k <= Len(u) /\ \E i \in f .. Len(u) : ~Indents(u[i])
  <2>1. Len(t) + 1 \in f .. Len(u)  BY <1>0
  <2> QED  BY <1>0, <1>2, <1>5, <2>1
<1> QED  BY <1>1, <1>4, <1>7, <1>8, <1>9 DEF InKey, Header

LEMMA KeyMore ==
  ASSUME NEW t \in Seq(Letters), NEW u \in Seq(Letters), NEW c, Adds(t, u, c),
         NEW f \in 1 .. Len(t) + 1, NEW l \in LineType, NEW m \in LineType,
         InKey(t, f, l), c # ":", m.blank = l.blank
  PROVE  InKey(u, f, m)
<1>1. f \in Nat \ {0}  OBVIOUS
<1> QED  BY <1>1, HeaderMore, NoColonMore DEF InKey

LEMMA KeyColon ==
  ASSUME NEW t \in Seq(Letters), NEW u \in Seq(Letters), NEW c, Adds(t, u, c),
         NEW f \in 1 .. Len(t) + 1, NEW l \in LineType, NEW m \in LineType,
         InKey(t, f, l), Known(l), c = ":", m.blank = l.blank, m.key = l.key
  PROVE  InPreVal(u, f, m)
<1>1. f \in Nat \ {0} /\ Len(u) = Len(t) + 1 /\ u[Len(t) + 1] = c /\ Len(t) \in Nat
      /\ f <= Len(t) + 1
  BY DEF Adds
<1>2. Header(u, f, m, Len(u)) /\ NoColon(u, f, Len(t))
  BY <1>1, HeaderMore, NoColonMore DEF InKey
<1>3. Len(t) + 1 \in f .. Len(u) /\ (Len(t) + 1) - 1 = Len(t)  BY <1>1
<1>4. Colon(u, f, Len(t) + 1)  BY <1>1, <1>2, <1>3 DEF Colon
<1>5. Blanks(u, (Len(t) + 1) + 1, Len(u))  BY <1>1 DEF Blanks
<1> QED  BY <1>2, <1>3, <1>4, <1>5 DEF InPreVal, Known

LEMMA PreValBlank ==
  ASSUME NEW t \in Seq(Letters), NEW u \in Seq(Letters), NEW c, Adds(t, u, c),
         NEW f \in 1 .. Len(t) + 1, NEW l \in LineType, NEW m \in LineType,
         InPreVal(t, f, l), IsBlank(c), m.blank = l.blank, m.key = l.key
  PROVE  InPreVal(u, f, m)
<1>1. f \in Nat \ {0} /\ Len(u) = Len(t) + 1 /\ Len(t) \in Nat  BY DEF Adds
<1>2. Header(u, f, m, Len(u)) /\ Known(m)  BY <1>1, HeaderMore DEF InPreVal, Known
<1>3. PICK s \in f .. Len(t) : Colon(t, f, s) /\ Blanks(t, s + 1, Len(t))  BY DEF InPreVal
<1>4. s \in f .. Len(u) /\ s + 1 \in Nat \ {0}  BY <1>1
<1>5. Colon(u, f, s)  BY <1>1, <1>3, ColonStays DEF Adds
<1>6. Blanks(u, s + 1, Len(u))  BY <1>3, <1>4, BlanksMore
<1> QED  BY <1>2, <1>4, <1>5, <1>6 DEF InPreVal

LEMMA PreValQuote ==
  ASSUME NEW t \in Seq(Letters), NEW u \in Seq(Letters), NEW c, Adds(t, u, c),
         NEW f \in 1 .. Len(t) + 1, NEW l \in LineType, NEW m \in LineType,
         InPreVal(t, f, l), m.blank = l.blank, m.key = l.key,
         c \in DOMAIN Closer, m.stack = Closer[c], m.val_begin = Len(u) + 1
  PROVE  InQuotes(u, f, m)
<1>1. f \in Nat \ {0} /\ Len(u) = Len(t) + 1 /\ Len(t) \in Nat  BY DEF Adds
<1>2. Header(u, f, m, Len(u)) /\ Known(m)  BY <1>1, HeaderMore DEF InPreVal, Known
<1>3. PICK s \in f .. Len(t) : Colon(t, f, s) /\ Blanks(t, s + 1, Len(t))  BY DEF InPreVal
<1> DEFINE o == Len(u)
<1>4. s \in f .. Len(u) /\ s + 1 \in Nat \ {0} /\ o \in s + 1 .. Len(u) /\ o - 1 = Len(t)
  BY <1>1
<1>5. Colon(u, f, s)  BY <1>1, <1>3, ColonStays DEF Adds
<1>6. Blanks(u, s + 1, Len(t))
  <2>1. Len(t) \in 0 .. Len(t)  BY <1>1
  <2> QED  BY <1>3, <1>4, <2>1, BlanksStay DEF Adds
<1>7. u[o] = c  BY <1>1 DEF Adds
<1>8. Opened(u, s, o) /\ m.stack = Closer[u[o]]  BY <1>4, <1>6, <1>7 DEF Opened
<1>9. Unclosed(u, o, Len(u))  BY <1>1 DEF Unclosed
<1>10. /\ m.val_begin \in o + 1 .. Len(u) + 1 /\ ~(m.val_begin <= Len(u))
       /\ Blanks(u, o + 1, m.val_begin - 1)
  BY <1>1 DEF Blanks
<1> HIDE DEF o
<1> QED  BY <1>2, <1>4, <1>5, <1>8, <1>9, <1>10 DEF InQuotes

LEMMA PreValBare ==
  ASSUME NEW t \in Seq(Letters), NEW u \in Seq(Letters), NEW c, Adds(t, u, c),
         NEW f \in 1 .. Len(t) + 1, NEW l \in LineType, NEW m \in LineType,
         InPreVal(t, f, l), m.blank = l.blank, m.key = l.key,
         ~IsBlank(c), c \notin DOMAIN Closer, m.val_begin = Len(u)
  PROVE  InBare(u, f, m)
<1>1. f \in Nat \ {0} /\ Len(u) = Len(t) + 1 /\ Len(t) \in Nat  BY DEF Adds
<1>2. Header(u, f, m, Len(u)) /\ Known(m)  BY <1>1, HeaderMore DEF InPreVal, Known
<1>3. PICK s \in f .. Len(t) : Colon(t, f, s) /\ Blanks(t, s + 1, Len(t))  BY DEF InPreVal
<1>4. /\ s \in f .. Len(u) /\ s + 1 \in Nat \ {0}
      /\ m.val_begin \in s + 1 .. Len(u) /\ m.val_begin - 1 = Len(t)
  BY <1>1
<1>5. Colon(u, f, s)  BY <1>1, <1>3, ColonStays DEF Adds
<1>6. Blanks(u, s + 1, m.val_begin - 1)
  <2>1. Len(t) \in 0 .. Len(t)  BY <1>1
  <2> QED  BY <1>3, <1>4, <2>1, BlanksStay DEF Adds
<1>7. u[m.val_begin] = c  BY <1>1 DEF Adds
<1>8. ~IsBlank(u[m.val_begin]) /\ u[m.val_begin] \notin DOMAIN Closer  BY <1>7
<1> QED  BY <1>2, <1>4, <1>5, <1>6, <1>8 DEF InBare

LEMMA BareMore ==
  ASSUME NEW t \in Seq(Letters), NEW u \in Seq(Letters), NEW c, Adds(t, u, c),
         NEW f \in 1 .. Len(t) + 1, NEW l \in LineType, NEW m \in LineType,
         InBare(t, f, l), SameMeaning(l, m)
  PROVE  InBare(u, f, m)
<1>1. f \in Nat \ {0} /\ Len(u) = Len(t) + 1 /\ Len(t) \in Nat  BY DEF Adds
<1>2. Header(u, f, m, Len(u)) /\ Known(m)
  BY <1>1, HeaderMore DEF InBare, Known, SameMeaning
<1>3. PICK s \in f .. Len(t) :
        /\ Colon(t, f, s)
        /\ l.val_begin \in s + 1 .. Len(t) /\ Blanks(t, s + 1, l.val_begin - 1)
        /\ ~IsBlank(t[l.val_begin]) /\ t[l.val_begin] \notin DOMAIN Closer
  BY DEF InBare
<1>4. PICK p \in s + 1 .. Len(t) : p = l.val_begin  BY <1>3
<1>5. m.val_begin = p  BY <1>4 DEF SameMeaning
<1>6. /\ s \in f .. Len(u) /\ s + 1 \in Nat \ {0} /\ p \in s + 1 .. Len(u)
      /\ p - 1 \in 0 .. Len(t) /\ p \in 1 .. Len(t)
  BY <1>1
<1>7. Colon(u, f, s)  BY <1>1, <1>3, ColonStays DEF Adds
<1>8. Blanks(u, s + 1, p - 1)  BY <1>3, <1>4, <1>6, BlanksStay DEF Adds
<1>9. u[p] = t[p]  BY <1>6, GrowsAt DEF Adds
<1> QED  BY <1>2, <1>3, <1>4, <1>5, <1>6, <1>7, <1>8, <1>9 DEF InBare

\* Within quotes: a blank before the value, a character of it, the closing one.
LEMMA QuotesMore ==
  ASSUME NEW t \in Seq(Letters), NEW u \in Seq(Letters), NEW c, Adds(t, u, c),
         NEW f \in 1 .. Len(t) + 1, NEW l \in LineType, NEW m \in LineType,
         InQuotes(t, f, l), c # l.stack, m.stack = l.stack, m.blank = l.blank, m.key = l.key,
         \/ l.val_begin = Len(t) + 1 /\ IsBlank(c) /\ m.val_begin = Len(t) + 2
         \/ ~(l.val_begin = Len(t) + 1 /\ IsBlank(c)) /\ m.val_begin = l.val_begin
  PROVE  InQuotes(u, f, m)
<1>1. f \in Nat \ {0} /\ Len(u) = Len(t) + 1 /\ Len(t) \in Nat /\ u[Len(t) + 1] = c
  BY DEF Adds
<1>2. Header(u, f, m, Len(u)) /\ Known(m)  BY <1>1, HeaderMore DEF InQuotes, Known
<1>3. PICK s \in f .. Len(t) : \E o \in s + 1 .. Len(t) :
        /\ Colon(t, f, s) /\ Opened(t, s, o) /\ l.stack = Closer[t[o]] /\ Unclosed(t, o, Len(t))
        /\ l.val_begin \in o + 1 .. Len(t) + 1 /\ Blanks(t, o + 1, l.val_begin - 1)
        /\ l.val_begin <= Len(t) => ~IsBlank(t[l.val_begin])
  BY DEF InQuotes
<1>4. PICK o \in s + 1 .. Len(t) :
        /\ Colon(t, f, s) /\ Opened(t, s, o) /\ l.stack = Closer[t[o]] /\ Unclosed(t, o, Len(t))
        /\ l.val_begin \in o + 1 .. Len(t) + 1 /\ Blanks(t, o + 1, l.val_begin - 1)
        /\ l.val_begin <= Len(t) => ~IsBlank(t[l.val_begin])
  BY <1>3
<1>5. PICK p \in o + 1 .. Len(t) + 1 : p = l.val_begin  BY <1>4
<1>6. /\ s \in f .. Len(u) /\ s + 1 \in Nat \ {0} /\ o \in s + 1 .. Len(u)
      /\ o \in 1 .. Len(t) /\ o - 1 \in 0 .. Len(t) /\ o + 1 \in Nat \ {0}
      /\ p - 1 \in 0 .. Len(t) /\ p \in 1 .. Len(t) + 1 /\ o \in Nat
  BY <1>1
<1>7. Colon(u, f, s)  BY <1>1, <1>4, ColonStays DEF Adds
<1>8. u[o] = t[o]  BY <1>6, GrowsAt DEF Adds
<1>9. Opened(u, s, o) /\ m.stack = Closer[u[o]]
  <2>1. Blanks(u, s + 1, o - 1)  BY <1>4, <1>6, BlanksStay DEF Adds, Opened
  <2> QED  BY <1>4, <1>8, <2>1 DEF Opened
<1>10. Unclosed(u, o, Len(u))
  <2>1. ASSUME NEW i \in o + 1 .. Len(u) PROVE u[i] # Closer[t[o]]
    <3>1. CASE i \in o + 1 .. Len(t)
      <4>1. i \in 1 .. Len(t)  BY <3>1, <1>6
      <4>2. u[i] = t[i]  BY <4>1, GrowsAt DEF Adds
      <4> QED  BY <1>4, <3>1, <4>2 DEF Unclosed
    <3>2. CASE i = Len(t) + 1  BY <1>1, <1>4, <3>2
    <3> QED  BY <1>1, <1>6, <3>1, <3>2
  <2> QED  BY <1>8, <2>1 DEF Unclosed
<1>11. Blanks(u, o + 1, p - 1)  BY <1>4, <1>5, <1>6, BlanksStay DEF Adds
<1>12. CASE l.val_begin = Len(t) + 1 /\ IsBlank(c) /\ m.val_begin = Len(t) + 2
  <2>1. Blanks(t, o + 1, Len(t))
    <3>1. p - 1 = Len(t)  BY <1>1, <1>5, <1>12
    <3> QED  BY <1>4, <1>5, <3>1
  <2>2. Blanks(u, o + 1, Len(u))  BY <1>6, <1>12, <2>1, BlanksMore
  <2>3. m.val_begin - 1 = Len(u) /\ m.val_begin \in o + 1 .. Len(u) + 1
        /\ ~(m.val_begin <= Len(u))
    BY <1>1, <1>6, <1>12
  <2> QED  BY <1>2, <1>6, <1>7, <1>9, <1>10, <2>2, <2>3 DEF InQuotes
<1>13. CASE ~(l.val_begin = Len(t) + 1 /\ IsBlank(c)) /\ m.val_begin = l.val_begin
  <2>1. m.val_begin = p /\ p \in o + 1 .. Len(u) + 1  BY <1>1, <1>5, <1>6, <1>13
  <2>2. ~IsBlank(u[p])
    <3>1. CASE p = Len(t) + 1  BY <1>1, <1>5, <1>13, <3>1
    <3>2. CASE p \in 1 .. Len(t)
      <4>1. u[p] = t[p]  BY <3>2, GrowsAt DEF Adds
      <4> QED  BY <1>4, <1>5, <3>2, <4>1
    <3> QED  BY <1>1, <1>6, <3>1, <3>2
  <2> QED  BY <1>2, <1>6, <1>7, <1>9, <1>10, <1>11, <2>1, <2>2 DEF InQuotes
<1> QED  BY <1>12, <1>13

LEMMA QuotesClose ==
  ASSUME NEW t \in Seq(Letters), NEW u \in Seq(Letters), NEW c, Adds(t, u, c),
         NEW f \in 1 .. Len(t) + 1, NEW l \in LineType, NEW m \in LineType,
         InQuotes(t, f, l), c = l.stack, m.blank = l.blank, m.key = l.key,
         m.val_begin = l.val_begin, m.val_end = Len(t) + 1,
         AllPlain(u, f, Len(u))
  PROVE  InClean(u, f, m)
<1>1. f \in Nat \ {0} /\ Len(u) = Len(t) + 1 /\ Len(t) \in Nat /\ u[Len(t) + 1] = c
  BY DEF Adds
<1>2. Header(u, f, m, Len(u)) /\ Known(m)  BY <1>1, HeaderMore DEF InQuotes, Known
<1>3. PICK s \in f .. Len(t) : \E o \in s + 1 .. Len(t) :
        /\ Colon(t, f, s) /\ Opened(t, s, o) /\ l.stack = Closer[t[o]] /\ Unclosed(t, o, Len(t))
        /\ l.val_begin \in o + 1 .. Len(t) + 1 /\ Blanks(t, o + 1, l.val_begin - 1)
        /\ l.val_begin <= Len(t) => ~IsBlank(t[l.val_begin])
  BY DEF InQuotes
<1>4. PICK o \in s + 1 .. Len(t) :
        /\ Colon(t, f, s) /\ Opened(t, s, o) /\ l.stack = Closer[t[o]] /\ Unclosed(t, o, Len(t))
        /\ l.val_begin \in o + 1 .. Len(t) + 1 /\ Blanks(t, o + 1, l.val_begin - 1)
        /\ l.val_begin <= Len(t) => ~IsBlank(t[l.val_begin])
  BY <1>3
<1>5. PICK p \in o + 1 .. Len(t) + 1 : p = l.val_begin  BY <1>4
<1> DEFINE e == Len(t) + 1
<1>6. /\ s \in f .. Len(u) /\ s + 1 \in Nat \ {0} /\ o \in s + 1 .. Len(u) /\ e \in o + 1 .. Len(u)
      /\ o \in 1 .. Len(t) /\ o - 1 \in 0 .. Len(t) /\ o + 1 \in Nat \ {0} /\ e - 1 = Len(t)
      /\ p - 1 \in 0 .. Len(t) /\ p \in 1 .. Len(t) + 1 /\ o \in Nat
  BY <1>1
<1>7. Colon(u, f, s)  BY <1>1, <1>4, ColonStays DEF Adds
<1>8. u[o] = t[o] /\ u[e] = c  BY <1>1, <1>6, GrowsAt DEF Adds
<1>9. Opened(u, s, o) /\ u[e] = Closer[u[o]]
  <2>1. Blanks(u, s + 1, o - 1)  BY <1>4, <1>6, BlanksStay DEF Adds, Opened
  <2> QED  BY <1>4, <1>8, <2>1 DEF Opened
<1>10. Unclosed(u, o, Len(t))
  <2>1. ASSUME NEW i \in o + 1 .. Len(t) PROVE u[i] # Closer[t[o]]
    <3>1. i \in 1 .. Len(t)  BY <1>6
    <3>2. u[i] = t[i]  BY <3>1, GrowsAt DEF Adds
    <3> QED  BY <1>4, <3>2 DEF Unclosed
  <2> QED  BY <1>8, <2>1 DEF Unclosed
<1>11. Cut(u, o + 1, Len(t), m)
  <2>1. Blanks(u, o + 1, p - 1)  BY <1>4, <1>5, <1>6, BlanksStay DEF Adds
  <2>2. CASE p = Len(t) + 1
    <3>1. p - 1 = Len(t)  BY <1>1, <2>2
    <3>2. m.val_end <= m.val_begin  BY <1>1, <1>5, <2>2
    <3> QED  BY <2>1, <3>1, <3>2 DEF Cut
  <2>3. CASE p \in 1 .. Len(t)
    <3>1. u[p] = t[p]  BY <2>3, GrowsAt DEF Adds
    <3>2. ~IsBlank(u[p])  BY <1>4, <1>5, <2>3, <3>1
    <3>3. o + 1 <= p /\ p < e /\ e <= Len(t) + 1 /\ m.val_begin = p /\ m.val_end = e
      BY <1>1, <1>5, <2>3
    <3>4. Blanks(u, e, Len(t))  BY <1>1 DEF Blanks
    <3> QED  BY <2>1, <3>2, <3>3, <3>4 DEF Cut
  <2> QED  BY <1>1, <1>6, <2>2, <2>3
<1>12. Quoted(u, s, Len(u), m)
  <2> HIDE DEF e
  <2> QED  BY <1>6, <1>9, <1>10, <1>11 DEF Quoted
<1> DEFINE g == Len(u) + 1
<1>13. g \in f .. Len(u) + 1 /\ g - 1 = Len(u) /\ ~(g <= Len(u))  BY <1>1
<1>14. CodeEnds(u, f, g)  BY <1>13 DEF CodeEnds
<1>15. Meant(u, f, m, g)
  <2>1. s \in f .. g - 1  BY <1>6, <1>13
  <2>2. Header(u, f, m, g - 1) /\ Quoted(u, s, g - 1, m)  BY <1>2, <1>12, <1>13
  <2> HIDE DEF g
  <2> QED  BY <1>2, <1>7, <2>1, <2>2 DEF Meant
<1> HIDE DEF g
<1> QED  BY <1>2, <1>6, <1>7, <1>12, <1>13, <1>14, <1>15 DEF InClean

LEMMA CleanMore ==
  ASSUME NEW t \in Seq(Letters), NEW u \in Seq(Letters), NEW c, Adds(t, u, c),
         NEW f \in 1 .. Len(t) + 1, NEW l \in LineType, NEW m \in LineType,
         InClean(t, f, l), SameMeaning(l, m)
  PROVE  InClean(u, f, m)
<1>1. f \in Nat \ {0} /\ Len(u) = Len(t) + 1 /\ Len(t) \in Nat /\ u[Len(t) + 1] = c
  BY DEF Adds
<1>2. PICK e \in f .. Len(t) + 1 :
        /\ CodeEnds(t, f, e) /\ Meant(t, f, l, e)
        /\ e = Len(t) + 1 =>
             /\ Known(l) /\ Header(t, f, l, Len(t))
             /\ \E s \in f .. Len(t) : Colon(t, f, s) /\ Quoted(t, s, Len(t), l)
  BY DEF InClean
<1>3. CASE e <= Len(t) \/ c \notin Plain
  <2>1. CodeEnds(u, f, e)  BY <1>1, <1>2, <1>3, CodeEndStays DEF Adds
  <2>2. Meant(u, f, m, e)  BY <1>1, <1>2, MeantStays DEF Adds
  <2>3. e \in f .. Len(u) + 1 /\ e # Len(u) + 1  BY <1>1
  <2> QED  BY <2>1, <2>2, <2>3 DEF InClean
<1>4. CASE e = Len(t) + 1 /\ c \in Plain
  <2>1. PICK s \in f .. Len(t) : Colon(t, f, s) /\ Quoted(t, s, Len(t), l)  BY <1>2, <1>4
  <2>2. AllPlain(t, f, Len(t))
    <3>1. e - 1 = Len(t)  BY <1>1, <1>4
    <3> QED  BY <1>2, <3>1 DEF CodeEnds
  <2>3. AllPlain(u, f, Len(u))  BY <1>1, <1>4, <2>2, PlainMore
  <2>4. Header(u, f, m, Len(u)) /\ Known(m)
    BY <1>1, <1>2, <1>4, HeaderMore DEF SameMeaning, Known
  <2>5. Colon(u, f, s)  BY <1>1, <2>1, ColonStays DEF Adds
  <2>6. Quoted(u, s, Len(u), m)
    <3>1. s \in Nat \ {0} /\ Len(t) \in 0 .. Len(t) /\ Len(u) \in Len(t) .. Len(u)  BY <1>1
    <3> QED  BY <2>1, <3>1, QuotedStays DEF Adds
  <2> DEFINE g == Len(u) + 1
  <2>7. g \in f .. Len(u) + 1 /\ g - 1 = Len(u) /\ ~(g <= Len(u)) /\ s \in f .. Len(u)  BY <1>1
  <2>8. CodeEnds(u, f, g)  BY <2>3, <2>7 DEF CodeEnds
  <2>9. Meant(u, f, m, g)
    <3>1. s \in f .. g - 1 /\ Header(u, f, m, g - 1) /\ Quoted(u, s, g - 1, m)
      BY <2>4, <2>6, <2>7
    <3> HIDE DEF g
    <3> QED  BY <2>4, <2>5, <3>1 DEF Meant
  <2> HIDE DEF g
  <2> QED  BY <2>4, <2>5, <2>6, <2>7, <2>8, <2>9 DEF InClean
<1> QED  BY <1>1, <1>3, <1>4

-----------------------------------------------------------------------------
(* The steps of Lex.                                                       *)

LEMMA BareMeans ==
  ASSUME NEW t \in Seq(Letters), NEW f \in 1 .. Len(t) + 1, NEW l \in LineType,
         NEW m \in LineType, InBare(t, f, l), m.blank = l.blank, m.key = l.key,
         m.val_begin = l.val_begin, m.val_end = Len(t) + 1
  PROVE  Meant(t, f, m, Len(t) + 1)
<1>1. PICK s \in f .. Len(t) :
        /\ Colon(t, f, s)
        /\ l.val_begin \in s + 1 .. Len(t) /\ Blanks(t, s + 1, l.val_begin - 1)
        /\ ~IsBlank(t[l.val_begin]) /\ t[l.val_begin] \notin DOMAIN Closer
  BY DEF InBare
<1>2. PICK p \in s + 1 .. Len(t) : p = l.val_begin  BY <1>1
<1> DEFINE e == Len(t) + 1
<1>3. e \in Nat /\ e - 1 = Len(t) /\ s + 1 <= p /\ p < e /\ e <= (e - 1) + 1  OBVIOUS
<1>4. Blanks(t, e, e - 1)  BY <1>3 DEF Blanks
<1>5. Cut(t, s + 1, e - 1, m)
  <2> HIDE DEF e
  <2>1. m.val_begin = p /\ m.val_end = e  BY <1>2 DEF e
  <2> QED  BY <1>1, <1>2, <1>3, <1>4, <2>1 DEF Cut
<1>6. Bare(t, s, e - 1, m)  BY <1>1, <1>5 DEF Bare
<1>7. Header(t, f, m, e - 1) /\ Known(m) /\ s \in f .. e - 1
  BY <1>3 DEF InBare, Header, Known
<1> HIDE DEF e
<1>8. Meant(t, f, m, e)  BY <1>1, <1>6, <1>7 DEF Meant
<1> QED  BY <1>8 DEF e

LEMMA PreValMeans ==
  ASSUME NEW t \in Seq(Letters), NEW f \in 1 .. Len(t) + 1, NEW l \in LineType,
         NEW m \in LineType, InPreVal(t, f, l), m.blank = l.blank, m.key = l.key,
         m.val_end = m.val_begin
  PROVE  Meant(t, f, m, Len(t) + 1)
<1>1. PICK s \in f .. Len(t) : Colon(t, f, s) /\ Blanks(t, s + 1, Len(t))  BY DEF InPreVal
<1> DEFINE e == Len(t) + 1
<1>2. e - 1 = Len(t) /\ s \in f .. e - 1  OBVIOUS
<1>3. PICK p \in Nat : m.val_begin = p /\ m.val_end = p  BY DEF LineType
<1>4. p <= p /\ ~(p < p)  BY <1>3
<1>5. Cut(t, s + 1, e - 1, m)  BY <1>1, <1>2, <1>3, <1>4 DEF Cut
<1>6. Bare(t, s, e - 1, m)  BY <1>3, <1>4, <1>5 DEF Bare
<1>7. Header(t, f, m, e - 1) /\ Known(m)  BY <1>2 DEF InPreVal, Header, Known
<1> HIDE DEF e
<1>8. Meant(t, f, m, e)  BY <1>1, <1>2, <1>6, <1>7 DEF Meant
<1> QED  BY <1>8 DEF e

LEMMA NoneMeans ==
  ASSUME NEW t \in Seq(Letters), NEW f \in 1 .. Len(t) + 1, NEW l \in LineType,
         InNone(t, f, l)
  PROVE  Meant(t, f, l, Len(t) + 1)
<1>1. (Len(t) + 1) - 1 = Len(t)  OBVIOUS
<1> QED  BY <1>1 DEF InNone, Meant

\* What AtBound makes of the line, in the text t.
Bounded(t, l) ==
  IF l.block = "VAL" THEN Trim(t, [l EXCEPT !.block = "CLEAN", !.val_end = Len(t) + 1])
  ELSE IF l.block = "PRE_VAL"
  THEN [l EXCEPT !.block = "CLEAN", !.val_begin = Len(t) + 1, !.val_end = Len(t) + 1]
  ELSE Trim(t, l)

LEMMA AtBoundIs == AtBound = Bounded(text, line)
BY DEF AtBound, Bounded, Trimmed, Trim, Here

LEMMA BoundMeans ==
  ASSUME NEW t \in Seq(Letters), NEW f \in 1 .. Len(t) + 1, NEW l \in LineType,
         Inside(t, f, l), l.block \notin {"KEY", "PRE_SEP"},
         ~(l.block = "VAL" /\ l.stack # "NUL")
  PROVE  /\ Bounded(t, l) \in LineType /\ Bounded(t, l).chars = l.chars
         /\ \E e \in f .. Len(t) + 1 :
              /\ CodeEnds(t, f, e) /\ Meant(t, f, Bounded(t, l), e) /\ Tidy(t, Bounded(t, l))
              /\ l.block # "CLEAN" => e = Len(t) + 1
<1>0. f \in Nat \ {0} /\ Len(t) + 1 \in f .. Len(t) + 1 /\ (Len(t) + 1) - 1 = Len(t)
      /\ Len(t) + 1 \in Nat /\ ~(Len(t) + 1 <= Len(t))
  OBVIOUS
<1>1. l.block # "CLEAN" => CodeEnds(t, f, Len(t) + 1)
  BY <1>0 DEF Inside, CodeEnds
<1>2. CASE l.block = "VAL"
  <2>1. InBare(t, f, l)  BY <1>2 DEF Inside
  <2>2. PICK m \in LineType :
          /\ m = [l EXCEPT !.block = "CLEAN", !.val_end = Len(t) + 1]
          /\ m.blank = l.blank /\ m.key = l.key /\ m.chars = l.chars
          /\ m.val_begin = l.val_begin /\ m.val_end = Len(t) + 1
    <3>1. PICK n \in Nat : n = Len(t) + 1  BY <1>0
    <3> DEFINE r == [l EXCEPT !.block = "CLEAN", !.val_end = n]
    <3>2. r \in LineType  BY DEF LineType
    <3>3. /\ r.blank = l.blank /\ r.key = l.key /\ r.chars = l.chars
          /\ r.val_begin = l.val_begin /\ r.val_end = n
      BY DEF LineType
    <3>4. r = [l EXCEPT !.block = "CLEAN", !.val_end = Len(t) + 1]  BY <3>1
    <3> HIDE DEF r
    <3> QED  BY <3>1, <3>2, <3>3, <3>4
  <2>3. Meant(t, f, m, Len(t) + 1)  BY <2>1, <2>2, BareMeans
  <2>4. Trim(t, m) \in LineType /\ Meant(t, f, Trim(t, m), Len(t) + 1) /\ Tidy(t, Trim(t, m))
    BY <1>0, <2>3, TrimMeant
  <2>5. Bounded(t, l) = Trim(t, m)  BY <1>2, <2>2 DEF Bounded
  <2>6. Trim(t, m).chars = m.chars  BY DEF Trim, LineType
  <2> QED  BY <1>0, <1>1, <1>2, <2>2, <2>4, <2>5, <2>6
<1>3. CASE l.block = "PRE_VAL"
  <2>1. InPreVal(t, f, l)  BY <1>3 DEF Inside
  <2>2. PICK m \in LineType :
          /\ m = [l EXCEPT !.block = "CLEAN", !.val_begin = Len(t) + 1, !.val_end = Len(t) + 1]
          /\ m.blank = l.blank /\ m.key = l.key /\ m.chars = l.chars
          /\ m.val_begin = Len(t) + 1 /\ m.val_end = Len(t) + 1
    <3>1. PICK n \in Nat : n = Len(t) + 1  BY <1>0
    <3> DEFINE r == [l EXCEPT !.block = "CLEAN", !.val_begin = n, !.val_end = n]
    <3>2. r \in LineType  BY DEF LineType
    <3>3. /\ r.blank = l.blank /\ r.key = l.key /\ r.chars = l.chars
          /\ r.val_begin = n /\ r.val_end = n
      BY DEF LineType
    <3>4. r = [l EXCEPT !.block = "CLEAN", !.val_begin = Len(t) + 1, !.val_end = Len(t) + 1]
      BY <3>1
    <3> HIDE DEF r
    <3> QED  BY <3>1, <3>2, <3>3, <3>4
  <2>3. Meant(t, f, m, Len(t) + 1)  BY <2>1, <2>2, PreValMeans
  <2>4. Tidy(t, m)  BY <1>0, <2>2 DEF Tidy
  <2>5. Bounded(t, l) = m  BY <1>3, <2>2 DEF Bounded
  <2> QED  BY <1>0, <1>1, <1>3, <2>2, <2>3, <2>4, <2>5
<1>4. CASE l.block \notin {"VAL", "PRE_VAL"}
  <2>1. Bounded(t, l) = Trim(t, l)  BY <1>4 DEF Bounded
  <2>2. PICK e \in f .. Len(t) + 1 :
          CodeEnds(t, f, e) /\ Meant(t, f, l, e) /\ (l.block # "CLEAN" => e = Len(t) + 1)
    <3>1. CASE l.block = "CLEAN"  BY <3>1 DEF Inside, InClean
    <3>2. CASE l.block = "NONE"
      <4>1. Meant(t, f, l, Len(t) + 1)  BY <3>2, NoneMeans DEF Inside
      <4> QED  BY <1>0, <1>1, <3>2, <4>1
    <3>3. l.block \in {"NONE", "KEY", "PRE_SEP", "PRE_VAL", "VAL", "CLEAN"}  BY DEF LineType
    <3> QED  BY <1>4, <3>1, <3>2, <3>3
  <2>3. Trim(t, l) \in LineType /\ Meant(t, f, Trim(t, l), e) /\ Tidy(t, Trim(t, l))
    BY <1>0, <2>2, TrimMeant
  <2>4. Trim(t, l).chars = l.chars  BY DEF Trim, LineType
  <2> QED  BY <2>1, <2>2, <2>3, <2>4
<1> QED  BY <1>2, <1>3, <1>4

\* What is read within a line.
LEMMA NextExpected ==
  ASSUME NEW t, NEW f, NEW c \in Following(t, f)
  PROVE  Expected(t, f, c) /\ c \in Letters
<1>1. c \in Letters  BY FollowingLetters
<1>2. CASE c = "NUL"  BY <1>1, <1>2 DEF Expected
<1>3. CASE \E i \in f .. Len(t) : t[i] = "#"  BY <1>1, <1>3 DEF Expected
<1>4. CASE c # "NUL" /\ ~\E i \in f .. Len(t) : t[i] = "#"
  <2>1. c \in ListChars \/ c \in Chars  BY <1>4 DEF Following
  <2> QED  BY <1>1, <2>1 DEF Expected
<1> QED  BY <1>2, <1>3, <1>4

\* Before a comment, whatever is neither the end of the line nor a comment is code.
LEMMA NextPlain ==
  ASSUME NEW t \in Seq(Letters), NEW f \in 1 .. Len(t) + 1, NEW c, Expected(t, f, c),
         AllPlain(t, f, Len(t)), ~IsSoftLineBound(c)
  PROVE  c \in Plain
<1>1. c \notin {"NUL", "CR", "LF", "#"}  BY DEF IsSoftLineBound, IsLineBound
<1>2. ~\E i \in f .. Len(t) : t[i] = "#"  BY DEF AllPlain, Plain
<1> QED  BY <1>1, <1>2 DEF Expected, Plain

\* The character is read, into the line that the block makes of l; what is left to be
\* shown is what Lex knows of it.
ReadInto(l) ==
  /\ text \in Seq(Letters) /\ text' \in Seq(Letters) /\ Adds(text, text', next)
  /\ from \in 1 .. Len(text) + 1
  /\ line' \in LineType /\ SameMeaning(l, line')
  /\ line'.block = l.block /\ line'.stack = l.stack
  /\ Inside(text, from, line)
  /\ ~IsSoftLineBound(next) /\ AllPlain(text, from, Len(text))
       => AllPlain(text', from, Len(text'))
  /\ Inside(text', from, line') => MeaningInv'

LEMMA ContinueFacts ==
  ASSUME MeaningInv, result = "lexing", NEW l \in LineType, l.chars = line.chars, Continue(l)
  PROVE  ReadInto(l)
<1>1. /\ text \in Seq(Letters) /\ line \in LineType /\ from \in Nat \ {0} /\ from <= Len(text) + 1
      /\ line.chars = Len(text) + 1 - from /\ Expected(text, from, next) /\ next \in Letters
      /\ Inside(text, from, line)
  BY DEF MeaningInv
<1>2. /\ text' = Append(text, next) /\ line' = [l EXCEPT !.chars = @ + 1]
      /\ next' \in Following(text', from) /\ result' = "lexing" /\ from' = from
  BY DEF Continue
<1>3. /\ text' \in Seq(Letters) /\ Len(text') = Len(text) + 1 /\ Len(text) \in Nat
      /\ text'[Len(text) + 1] = next /\ \A i \in 1 .. Len(text) : text'[i] = text[i]
  BY <1>1, <1>2, AppendProperties
<1>4. Adds(text, text', next)  BY <1>3 DEF Adds, Grows
<1>5. line' \in LineType /\ line'.chars = l.chars + 1  BY <1>2 DEF LineType
<1>6. SameMeaning(l, line') /\ line'.block = l.block /\ line'.stack = l.stack
  BY <1>2 DEF LineType, SameMeaning
<1>7. from \in 1 .. Len(text) + 1  BY <1>1, <1>3
<1>8. ASSUME ~IsSoftLineBound(next), AllPlain(text, from, Len(text))
      PROVE  AllPlain(text', from, Len(text'))
  <2>1. next \in Plain  BY <1>1, <1>7, <1>8, NextPlain
  <2> QED  BY <1>1, <1>3, <1>4, <1>8, <2>1, PlainMore
<1>9. ASSUME Inside(text', from, line') PROVE MeaningInv'
  <2>1. Expected(text', from, next') /\ next' \in Letters  BY <1>2, NextExpected
  <2>2. line'.chars = Len(text') + 1 - from'
    <3>1. PICK n \in Nat : n = Len(text)  BY <1>3
    <3>2. l.chars = n + 1 - from  BY <1>1, <3>1
    <3>3. (n + 1 - from) + 1 = (n + 1) + 1 - from  BY <1>1, <3>1
    <3> QED  BY <1>2, <1>3, <1>5, <3>1, <3>2, <3>3
  <2>3. from' \in Nat \ {0} /\ from' <= Len(text') + 1  BY <1>1, <1>2, <1>3
  <2> QED  BY <1>2, <1>3, <1>5, <1>9, <2>1, <2>2, <2>3 DEF MeaningInv
<1> QED  BY <1>1, <1>3, <1>4, <1>5, <1>6, <1>7, <1>8, <1>9 DEF ReadInto

LEMMA FailMeans ==
  ASSUME MeaningInv, NEW e, e \notin {"lexing", "PEC_NONE"}, Fail(e)
  PROVE  MeaningInv'
BY DEF Fail, MeaningInv

LEMMA BeginMeans ==
  ASSUME MeaningInv, result = "lexing", Begin
  PROVE  MeaningInv'
<1>0. line \in LineType  BY DEF MeaningInv
<1>1. line.block = "NONE" /\ ~IsSoftLineBound(next)  BY DEF Begin
<1>2. CASE Fail("PEC_ILLEGAL_KEY")  BY <1>2, FailMeans
<1>3. CASE /\ IsBlank(next)
           /\ Continue([line EXCEPT !.blank = IF @ = line.chars THEN @ + 1 ELSE @])
  <2> DEFINE l == [line EXCEPT !.blank = IF @ = line.chars THEN @ + 1 ELSE @]
  <2>1. /\ l \in LineType /\ l.chars = line.chars /\ l.key = line.key
        /\ l.val_begin = line.val_begin /\ l.val_end = line.val_end /\ l.block = "NONE"
        /\ l.blank = IF line.blank = line.chars THEN line.blank + 1 ELSE line.blank
    BY <1>0, <1>1 DEF LineType
  <2>2. Continue(l)  BY <1>3
  <2> HIDE DEF l
  <2>3. ReadInto(l)  BY <2>1, <2>2, ContinueFacts
  <2>4. line.chars = Len(text) + 1 - from  BY DEF MeaningInv
  <2>5. InNone(text, from, line) /\ AllPlain(text, from, Len(text))
    BY <1>1, <2>3 DEF ReadInto, Inside
  <2>6. /\ line'.key = line.key /\ line'.val_begin = line.val_begin
        /\ line'.val_end = line.val_end
        /\ line'.blank = IF line.blank = Len(text) + 1 - from THEN line.blank + 1 ELSE line.blank
    BY <2>1, <2>3, <2>4 DEF ReadInto, SameMeaning
  <2>7. InNone(text', from, line')  BY <1>0, <1>3, <2>3, <2>4, <2>5, <2>6, NoneBlank DEF ReadInto
  <2> QED  BY <1>1, <2>1, <2>3, <2>5, <2>7 DEF ReadInto, Inside
<1>4. CASE next = "-" /\ Continue(line)
  <2>1. ReadInto(line)  BY <1>0, <1>4, ContinueFacts
  <2>2. InNone(text, from, line) /\ AllPlain(text, from, Len(text))
    BY <1>1, <2>1 DEF ReadInto, Inside
  <2>3. InNone(text', from, line')  BY <1>0, <1>4, <2>1, <2>2, NoneDash DEF ReadInto
  <2> QED  BY <1>1, <2>1, <2>2, <2>3 DEF ReadInto, Inside
<1>5. CASE /\ IsLetter(next)
           /\ Continue([line EXCEPT !.block = "KEY",
                                    !.key = IF next = "x" THEN "NULL" ELSE next])
  <2> DEFINE l == [line EXCEPT !.block = "KEY", !.key = IF next = "x" THEN "NULL" ELSE next]
  <2>1. l \in LineType /\ l.chars = line.chars /\ l.blank = line.blank /\ l.block = "KEY"
    BY <1>0, <1>5 DEF LineType, IsLetter
  <2>2. Continue(l)  BY <1>5
  <2> HIDE DEF l
  <2>3. ReadInto(l)  BY <2>1, <2>2, ContinueFacts
  <2>4. InNone(text, from, line) /\ AllPlain(text, from, Len(text))
    BY <1>1, <2>3 DEF ReadInto, Inside
  <2>5. line'.blank = line.blank  BY <2>1, <2>3 DEF ReadInto, SameMeaning
  <2>6. InKey(text', from, line')  BY <1>0, <1>5, <2>3, <2>4, <2>5, NoneKey DEF ReadInto
  <2> QED  BY <1>1, <2>1, <2>3, <2>4, <2>6 DEF ReadInto, Inside
<1> QED  BY <1>2, <1>3, <1>4, <1>5 DEF Begin

\* Behind the key.
LEMMA SeparatorMeans ==
  ASSUME MeaningInv, result = "lexing", line.block \in {"KEY", "PRE_SEP"}, Known(line),
         ~IsSoftLineBound(next), NEW l \in LineType, l.chars = line.chars,
         SameMeaning(line, l), l.block = "PRE_SEP", Separator(l)
  PROVE  MeaningInv'
<1>0. line \in LineType  BY DEF MeaningInv
<1>1. CASE Fail("PEC_NONSUPPORT_SYNTAX")  BY <1>1, FailMeans
<1>2. CASE next = ":" /\ Continue([l EXCEPT !.block = "PRE_VAL"])
  <2> DEFINE m == [l EXCEPT !.block = "PRE_VAL"]
  <2>1. m \in LineType /\ m.chars = line.chars /\ SameMeaning(line, m) /\ m.block = "PRE_VAL"
    BY DEF LineType, SameMeaning
  <2>2. Continue(m)  BY <1>2
  <2> HIDE DEF m
  <2>3. ReadInto(m)  BY <2>1, <2>2, ContinueFacts
  <2>4. InKey(text, from, line) /\ AllPlain(text, from, Len(text))
    BY <2>3 DEF ReadInto, Inside
  <2>5. line'.blank = line.blank /\ line'.key = line.key
    BY <2>1, <2>3 DEF ReadInto, SameMeaning
  <2>6. InPreVal(text', from, line')  BY <1>0, <1>2, <2>3, <2>4, <2>5, KeyColon DEF ReadInto
  <2> QED  BY <2>1, <2>3, <2>4, <2>6 DEF ReadInto, Inside
<1>3. CASE next # ":" /\ Continue(l)
  <2>1. ReadInto(l)  BY <1>3, ContinueFacts
  <2>2. InKey(text, from, line) /\ AllPlain(text, from, Len(text))
    BY <2>1 DEF ReadInto, Inside
  <2>3. line'.blank = line.blank /\ line'.key = line.key
    BY <2>1 DEF ReadInto, SameMeaning
  <2>4. InKey(text', from, line') /\ Known(line')
    BY <1>0, <1>3, <2>1, <2>2, <2>3, KeyMore DEF ReadInto, Known
  <2> QED  BY <2>1, <2>2, <2>4 DEF ReadInto, Inside
<1> QED  BY <1>1, <1>2, <1>3 DEF Separator

LEMMA KeyMeans ==
  ASSUME MeaningInv, result = "lexing", Key \/ PreSep
  PROVE  MeaningInv'
<1>0. line \in LineType  BY DEF MeaningInv
<1>1. line.block \in {"KEY", "PRE_SEP"} /\ ~IsSoftLineBound(next)  BY DEF Key, PreSep
<1>2. CASE Fail("PEC_ILLEGAL_KEY")  BY <1>2, FailMeans
<1>3. CASE line.block = "KEY" /\ (IsLetter(next) \/ IsNumber(next)) /\ Continue(line)
  <2>1. ReadInto(line)  BY <1>0, <1>3, ContinueFacts
  <2>2. InKey(text, from, line) /\ AllPlain(text, from, Len(text))
    BY <1>3, <2>1 DEF ReadInto, Inside
  <2>3. line'.blank = line.blank /\ next # ":"
    BY <1>3, <2>1 DEF ReadInto, SameMeaning, IsLetter, IsNumber
  <2>4. InKey(text', from, line')  BY <1>0, <2>1, <2>2, <2>3, KeyMore DEF ReadInto
  <2> QED  BY <1>1, <1>3, <2>1, <2>2, <2>4 DEF ReadInto, Inside
<1>4. CASE line.block = "KEY" /\ line.key # "NULL" /\ Separator([line EXCEPT !.block = "PRE_SEP"])
  <2> DEFINE l == [line EXCEPT !.block = "PRE_SEP"]
  <2>1. l \in LineType /\ l.chars = line.chars /\ SameMeaning(line, l) /\ l.block = "PRE_SEP"
    BY <1>0 DEF LineType, SameMeaning
  <2>2. Separator(l)  BY <1>4
  <2>3. Known(line)  BY <1>0, <1>4 DEF LineType, Known
  <2> HIDE DEF l
  <2> QED  BY <1>1, <2>1, <2>2, <2>3, SeparatorMeans
<1>5. CASE line.block = "PRE_SEP" /\ Separator(line)
  <2>1. SameMeaning(line, line)  BY DEF SameMeaning
  <2>2. Known(line)  BY <1>5 DEF MeaningInv, Inside
  <2> QED  BY <1>0, <1>1, <1>5, <2>1, <2>2, SeparatorMeans
<1> QED  BY <1>2, <1>3, <1>4, <1>5 DEF Key, PreSep

LEMMA PreValStep ==
  ASSUME MeaningInv, result = "lexing", PreVal
  PROVE  MeaningInv'
<1>0. line \in LineType /\ text \in Seq(Letters)  BY DEF MeaningInv
<1>1. line.block = "PRE_VAL" /\ ~IsSoftLineBound(next)  BY DEF PreVal
<1>2. CASE IsBlank(next) /\ Continue(line)
  <2>1. ReadInto(line)  BY <1>0, <1>2, ContinueFacts
  <2>2. InPreVal(text, from, line) /\ AllPlain(text, from, Len(text))
    BY <1>1, <2>1 DEF ReadInto, Inside
  <2>3. line'.blank = line.blank /\ line'.key = line.key  BY <2>1 DEF ReadInto, SameMeaning
  <2>4. InPreVal(text', from, line')
    BY <1>0, <1>2, <2>1, <2>2, <2>3, PreValBlank DEF ReadInto
  <2> QED  BY <1>1, <2>1, <2>2, <2>4 DEF ReadInto, Inside
<1>3. PICK n \in Nat : n = Here  BY <1>0 DEF Here
<1>4. CASE /\ next \in DOMAIN Closer
           /\ Continue([line EXCEPT !.block = "VAL", !.stack = Closer[next],
                                    !.val_begin = Here + 1])
  <2>1. PICK q \in {"quote", "]"} : q = Closer[next]
    <3>1. Closer[next] \in {"quote", "]"}  BY <1>4 DEF Closer
    <3> QED  BY <3>1
  <2> DEFINE l == [line EXCEPT !.block = "VAL", !.stack = q, !.val_begin = n + 1]
  <2>2. l \in LineType
    <3>1. PICK w \in Nat : w = n + 1  OBVIOUS
    <3>2. CASE q = "quote"
      <4>1. l = [line EXCEPT !.block = "VAL", !.stack = "quote", !.val_begin = w]
        BY <3>1, <3>2
      <4>2. [line EXCEPT !.block = "VAL", !.stack = "quote", !.val_begin = w] \in LineType
        BY <1>0 DEF LineType
      <4> QED  BY <4>1, <4>2
    <3>3. CASE q = "]"
      <4>1. l = [line EXCEPT !.block = "VAL", !.stack = "]", !.val_begin = w]
        BY <3>1, <3>3
      <4>2. [line EXCEPT !.block = "VAL", !.stack = "]", !.val_begin = w] \in LineType
        BY <1>0 DEF LineType
      <4> QED  BY <4>1, <4>2
    <3> QED  BY <2>1, <3>2, <3>3
  <2>3. /\ l.chars = line.chars /\ l.blank = line.blank /\ l.key = line.key /\ l.block = "VAL"
        /\ l.stack = q /\ l.val_begin = n + 1
    BY <1>0 DEF LineType
  <2>4. Continue(l)  BY <1>3, <1>4, <2>1
  <2> HIDE DEF l
  <2>5. ReadInto(l)  BY <2>2, <2>3, <2>4, ContinueFacts
  <2>6. InPreVal(text, from, line) /\ AllPlain(text, from, Len(text))
    BY <1>1, <2>5 DEF ReadInto, Inside
  <2>7. /\ line'.blank = line.blank /\ line'.key = line.key /\ line'.stack = Closer[next]
        /\ line'.val_begin = Len(text') + 1
    BY <1>3, <2>1, <2>3, <2>5 DEF ReadInto, SameMeaning, Adds, Here
  <2>8. InQuotes(text', from, line')
    BY <1>0, <1>4, <2>5, <2>6, <2>7, PreValQuote DEF ReadInto
  <2> QED  BY <1>1, <2>1, <2>3, <2>5, <2>6, <2>8 DEF ReadInto, Inside
<1>5. CASE /\ ~IsBlank(next) /\ next \notin DOMAIN Closer
           /\ Continue([line EXCEPT !.block = "VAL", !.stack = "NUL", !.val_begin = Here])
  <2> DEFINE l == [line EXCEPT !.block = "VAL", !.stack = "NUL", !.val_begin = n]
  <2>1. l \in LineType  BY <1>0 DEF LineType
  <2>2. /\ l.chars = line.chars /\ l.blank = line.blank /\ l.key = line.key /\ l.block = "VAL"
        /\ l.stack = "NUL" /\ l.val_begin = n
    BY <1>0 DEF LineType
  <2>3. Continue(l)  BY <1>3, <1>5
  <2> HIDE DEF l
  <2>4. ReadInto(l)  BY <2>1, <2>2, <2>3, ContinueFacts
  <2>5. InPreVal(text, from, line) /\ AllPlain(text, from, Len(text))
    BY <1>1, <2>4 DEF ReadInto, Inside
  <2>6. /\ line'.blank = line.blank /\ line'.key = line.key
        /\ line'.val_begin = Len(text')
    BY <1>3, <2>2, <2>4 DEF ReadInto, SameMeaning, Adds, Here
  <2>7. InBare(text', from, line')
    BY <1>0, <1>5, <2>4, <2>5, <2>6, PreValBare DEF ReadInto
  <2> QED  BY <1>1, <2>2, <2>4, <2>5, <2>7 DEF ReadInto, Inside
<1> QED  BY <1>2, <1>4, <1>5 DEF PreVal

LEMMA ValMeans ==
  ASSUME MeaningInv, result = "lexing", Val
  PROVE  MeaningInv'
<1>0. line \in LineType /\ text \in Seq(Letters) /\ Inside(text, from, line)
      /\ from \in Nat \ {0} /\ from <= Len(text) + 1
  BY DEF MeaningInv
<1>1. line.block = "VAL" /\ ~IsSoftLineBound(next)  BY DEF Val
<1>2. PICK n \in Nat : n = Here /\ n = Len(text) + 1  BY <1>0 DEF Here
<1>3. AllPlain(text, from, Len(text))  BY <1>0, <1>1 DEF Inside
<1>4. CASE line.stack = "NUL"
  <2>1. InBare(text, from, line)  BY <1>0, <1>1, <1>4 DEF Inside
  <2>2. line.val_begin # Here
    <3>1. PICK s \in from .. Len(text) : line.val_begin \in s + 1 .. Len(text)
      BY <2>1 DEF InBare
    <3> QED  BY <1>0, <3>1 DEF Here
  <2>3. Continue(line)  BY <1>4, <2>2 DEF Val
  <2>4. ReadInto(line)  BY <1>0, <2>3, ContinueFacts
  <2>5. InBare(text', from, line')  BY <1>0, <2>1, <2>4, BareMore DEF ReadInto
  <2> QED  BY <1>1, <1>3, <1>4, <2>4, <2>5 DEF ReadInto, Inside
<1>5. CASE line.stack # "NUL"
  <2>1. InQuotes(text, from, line)  BY <1>0, <1>1, <1>5 DEF Inside
  <2>2. ASSUME NEW l \in LineType, l.chars = line.chars, l.blank = line.blank,
               l.key = line.key, l.block = "VAL", l.stack = line.stack, Continue(l),
               next # line.stack,
               \/ line.val_begin = n /\ IsBlank(next) /\ l.val_begin = n + 1
               \/ ~(line.val_begin = n /\ IsBlank(next)) /\ l.val_begin = line.val_begin
        PROVE  MeaningInv'
    <3>1. ReadInto(l)  BY <2>2, ContinueFacts
    <3>2. /\ line'.stack = line.stack /\ line'.blank = line.blank /\ line'.key = line.key
          /\ line'.block = "VAL" /\ line'.val_begin = l.val_begin
      BY <2>2, <3>1 DEF ReadInto, SameMeaning
    <3>3. n = Len(text) + 1 /\ n + 1 = Len(text) + 2  BY <1>0, <1>2
    <3>4. \/ line.val_begin = Len(text) + 1 /\ IsBlank(next) /\ line'.val_begin = Len(text) + 2
          \/ ~(line.val_begin = Len(text) + 1 /\ IsBlank(next))
               /\ line'.val_begin = line.val_begin
      BY <2>2, <3>2, <3>3
    <3>5. InQuotes(text', from, line')
      BY <1>0, <2>1, <2>2, <3>1, <3>2, <3>4, QuotesMore DEF ReadInto
    <3> QED  BY <1>1, <1>3, <1>5, <3>1, <3>2, <3>5 DEF ReadInto, Inside
  <2>3. CASE line.val_begin = Here /\ IsBlank(next)
    <3> DEFINE l == [line EXCEPT !.val_begin = n + 1]
    <3>1. l \in LineType  BY <1>0 DEF LineType
    <3>2. /\ l.chars = line.chars /\ l.blank = line.blank /\ l.key = line.key
          /\ l.block = "VAL" /\ l.stack = line.stack /\ l.val_begin = n + 1
      BY <1>0, <1>1 DEF LineType
    <3>3. Continue(l)  BY <1>2, <2>3 DEF Val
    <3>4. next # line.stack  BY <1>0, <2>3 DEF LineType, IsBlank
    <3> HIDE DEF l
    <3> QED  BY <1>2, <2>2, <2>3, <3>1, <3>2, <3>3, <3>4
  <2>4. CASE ~(line.val_begin = Here /\ IsBlank(next)) /\ next = line.stack
    <3> DEFINE l == [line EXCEPT !.block = "CLEAN", !.val_end = n]
    <3>1. l \in LineType  BY <1>0 DEF LineType
    <3>2. /\ l.chars = line.chars /\ l.blank = line.blank /\ l.key = line.key
          /\ l.block = "CLEAN" /\ l.val_begin = line.val_begin /\ l.val_end = n
      BY <1>0, <1>1 DEF LineType
    <3>3. Continue(l)  BY <1>2, <1>5, <2>4 DEF Val
    <3> HIDE DEF l
    <3>4. ReadInto(l)  BY <3>1, <3>2, <3>3, ContinueFacts
    <3>5. /\ line'.blank = line.blank /\ line'.key = line.key /\ line'.block = "CLEAN"
          /\ line'.val_begin = line.val_begin /\ line'.val_end = Len(text) + 1
      BY <1>2, <3>2, <3>4 DEF ReadInto, SameMeaning
    <3>6. AllPlain(text', from, Len(text'))  BY <1>1, <1>3, <3>4 DEF ReadInto
    <3>7. InClean(text', from, line')
      BY <1>0, <2>1, <2>4, <3>4, <3>5, <3>6, QuotesClose DEF ReadInto
    <3> QED  BY <3>4, <3>5, <3>7 DEF ReadInto, Inside
  <2>5. CASE ~(line.val_begin = Here /\ IsBlank(next)) /\ next # line.stack
    <3>1. Continue(line)  BY <2>5 DEF Val
    <3> QED  BY <1>0, <1>1, <1>2, <2>2, <2>5, <3>1
  <2> QED  BY <2>3, <2>4, <2>5
<1> QED  BY <1>4, <1>5

LEMMA CleanMeans ==
  ASSUME MeaningInv, result = "lexing", Clean
  PROVE  MeaningInv'
<1>0. line \in LineType /\ text \in Seq(Letters)  BY DEF MeaningInv
<1>1. line.block = "CLEAN" /\ Continue(line)  BY DEF Clean
<1>2. ReadInto(line)  BY <1>0, <1>1, ContinueFacts
<1>3. InClean(text, from, line)  BY <1>1, <1>2 DEF ReadInto, Inside
<1>4. InClean(text', from, line')  BY <1>0, <1>2, <1>3, CleanMore DEF ReadInto
<1> QED  BY <1>1, <1>2, <1>4 DEF ReadInto, Inside

\* The line ends: what AtBound leaves is what the line means.
LEMMA EndMeans ==
  ASSUME MeaningInv, result = "lexing", Bound, result' = "PEC_NONE"
  PROVE  MeaningInv'
<1>0. /\ text \in Seq(Letters) /\ line \in LineType /\ from \in Nat \ {0}
      /\ from <= Len(text) + 1 /\ from \in 1 .. Len(text) + 1 /\ next \in Letters
      /\ Inside(text, from, line)
  BY DEF MeaningInv
<1>1. /\ line.block \notin {"KEY", "PRE_SEP"} /\ ~(line.block = "VAL" /\ line.stack # "NUL")
      /\ next # "#" /\ next \in {"NUL", "CR", "LF"}
      /\ line' = [AtBound EXCEPT !.chars = @ + 1] /\ from' = from
      /\ IF next = "NUL" THEN UNCHANGED <<text, next>>
         ELSE \E c \in Following(Append(text, next), Here + 1) : LineEnd(c)
  BY DEF Bound, Fail, Continue, IsSoftLineBound, IsLineBound
<1> DEFINE l == Bounded(text, line)
<1>2. /\ l \in LineType
      /\ \E e \in from .. Len(text) + 1 :
           CodeEnds(text, from, e) /\ Meant(text, from, l, e) /\ Tidy(text, l)
  BY <1>0, <1>1, BoundMeans
<1>3. line' = [l EXCEPT !.chars = @ + 1]  BY <1>1, AtBoundIs
<1> HIDE DEF l
<1>4. PICK e \in from .. Len(text) + 1 :
        CodeEnds(text, from, e) /\ Meant(text, from, l, e) /\ Tidy(text, l)
  BY <1>2
<1>5. line' \in LineType /\ SameMeaning(l, line')  BY <1>2, <1>3 DEF LineType, SameMeaning
<1>6. /\ text' \in Seq(Letters) /\ Grows(text, text') /\ next' \in Chars \cup ListChars \cup {"NUL"}
      /\ Len(text') > Len(text) => text'[Len(text) + 1] \in {"CR", "LF"}
  <2>1. CASE next = "NUL"  BY <1>0, <1>1, <2>1 DEF Grows
  <2>2. CASE next \in {"CR", "LF"}
    <3>1. PICK c \in Following(Append(text, next), Here + 1) : LineEnd(c)  BY <1>1, <2>2
    <3>2. PICK t \in Seq(Letters) : t = Append(text, next)  BY <1>0, AppendProperties
    <3>3. /\ Len(t) = Len(text) + 1 /\ t[Len(text) + 1] = next /\ Len(text) \in Nat
          /\ \A i \in 1 .. Len(text) : t[i] = text[i]
      BY <1>0, <3>2, AppendProperties
    <3>4. c \in Chars \cup {"NUL"}
      <4>1. ~\E i \in Here + 1 .. Len(t) : TRUE  BY <1>0, <3>3 DEF Here
      <4>2. ~\E i \in Here + 1 .. Len(t) : t[i] = "#" \/ t[i] = "list"  BY <4>1
      <4> QED  BY <3>1, <3>2, <4>2 DEF Following
    <3>5. CASE c \in {"CR", "LF"} /\ c # next
      <4>1. text' = text \o <<next, c>> /\ next' \in Following(text', Len(text'))
        BY <3>1, <3>5 DEF LineEnd
      <4>2. c \in Letters  BY <3>5 DEF Letters, CommentChars
      <4>3. text' = Append(t, c)  BY <1>0, <3>2, <4>1, <4>2
      <4>4. /\ text' \in Seq(Letters) /\ Len(text') = Len(t) + 1 /\ text'[Len(t) + 1] = c
            /\ \A i \in 1 .. Len(t) : text'[i] = t[i]
        BY <4>2, <4>3, AppendProperties
      <4>5. \A i \in Len(text') .. Len(text') : text'[i] = c  BY <3>3, <4>4
      <4>6. ~\E i \in Len(text') .. Len(text') : text'[i] = "#" \/ text'[i] = "list"
        BY <3>5, <4>5
      <4>7. next' \in Chars \cup {"NUL"}  BY <4>1, <4>6 DEF Following
      <4>8. text'[Len(text) + 1] = next /\ Grows(text, text')
        BY <3>3, <4>4 DEF Grows
      <4> QED  BY <2>2, <4>4, <4>7, <4>8
    <3>6. CASE ~(c \in {"CR", "LF"} /\ c # next)
      <4>1. text' = t /\ next' = c  BY <3>1, <3>2, <3>6 DEF LineEnd
      <4>2. Grows(text, text')  BY <3>3, <4>1 DEF Grows
      <4> QED  BY <2>2, <3>3, <3>4, <4>1, <4>2
    <3> QED  BY <3>5, <3>6
  <2> QED  BY <1>1, <2>1, <2>2
<1>7. Through(text', from, line')
  <2>1. e = Len(text) + 1 /\ Len(text') > Len(text) => text'[e] \notin Plain
    BY <1>6 DEF Plain
  <2> QED  BY <1>0, <1>2, <1>4, <1>5, <1>6, <2>1, ThroughStays
<1>8. from' <= Len(text') + 1
  <2>1. Len(text) \in Nat /\ Len(text') \in Nat /\ Len(text) <= Len(text')
    BY <1>0, <1>6 DEF Grows
  <2> QED  BY <1>0, <1>1, <2>1
<1> QED  BY <1>0, <1>1, <1>5, <1>6, <1>7, <1>8 DEF MeaningInv

\* A comment begins: the same, and the rest of the line is skipped.
LEMMA CommentMeans ==
  ASSUME MeaningInv, result = "lexing", Bound, next = "#",
         Continue([AtBound EXCEPT !.block = "CLEAN"])
  PROVE  MeaningInv'
<1>0. /\ text \in Seq(Letters) /\ line \in LineType /\ from \in 1 .. Len(text) + 1
      /\ from \in Nat \ {0} /\ Inside(text, from, line)
  BY DEF MeaningInv
<1>1. /\ line.block \notin {"KEY", "PRE_SEP"} /\ ~(line.block = "VAL" /\ line.stack # "NUL")
      /\ line.block # "CLEAN"
  <2>1. ~IsLineBound(next)  BY DEF IsLineBound
  <2>2. result' = "lexing"  BY DEF Continue
  <2> QED  BY <2>1, <2>2 DEF Bound, Fail
<1> DEFINE b == Bounded(text, line)
           l == [b EXCEPT !.block = "CLEAN"]
<1>2. /\ b \in LineType /\ b.chars = line.chars
      /\ CodeEnds(text, from, Len(text) + 1) /\ Meant(text, from, b, Len(text) + 1)
  BY <1>0, <1>1, BoundMeans
<1>3. Continue(l)  BY AtBoundIs
<1> HIDE DEF b
<1>4. l \in LineType /\ l.chars = line.chars /\ SameMeaning(b, l) /\ l.block = "CLEAN"
  BY <1>2 DEF LineType, SameMeaning
<1> HIDE DEF l
<1>5. ReadInto(l)  BY <1>3, <1>4, ContinueFacts
<1>6. SameMeaning(b, line') /\ line' \in LineType /\ line'.block = "CLEAN"
  BY <1>4, <1>5 DEF ReadInto, SameMeaning
<1> DEFINE e == Len(text) + 1
<1>7. /\ e \in from .. Len(text) + 1 /\ e \in from .. Len(text') + 1 /\ e # Len(text') + 1
      /\ text' \in Seq(Letters) /\ Grows(text, text') /\ text'[e] = "#"
  BY <1>0, <1>5 DEF ReadInto, Adds
<1>8. CodeEnds(text', from, e)
  <2>1. text'[e] \notin Plain  BY <1>7 DEF Plain
  <2>2. CodeEnds(text, from, e)  BY <1>2
  <2> HIDE DEF e
  <2> QED  BY <1>0, <1>7, <2>1, <2>2, CodeEndStays
<1>9. Meant(text', from, line', e)
  <2>1. Meant(text, from, b, e)  BY <1>2
  <2> HIDE DEF e
  <2> QED  BY <1>0, <1>2, <1>6, <1>7, <2>1, MeantStays
<1>10. InClean(text', from, line')
  <2> HIDE DEF e
  <2> QED  BY <1>7, <1>8, <1>9 DEF InClean
<1> QED  BY <1>5, <1>6, <1>10 DEF ReadInto, Inside

\* MeaningInv is inductive: one step for each block of Lex.
LEMMA MeaningStep ==
  ASSUME MeaningInv, [Next]_vars
  PROVE  MeaningInv'
<1>1. CASE Lex
  <2>0. result = "lexing"  BY <1>1 DEF Lex
  <2>2. CASE Nothing
    <3>1. /\ text \in Seq(Letters) /\ from = Len(text) + 1 /\ Len(text) \in Nat
          /\ next = "NUL" /\ UNCHANGED <<text, next, from>> /\ result' = "PEC_NONE"
      BY <2>2 DEF Nothing, AtEnd, Here, MeaningInv
    <3>2. /\ line' \in LineType /\ line'.key = "NULL"
          /\ line'.val_begin = 0 /\ line'.val_end = 0
      BY <2>2 DEF Nothing, NewLine, LineType
    <3>3. PICK f \in Nat \ {0} : f = from  BY <3>1
    <3>4. f \in f .. Len(text) + 1 /\ ~(f <= Len(text)) /\ \A i \in f .. f - 1 : FALSE
      BY <3>1, <3>3
    <3>5. CodeEnds(text, f, f) /\ Meant(text, f, line', f) /\ Tidy(text, line')
      BY <3>2, <3>4 DEF CodeEnds, AllPlain, Meant, Dashes, Tidy
    <3>6. Through(text', from', line')  BY <3>1, <3>3, <3>4, <3>5 DEF Through
    <3> QED  BY <3>1, <3>2, <3>6 DEF MeaningInv
  <2>1. CASE Bound
    <3>1. CASE Fail("PEC_NOT_CLOSURE")  BY <3>1, FailMeans
    <3>2. CASE next = "#" /\ Continue([AtBound EXCEPT !.block = "CLEAN"])
      BY <2>0, <2>1, <3>2, CommentMeans
    <3>3. CASE result' = "PEC_NONE"  BY <2>0, <2>1, <3>3, EndMeans
    <3> QED  BY <2>1, <3>1, <3>2, <3>3 DEF Bound
  <2> QED
    BY <1>1, <2>0, <2>1, <2>2, CleanMeans, BeginMeans, KeyMeans, PreValStep, ValMeans DEF Lex
<1>2. CASE Again
  <2>1. /\ text \in Seq(Letters) /\ next \in Chars \cup ListChars \cup {"NUL"}
        /\ text' = text /\ next' = next /\ result' = "lexing" /\ line' = NewLine
        /\ from' = Len(text) + 1
    BY <1>2 DEF Again, MeaningInv
  <2>2. PICK f \in Nat \ {0} : f = Len(text) + 1  BY <2>1
  <2>3. line' \in LineType /\ line'.chars = 0 /\ line'.blank = 0 /\ line'.block = "NONE"
        /\ line'.key = "NULL" /\ line'.val_begin = 0 /\ line'.val_end = 0
    BY <2>1 DEF NewLine, LineType
  <2>4. f = Len(text) + 1 /\ f + 0 - 1 = Len(text) /\ ~(f + 0 <= Len(text))
        /\ 0 = Len(text) + 1 - f /\ f + 0 <= Len(text) + 1
    BY <2>1, <2>2
  <2>5. /\ Dashes(text, f, Len(text)) /\ Blanks(text, f, f + 0 - 1)
        /\ AllPlain(text, f, Len(text))
    BY <2>1, <2>2 DEF Dashes, Blanks, AllPlain
  <2>6. InNone(text', f, line')  BY <2>1, <2>3, <2>4, <2>5 DEF InNone
  <2>7. Inside(text', f, line')  BY <2>1, <2>3, <2>5, <2>6 DEF Inside
  <2>8. Expected(text', f, next') /\ next' \in Letters  BY <2>1 DEF Expected, Letters
  <2> QED  BY <2>1, <2>2, <2>3, <2>4, <2>7, <2>8 DEF MeaningInv
<1>3. CASE UNCHANGED vars  BY <1>3 DEF vars, MeaningInv
<1> QED  BY <1>1, <1>2, <1>3 DEF Next

LEMMA MeaningInit ==
  ASSUME Init
  PROVE  MeaningInv
<1>1. /\ text = <<>> /\ next \in Following(<<>>, 1) /\ result = "lexing" /\ line = NewLine
      /\ from = 1 /\ text \in Seq(Letters) /\ Len(text) = 0
  BY DEF Init
<1>2. Expected(text, from, next) /\ next \in Letters  BY <1>1, NextExpected
<1>3. line \in LineType /\ line.chars = 0 /\ line.blank = 0 /\ line.block = "NONE"
      /\ line.key = "NULL" /\ line.val_begin = 0 /\ line.val_end = 0
  BY <1>1 DEF NewLine, LineType
<1>4. from + line.blank = 1 /\ 1 - 1 = 0 /\ ~(1 <= 0) /\ 0 + 1 - from = 0  BY <1>1, <1>3
<1>5. Dashes(text, 1, 0) /\ Blanks(text, 1, 0) /\ AllPlain(text, 1, 0)
  BY DEF Dashes, Blanks, AllPlain
<1>6. InNone(text, from, line)  BY <1>1, <1>3, <1>4, <1>5 DEF InNone
<1>7. Inside(text, from, line)  BY <1>1, <1>3, <1>5, <1>6 DEF Inside
<1> QED  BY <1>1, <1>2, <1>3, <1>4, <1>7 DEF MeaningInv

-----------------------------------------------------------------------------
(* What Lex has made of a line is what the manual says.                    *)

LEMMA SubSeqIs ==
  ASSUME NEW t \in Seq(Letters), NEW a \in Nat \ {0}, NEW b \in 0 .. Len(t), a <= b + 1
  PROVE  /\ SubSeq(t, a, b) \in Seq(Letters) /\ Len(SubSeq(t, a, b)) = b + 1 - a
         /\ DOMAIN SubSeq(t, a, b) = 1 .. b + 1 - a
         /\ \A i \in 1 .. b + 1 - a : SubSeq(t, a, b)[i] = t[a + i - 1]
OBVIOUS

LEMMA SubSeqOf ==
  ASSUME NEW t \in Seq(Letters), NEW a \in Nat \ {0}, NEW b \in 0 .. Len(t), a <= b + 1,
         NEW p \in a .. b + 1, NEW q \in 0 .. b, p <= q + 1
  PROVE  SubSeq(SubSeq(t, a, b), p + 1 - a, q + 1 - a) = SubSeq(t, p, q)
OBVIOUS

\* Strip, Code, After and Written by positions.
LEMMA StripNone ==
  ASSUME NEW t \in Seq(Letters), NEW a \in Nat \ {0}, NEW b \in 0 .. Len(t), a <= b + 1,
         Blanks(t, a, b)
  PROVE  Strip(SubSeq(t, a, b)) = <<>>
<1> DEFINE s == SubSeq(t, a, b)
<1>1. DOMAIN s = 1 .. b + 1 - a /\ \A i \in 1 .. b + 1 - a : s[i] = t[a + i - 1]
  BY SubSeqIs
<1>2. ASSUME NEW i \in DOMAIN s PROVE IsBlank(s[i])
  <2>1. i \in 1 .. b + 1 - a /\ s[i] = t[a + i - 1]  BY <1>1
  <2>2. a + i - 1 \in a .. b
    <3> HIDE DEF s
    <3> QED  BY <2>1
  <2> QED  BY <2>1, <2>2 DEF Blanks
<1> HIDE DEF s
<1>3. {i \in DOMAIN s : ~IsBlank(s[i])} = {}  BY <1>2
<1> QED  BY <1>3 DEF Strip, s

LEMMA StripIs ==
  ASSUME NEW t \in Seq(Letters), NEW a \in Nat \ {0}, NEW b \in 0 .. Len(t),
         NEW p \in a .. b, NEW q \in p .. b, ~IsBlank(t[p]), ~IsBlank(t[q]),
         Blanks(t, a, p - 1), Blanks(t, q + 1, b)
  PROVE  Strip(SubSeq(t, a, b)) = SubSeq(t, p, q)
<1> DEFINE s == SubSeq(t, a, b)
           solid == {i \in DOMAIN s : ~IsBlank(s[i])}
<1>0. a <= b + 1 /\ p \in a .. b + 1 /\ q \in 0 .. b /\ p <= q + 1 /\ a \in Nat /\ b \in Nat
      /\ p \in Nat /\ q \in Nat /\ a <= p /\ p <= q /\ q <= b
  OBVIOUS
<1>1. DOMAIN s = 1 .. b + 1 - a /\ \A i \in 1 .. b + 1 - a : s[i] = t[a + i - 1]
  BY <1>0, SubSeqIs
<1>2. SubSeq(s, p + 1 - a, q + 1 - a) = SubSeq(t, p, q)  BY <1>0, SubSeqOf
<1> HIDE DEF s
<1>3. /\ p + 1 - a \in 1 .. b + 1 - a /\ a + (p + 1 - a) - 1 = p
      /\ q + 1 - a \in 1 .. b + 1 - a /\ a + (q + 1 - a) - 1 = q
  BY <1>0
<1>4. p + 1 - a \in solid /\ q + 1 - a \in solid  BY <1>1, <1>3
<1>5. ASSUME NEW i \in solid PROVE i \in Nat /\ p + 1 - a <= i /\ i <= q + 1 - a
  <2>1. i \in 1 .. b + 1 - a /\ ~IsBlank(t[a + i - 1])  BY <1>1
  <2>2. PICK j \in a .. b : j = a + i - 1  BY <1>0, <2>1
  <2>3. j \notin a .. p - 1 /\ j \notin q + 1 .. b  BY <2>1, <2>2 DEF Blanks
  <2>4. p <= j /\ j <= q  BY <1>0, <2>3
  <2> QED  BY <1>0, <2>1, <2>2, <2>4
<1>6. Min(solid) = p + 1 - a
  <2> HIDE DEF solid
  <2>1. solid \in SUBSET Nat  BY <1>5
  <2> QED  BY <1>4, <1>5, <2>1, MinIs
<1>7. Max(solid) = q + 1 - a
  <2> HIDE DEF solid
  <2>1. solid \in SUBSET Nat  BY <1>5
  <2> QED  BY <1>4, <1>5, <2>1, MaxIs
<1>8. solid # {}  BY <1>4
<1>9. Strip(s) = SubSeq(s, Min(solid), Max(solid))  BY <1>8 DEF Strip
<1> QED  BY <1>2, <1>6, <1>7, <1>9 DEF s

LEMMA ValueIs ==
  ASSUME NEW t \in Seq(Letters), NEW a \in Nat \ {0}, NEW b \in 0 .. Len(t), a <= b + 1,
         NEW l \in LineType, Cut(t, a, b, l), Tidy(t, l),
         NEW p \in Nat, NEW q \in Nat, p = l.val_begin, q = l.val_end
  PROVE  Strip(SubSeq(t, a, b)) = SubSeq(t, p, q - 1)
<1>1. CASE q <= p
  <2>1. SubSeq(t, p, q - 1) = <<>>  BY <1>1
  <2>2. Blanks(t, a, b)  BY <1>1 DEF Cut
  <2> QED  BY <2>1, <2>2, StripNone
<1>2. CASE p < q
  <2>1. ~(q <= p)  BY <1>2
  <2>2. /\ a <= p /\ q <= b + 1 /\ ~IsBlank(t[p]) /\ Blanks(t, a, p - 1) /\ Blanks(t, q, b)
        /\ ~IsBlank(t[q - 1])
    BY <2>1 DEF Cut, Tidy
  <2>3. a <= p /\ q <= b + 1  BY <2>2
  <2>4. p \in a .. b /\ q - 1 \in p .. b /\ (q - 1) + 1 = q  BY <1>2, <2>3
  <2>5. Blanks(t, (q - 1) + 1, b)  BY <2>2, <2>4
  <2> QED  BY <2>2, <2>4, <2>5, StripIs
<1> QED  BY <1>1, <1>2

\* A cut that is not empty begins with what is written where it begins.
LEMMA CutBegins ==
  ASSUME NEW t \in Seq(Letters), NEW p \in Nat \ {0}, NEW b \in 0 .. Len(t), p <= b + 1,
         SubSeq(t, p, b) # <<>>
  PROVE  p <= b /\ SubSeq(t, p, b)[1] = t[p]
<1>1. DOMAIN SubSeq(t, p, b) = 1 .. b + 1 - p
      /\ \A i \in 1 .. b + 1 - p : SubSeq(t, p, b)[i] = t[p + i - 1]
  BY SubSeqIs
<1>2. p <= b
  <2> SUFFICES ASSUME ~(p <= b) PROVE FALSE  OBVIOUS
  <2>1. SubSeq(t, p, b) = <<>>  OBVIOUS
  <2> QED  BY <2>1
<1>3. 1 \in 1 .. b + 1 - p /\ p + 1 - 1 = p  BY <1>2
<1> QED  BY <1>1, <1>2, <1>3

LEMMA CodeIs ==
  ASSUME text \in Seq(Letters), from \in Nat \ {0}, NEW e, CodeEnds(text, from, e)
  PROVE  Code = SubSeq(text, from, e - 1)
<1> DEFINE T == {i \in from .. Len(text) : text[i] \notin Plain} \cup {Len(text) + 1}
<1>0. e \in from .. Len(text) + 1 /\ Len(text) \in Nat  BY DEF CodeEnds
<1>1. e \in T
  <2>1. CASE e = Len(text) + 1  BY <2>1
  <2>2. CASE e \in from .. Len(text)  BY <1>0, <2>2 DEF CodeEnds
  <2> QED  BY <1>0, <2>1, <2>2
<1>2. ASSUME NEW y \in T PROVE y \in Nat /\ e <= y
  <2>1. CASE y = Len(text) + 1  BY <1>0, <2>1
  <2>2. CASE y \in from .. Len(text) /\ text[y] \notin Plain
    <3>1. y \notin from .. e - 1  BY <2>2 DEF CodeEnds, AllPlain
    <3> QED  BY <1>0, <2>2, <3>1
  <2> QED  BY <2>1, <2>2
<1>3. Min(T) = e
  <2> HIDE DEF T
  <2>1. T \in SUBSET Nat  BY <1>2
  <2> QED  BY <1>1, <1>2, <2>1, MinIs
<1>4. Skip(text, from, Plain) = e  BY <1>3 DEF Skip
<1> QED  BY <1>4 DEF Code, Plain

\* What follows the separator in the code c, and what is written there.
AfterIn(c) == Strip(SubSeq(c, 1 + Min({i \in DOMAIN c : c[i] = ":"}), Len(c)))
WrittenIn(a) ==
  IF a # <<>> /\ a[1] \in DOMAIN Closer
  THEN Strip(SubSeq(a, 2, Min({i \in 2 .. Len(a) : a[i] = Closer[a[1]]}) - 1))
  ELSE a

LEMMA AfterIs ==
  ASSUME NEW t \in Seq(Letters), NEW f \in Nat \ {0}, NEW e \in f .. Len(t) + 1,
         NEW s \in f .. e - 1, Colon(t, f, s)
  PROVE  AfterIn(SubSeq(t, f, e - 1)) = Strip(SubSeq(t, s + 1, e - 1))
<1> DEFINE c == SubSeq(t, f, e - 1)
           T == {i \in DOMAIN c : c[i] = ":"}
<1>0. /\ e - 1 \in 0 .. Len(t) /\ f <= (e - 1) + 1 /\ (e - 1) + 1 - f = e - f
      /\ f \in Nat /\ f >= 1 /\ e \in Nat /\ s \in Nat /\ f <= s /\ s <= e - 1 /\ s < e
  OBVIOUS
<1>1. /\ DOMAIN c = 1 .. e - f /\ Len(c) = e - f
      /\ \A i \in 1 .. e - f : c[i] = t[f + i - 1]
  BY <1>0, SubSeqIs
<1> HIDE DEF c
<1>2. s + 1 - f \in T
  <2>1. s + 1 - f \in 1 .. e - f /\ f + (s + 1 - f) - 1 = s  BY <1>0
  <2> QED  BY <1>1, <2>1 DEF Colon
<1>3. ASSUME NEW y \in T PROVE y \in Nat /\ s + 1 - f <= y
  <2>1. y \in 1 .. e - f /\ t[f + y - 1] = ":"  BY <1>1
  <2>2. y \in 1 .. e - f  BY <2>1
  <2>3. PICK j \in f .. e - 1 : j = f + y - 1  BY <1>0, <2>2
  <2>4. j \notin f .. s - 1  BY <2>1, <2>3 DEF Colon, NoColon
  <2>5. s <= j  BY <1>0, <2>4
  <2> QED  BY <1>0, <2>2, <2>3, <2>5
<1>4. Min(T) = s + 1 - f
  <2> HIDE DEF T
  <2>1. T \in SUBSET Nat  BY <1>3
  <2> QED  BY <1>2, <1>3, <2>1, MinIs
<1>5. SubSeq(c, (s + 1) + 1 - f, (e - 1) + 1 - f) = SubSeq(t, s + 1, e - 1)
  <2>1. /\ s + 1 \in f .. (e - 1) + 1 /\ e - 1 \in 0 .. e - 1 /\ s + 1 <= (e - 1) + 1
        /\ f \in Nat \ {0}
    BY <1>0
  <2> QED  BY <1>0, <2>1, SubSeqOf DEF c
<1>6. 1 + (s + 1 - f) = (s + 1) + 1 - f /\ Len(c) = (e - 1) + 1 - f  BY <1>0, <1>1
<1>7. AfterIn(c) = Strip(SubSeq(c, 1 + Min(T), Len(c)))  BY DEF AfterIn
<1> HIDE DEF T
<1> QED  BY <1>4, <1>5, <1>6, <1>7 DEF c

LEMMA BareWritten ==
  ASSUME NEW t \in Seq(Letters), NEW f \in Nat \ {0}, NEW e \in f .. Len(t) + 1,
         NEW l \in LineType, NEW s \in f .. e - 1, Colon(t, f, s),
         Bare(t, s, e - 1, l), Tidy(t, l)
  PROVE  WrittenIn(AfterIn(SubSeq(t, f, e - 1))) = SubSeq(t, l.val_begin, l.val_end - 1)
<1>1. s + 1 \in Nat \ {0} /\ e - 1 \in 0 .. Len(t) /\ s + 1 <= (e - 1) + 1  OBVIOUS
<1>2. PICK p \in Nat, q \in Nat : p = l.val_begin /\ q = l.val_end  BY DEF LineType
<1> DEFINE v == SubSeq(t, p, q - 1)
<1>3. Cut(t, s + 1, e - 1, l)  BY DEF Bare
<1>4. Strip(SubSeq(t, s + 1, e - 1)) = v
  <2>1. PICK a \in Nat \ {0}, b \in 0 .. Len(t) : a = s + 1 /\ b = e - 1  BY <1>1
  <2>2. a <= b + 1 /\ Cut(t, a, b, l)  BY <1>1, <1>3, <2>1
  <2>3. Strip(SubSeq(t, a, b)) = SubSeq(t, p, q - 1)  BY <1>2, <2>2, ValueIs, SMTT(30)
  <2> QED  BY <2>1, <2>3
<1>5. ASSUME v # <<>> PROVE v[1] \notin DOMAIN Closer
  <2>1. p < q
    <3> SUFFICES ASSUME ~(p < q) PROVE FALSE  OBVIOUS
    <3>1. v = <<>>  OBVIOUS
    <3> QED  BY <1>5, <3>1
  <2>2. s + 1 <= p /\ q <= (e - 1) + 1  BY <1>1, <1>2, <1>3, <2>1 DEF Cut
  <2>3. p \in Nat \ {0} /\ q - 1 \in 0 .. Len(t) /\ p <= (q - 1) + 1  BY <1>1, <2>1, <2>2
  <2>4. v[1] = t[p]  BY <1>5, <2>3, CutBegins
  <2>5. t[p] \notin DOMAIN Closer  BY <1>2, <2>1 DEF Bare
  <2> QED  BY <2>4, <2>5
<1>6. WrittenIn(v) = v
  <2> HIDE DEF v
  <2> QED  BY <1>5 DEF WrittenIn
<1>7. AfterIn(SubSeq(t, f, e - 1)) = v  BY <1>4, AfterIs
<1>8. v = SubSeq(t, l.val_begin, l.val_end - 1)  BY <1>2 DEF v
<1> HIDE DEF v
<1> QED  BY <1>6, <1>7, <1>8

LEMMA QuotedWritten ==
  ASSUME NEW t \in Seq(Letters), NEW f \in Nat \ {0}, NEW e \in f .. Len(t) + 1,
         NEW l \in LineType, NEW s \in f .. e - 1, Colon(t, f, s),
         Quoted(t, s, e - 1, l), Tidy(t, l)
  PROVE  WrittenIn(AfterIn(SubSeq(t, f, e - 1))) = SubSeq(t, l.val_begin, l.val_end - 1)
<1> DEFINE b == e - 1
<1>0. b \in 0 .. Len(t) /\ b \in Nat /\ s \in Nat /\ s >= 1 /\ Len(t) \in Nat /\ b <= Len(t)
  OBVIOUS
<1>1. PICK o \in s + 1 .. b : \E c \in o + 1 .. b :
        /\ Opened(t, s, o) /\ t[c] = Closer[t[o]] /\ Unclosed(t, o, c - 1)
        /\ Cut(t, o + 1, c - 1, l)
  BY DEF Quoted
<1>2. PICK c \in o + 1 .. b :
        /\ Opened(t, s, o) /\ t[c] = Closer[t[o]] /\ Unclosed(t, o, c - 1)
        /\ Cut(t, o + 1, c - 1, l)
  BY <1>1
<1> HIDE DEF b
<1>3. ~IsBlank(t[o]) /\ ~IsBlank(t[c])  BY <1>2 DEF Opened, Closer, IsBlank
<1>4. c \in Nat /\ o \in Nat /\ o >= 1 /\ s + 1 <= o /\ o < c /\ c <= b  BY <1>0
<1> DEFINE E == {i \in c .. b : ~IsBlank(t[i])}
<1>5. PICK z \in E : \A y \in E : y <= z
  <2>1. c \in E  BY <1>3, <1>4
  <2>2. E \in SUBSET (0 .. b)  BY <1>4
  <2> HIDE DEF E
  <2> QED  BY <1>0, <2>1, <2>2, LargestExists
<1>6. z \in c .. b /\ ~IsBlank(t[z])  OBVIOUS
<1>7. Blanks(t, z + 1, b)
  <2>1. ASSUME NEW i \in z + 1 .. b PROVE IsBlank(t[i])
    <3>1. i \in c .. b /\ ~(i <= z)  BY <1>0, <1>4, <1>6
    <3>2. i \notin E  BY <1>5, <3>1
    <3> QED  BY <3>1, <3>2
  <2> QED  BY <2>1 DEF Blanks
<1> HIDE DEF E
<1>8. z \in Nat /\ c <= z /\ z <= b  BY <1>4, <1>6
<1> DEFINE a == SubSeq(t, o, z)
<1>9. Strip(SubSeq(t, s + 1, b)) = a
  <2>1. s + 1 \in Nat \ {0} /\ o \in s + 1 .. b /\ z \in o .. b  BY <1>0, <1>4, <1>8
  <2>2. Blanks(t, s + 1, o - 1)  BY <1>2 DEF Opened
  <2> QED  BY <1>0, <1>3, <1>6, <1>7, <2>1, <2>2, StripIs
<1>10. /\ Len(a) = z + 1 - o /\ DOMAIN a = 1 .. z + 1 - o
       /\ \A i \in 1 .. z + 1 - o : a[i] = t[o + i - 1]
  <2>1. o \in Nat \ {0} /\ z \in 0 .. Len(t) /\ o <= z + 1  BY <1>0, <1>4, <1>8
  <2> QED  BY <2>1, SubSeqIs
<1>11. SubSeq(a, (o + 1) + 1 - o, (c - 1) + 1 - o) = SubSeq(t, o + 1, c - 1)
  <2>1. /\ o \in Nat \ {0} /\ z \in 0 .. Len(t) /\ o <= z + 1
        /\ o + 1 \in o .. z + 1 /\ c - 1 \in 0 .. z /\ o + 1 <= (c - 1) + 1
    BY <1>0, <1>4, <1>8
  <2> QED  BY <2>1, SubSeqOf
<1> HIDE DEF a
<1>12. a[1] = t[o] /\ a # <<>>
  <2>1. 1 \in 1 .. z + 1 - o /\ o + 1 - 1 = o  BY <1>4, <1>8
  <2>2. a[1] = t[o] /\ DOMAIN a # {}  BY <1>10, <2>1
  <2>3. DOMAIN <<>> = {}  OBVIOUS
  <2> QED  BY <2>2, <2>3
<1> DEFINE T == {i \in 2 .. Len(a) : a[i] = Closer[a[1]]}
<1>13. c + 1 - o \in T
  <2>1. c + 1 - o \in 2 .. z + 1 - o /\ c + 1 - o \in 1 .. z + 1 - o /\ o + (c + 1 - o) - 1 = c
    BY <1>4, <1>8
  <2>2. a[c + 1 - o] = t[c]  BY <1>10, <2>1
  <2> QED  BY <1>2, <1>10, <1>12, <2>1, <2>2
<1>14. ASSUME NEW y \in T PROVE y \in Nat /\ c + 1 - o <= y
  <2>1. y \in 2 .. z + 1 - o  BY <1>10
  <2>2. PICK j \in o + 1 .. z : j = o + y - 1  BY <1>4, <1>8, <2>1
  <2>3. y \in 1 .. z + 1 - o  BY <2>1
  <2>4. t[j] = Closer[t[o]]  BY <1>10, <1>12, <2>2, <2>3
  <2>5. j \notin o + 1 .. c - 1  BY <1>2, <2>4 DEF Unclosed
  <2>6. c <= j  BY <1>4, <1>8, <2>5
  <2> QED  BY <1>4, <2>1, <2>2, <2>6
<1>15. Min(T) = c + 1 - o
  <2> HIDE DEF T
  <2>1. T \in SUBSET Nat  BY <1>14
  <2> QED  BY <1>13, <1>14, <2>1, MinIs
<1>16. a[1] \in DOMAIN Closer  BY <1>2, <1>12 DEF Opened
<1>17. WrittenIn(a) = Strip(SubSeq(a, 2, Min(T) - 1))  BY <1>12, <1>16 DEF WrittenIn
<1> HIDE DEF T
<1>18. Min(T) - 1 = (c - 1) + 1 - o /\ (o + 1) + 1 - o = 2  BY <1>4, <1>15
<1>19. WrittenIn(a) = Strip(SubSeq(t, o + 1, c - 1))  BY <1>11, <1>17, <1>18
<1>20. Strip(SubSeq(t, o + 1, c - 1)) = SubSeq(t, l.val_begin, l.val_end - 1)
  <2>1. o + 1 \in Nat \ {0} /\ c - 1 \in 0 .. Len(t) /\ o + 1 <= (c - 1) + 1  BY <1>0, <1>4
  <2>2. PICK p \in Nat, q \in Nat : p = l.val_begin /\ q = l.val_end  BY DEF LineType
  <2>3. PICK x \in Nat \ {0}, y \in 0 .. Len(t) : x = o + 1 /\ y = c - 1  BY <2>1
  <2>4. x <= y + 1 /\ Cut(t, x, y, l)  BY <1>2, <2>1, <2>3
  <2>5. Strip(SubSeq(t, x, y)) = SubSeq(t, p, q - 1)  BY <2>2, <2>4, ValueIs, SMTT(30)
  <2> QED  BY <2>2, <2>3, <2>5
<1>21. AfterIn(SubSeq(t, f, e - 1)) = a  BY <1>9, AfterIs DEF b
<1> QED  BY <1>19, <1>20, <1>21

LEMMA BlankIs ==
  ASSUME NEW t \in Seq(Letters), NEW f \in Nat \ {0}, NEW e \in f .. Len(t) + 1,
         NEW l \in LineType, Header(t, f, l, e - 1), NEW c, c = SubSeq(t, f, e - 1)
  PROVE  l.blank = Min({i \in DOMAIN c : ~IsBlank(c[i])}) - 1
<1>0. /\ e - 1 \in 0 .. Len(t) /\ f <= (e - 1) + 1 /\ (e - 1) + 1 - f = e - f
      /\ f \in Nat /\ f >= 1 /\ e \in Nat
  OBVIOUS
<1>1. DOMAIN c = 1 .. e - f /\ \A i \in 1 .. e - f : c[i] = t[f + i - 1]
  BY <1>0, SubSeqIs
<1>2. PICK k \in Nat : k = l.blank  BY DEF LineType
<1>3. f + k <= e - 1 /\ Blanks(t, f, f + k - 1) /\ ~IsBlank(t[f + k])  BY <1>2 DEF Header
<1>4. f + k <= e - 1  BY <1>3
<1> DEFINE T == {i \in DOMAIN c : ~IsBlank(c[i])}
<1>5. k + 1 \in T
  <2>1. k + 1 \in 1 .. e - f /\ f + (k + 1) - 1 = f + k  BY <1>0, <1>4
  <2> QED  BY <1>1, <1>3, <2>1
<1>6. ASSUME NEW y \in T PROVE y \in Nat /\ k + 1 <= y
  <2>1. y \in 1 .. e - f /\ ~IsBlank(t[f + y - 1])  BY <1>1
  <2>2. y \in 1 .. e - f  BY <2>1
  <2>3. PICK j \in f .. e - 1 : j = f + y - 1  BY <1>0, <2>2
  <2>4. j \notin f .. f + k - 1  BY <1>3, <2>1, <2>3 DEF Blanks
  <2> QED  BY <1>0, <2>2, <2>3, <2>4
<1>7. Min(T) = k + 1
  <2> HIDE DEF T
  <2>1. T \in SUBSET Nat  BY <1>6
  <2> QED  BY <1>5, <1>6, <2>1, MinIs
<1>8. l.blank = Min(T) - 1
  <2> HIDE DEF T
  <2> QED  BY <1>2, <1>7
<1> QED  BY <1>8

LEMMA CodeIsMore ==
  ASSUME NEW t \in Seq(Letters), NEW f \in Nat \ {0}, NEW e \in f .. Len(t) + 1,
         NEW l \in LineType, Header(t, f, l, e - 1), NEW c, c = SubSeq(t, f, e - 1)
  PROVE  \E i \in DOMAIN c : ~Indents(c[i])
<1>0. /\ e - 1 \in 0 .. Len(t) /\ f <= (e - 1) + 1 /\ (e - 1) + 1 - f = e - f
      /\ f \in Nat /\ f >= 1 /\ e \in Nat
  OBVIOUS
<1>1. DOMAIN c = 1 .. e - f /\ \A i \in 1 .. e - f : c[i] = t[f + i - 1]
  BY <1>0, SubSeqIs
<1>2. PICK i \in f .. e - 1 : ~Indents(t[i])  BY DEF Header
<1>3. i + 1 - f \in 1 .. e - f /\ f + (i + 1 - f) - 1 = i  BY <1>0
<1>4. c[i + 1 - f] = t[i]  BY <1>1, <1>3
<1> QED  BY <1>1, <1>2, <1>3, <1>4

\* MeaningInv implies the property.
LEMMA MeaningHolds ==
  ASSUME MeaningInv
  PROVE  LineMeaning
<1> SUFFICES ASSUME result = "PEC_NONE"
             PROVE  IF \A i \in DOMAIN Code : Code[i] \in {" ", "-"}
                    THEN line.key = "NULL" /\ Value = <<>>
                    ELSE /\ line.key \in {"key", "list"} /\ Value = Written
                         /\ line.blank = Min({i \in DOMAIN Code : ~IsBlank(Code[i])}) - 1
  BY DEF LineMeaning
<1>1. /\ text \in Seq(Letters) /\ line \in LineType /\ from \in Nat \ {0}
      /\ Through(text, from, line)
  BY DEF MeaningInv
<1>2. PICK e \in from .. Len(text) + 1 :
        CodeEnds(text, from, e) /\ Meant(text, from, line, e) /\ Tidy(text, line)
  BY <1>1 DEF Through
<1>3. PICK c : c = Code /\ c = SubSeq(text, from, e - 1)  BY <1>1, <1>2, CodeIs
<1>4. CASE Dashes(text, from, e - 1) /\ line.key = "NULL" /\ line.val_begin = 0 /\ line.val_end = 0
  <2>0. /\ e - 1 \in 0 .. Len(text) /\ from <= (e - 1) + 1 /\ (e - 1) + 1 - from = e - from
        /\ from \in Nat /\ from >= 1 /\ e \in Nat
    BY <1>1
  <2>1. DOMAIN c = 1 .. e - from /\ \A i \in 1 .. e - from : c[i] = text[from + i - 1]
    BY <1>1, <1>3, <2>0, SubSeqIs
  <2>2. ASSUME NEW i \in DOMAIN c PROVE Indents(c[i])
    <3>1. i \in 1 .. e - from /\ c[i] = text[from + i - 1]  BY <2>1
    <3>2. i \in 1 .. e - from  BY <2>1
    <3>3. from + i - 1 \in from .. e - 1  BY <2>0, <3>2
    <3> QED  BY <1>4, <3>1, <3>3 DEF Dashes
  <2>3. Value = <<>>
    <3>1. SubSeq(text, 0, 0 - 1) = <<>>  BY <1>1
    <3> QED  BY <1>4, <3>1 DEF Value
  <2> QED  BY <1>3, <1>4, <2>2, <2>3 DEF Indents
<1>5. CASE /\ Known(line) /\ Header(text, from, line, e - 1)
           /\ \E s \in from .. e - 1 :
                /\ Colon(text, from, s)
                /\ Bare(text, s, e - 1, line) \/ Quoted(text, s, e - 1, line)
  <2>0. Header(text, from, line, e - 1) /\ c = SubSeq(text, from, e - 1)  BY <1>3, <1>5
  <2>1. line.blank = Min({i \in DOMAIN c : ~IsBlank(c[i])}) - 1  BY <1>1, <2>0, BlankIs
  <2>6. \E i \in DOMAIN c : ~Indents(c[i])  BY <1>1, <2>0, CodeIsMore
  <2>2. WrittenIn(AfterIn(c)) = SubSeq(text, line.val_begin, line.val_end - 1)
    BY <1>1, <1>2, <1>3, <1>5, BareWritten, QuotedWritten
  <2>3. Value = Written
    <3>1. After = AfterIn(Code)  BY DEF After, AfterIn
    <3>2. Written = WrittenIn(After)  BY DEF Written, WrittenIn
    <3> QED  BY <1>3, <2>2, <3>1, <3>2 DEF Value
  <2>4. ~\A i \in DOMAIN Code : Code[i] \in {" ", "-"}  BY <1>3, <2>6 DEF Indents
  <2>5. line.blank = Min({i \in DOMAIN Code : ~IsBlank(Code[i])}) - 1  BY <1>3, <2>1
  <2> QED  BY <1>5, <2>3, <2>4, <2>5 DEF Known
<1> QED  BY <1>2, <1>4, <1>5 DEF Meant

\* A line that Lex accepts means what is written in it, for a line of any length: its
\* indentation is its leading blanks, its value what stands behind the first separator
\* or between the quotes or brackets there, trimmed; a line without a key has no value
\* (LineMeaning; Lex).
THEOREM LineMeans == Spec => []LineMeaning
<1> QED  BY MeaningInit, MeaningStep, MeaningHolds, PTL DEF Spec

-----------------------------------------------------------------------------
(* Lists, by positions of the value v.                                     *)

IsComma(c) == c = ","
IsDash(c)  == c = "-"

\* What the loop of ParseBitArray passes over before a number, inside and behind it.
Before == ListChars \ Digits
Within == Digits \cup {" "}
Beyond == ListChars \ (Digits \cup {","})

LEMMA Kinds ==
  ASSUME NEW c
  PROVE  /\ IsNumber(c) <=> c \in Digits
         /\ IsNumber(c) => c \notin Before /\ c \in Within /\ c \notin Beyond
                           /\ ~IsBlank(c) /\ ~IsComma(c) /\ ~IsDash(c)
         /\ IsBlank(c) => c \in Before /\ c \in Within /\ c \in Beyond
                          /\ ~IsComma(c) /\ ~IsDash(c)
         /\ IsComma(c) => c \in Before /\ c \notin Within /\ c \notin Beyond /\ ~IsDash(c)
         /\ IsDash(c) => c \in Before /\ c \notin Within /\ c \in Beyond
BY DEF IsNumber, IsBlank, IsComma, IsDash, Before, Within, Beyond, ListChars, Digits

LEMMA DigitNat ==
  ASSUME NEW c, IsNumber(c)
  PROVE  Digit[c] \in Nat
BY DEF IsNumber, Digit, Digits

LEMMA SkipIs ==
  ASSUME NEW v \in Seq(Letters), NEW o \in Nat \ {0}, NEW e \in o .. Len(v) + 1, NEW S,
         \A i \in o .. e - 1 : v[i] \in S, e <= Len(v) => v[e] \notin S
  PROVE  Skip(v, o, S) = e
<1> DEFINE T == {i \in o .. Len(v) : v[i] \notin S} \cup {Len(v) + 1}
<1>0. Len(v) \in Nat /\ o \in Nat /\ e \in Nat  OBVIOUS
<1>1. e \in T
  <2>1. CASE e = Len(v) + 1  BY <2>1
  <2>2. CASE e \in o .. Len(v)  BY <1>0, <2>2
  <2> QED  BY <1>0, <2>1, <2>2
<1>2. ASSUME NEW y \in T PROVE y \in Nat /\ e <= y
  <2>1. CASE y = Len(v) + 1  BY <1>0, <2>1
  <2>2. CASE y \in o .. Len(v) /\ v[y] \notin S
    <3>1. y \notin o .. e - 1  BY <2>2
    <3> QED  BY <1>0, <2>2, <3>1
  <2> QED  BY <2>1, <2>2
<1>3. Min(T) = e
  <2> HIDE DEF T
  <2>1. T \in SUBSET Nat  BY <1>2
  <2> QED  BY <1>1, <1>2, <2>1, MinIs
<1> QED  BY <1>3 DEF Skip

LEMMA SkipIn ==
  ASSUME NEW v \in Seq(Letters), NEW o \in 1 .. Len(v) + 1, NEW S
  PROVE  Skip(v, o, S) \in o .. Len(v) + 1
<1> DEFINE T == {i \in o .. Len(v) : v[i] \notin S} \cup {Len(v) + 1}
<1>1. T \in SUBSET (o .. Len(v) + 1) /\ T \in SUBSET Nat /\ T # {}  OBVIOUS
<1>2. PICK x \in T : \A y \in T : x <= y
  <2> HIDE DEF T
  <2> QED  BY <1>1, SmallestExists
<1>3. Min(T) = x
  <2> HIDE DEF T
  <2> QED  BY <1>1, <1>2, MinIs
<1>4. x \in o .. Len(v) + 1  BY <1>1
<1> QED  BY <1>3, <1>4 DEF Skip

\* A number of one or two digits, and what it says.
Digital(v, i, j) == j <= i + 1 /\ \A k \in i .. j : IsNumber(v[k])
NumberAt(v, i, j) == IF i = j THEN Digit[v[i]] ELSE 10 * Digit[v[i]] + Digit[v[j]]

LEMMA ValNat ==
  ASSUME NEW v, NEW i \in Nat, NEW j \in Nat, i <= j, Digital(v, i, j)
  PROVE  NumberAt(v, i, j) \in Nat
<1>1. IsNumber(v[i]) /\ IsNumber(v[j])  BY DEF Digital
<1>2. Digit[v[i]] \in Nat /\ Digit[v[j]] \in Nat  BY <1>1, DigitNat
<1> QED  BY <1>2 DEF NumberAt

LEMMA atoiIs ==
  ASSUME NEW v \in Seq(Letters), NEW i \in Nat \ {0}, NEW j \in i .. Len(v), Digital(v, i, j),
         j + 1 <= Len(v) => ~IsNumber(v[j + 1])
  PROVE  atoi(v, i) = NumberAt(v, i, j)
<1>0. i \in Nat /\ j \in Nat /\ i <= j /\ j <= i + 1 /\ Len(v) \in Nat /\ j <= Len(v)
  BY DEF Digital
<1>1. Skip(v, i, Digits) = j + 1
  <2>1. j + 1 \in i .. Len(v) + 1 /\ (j + 1) - 1 = j  BY <1>0
  <2>2. \A k \in i .. j : v[k] \in Digits  BY Kinds DEF Digital
  <2>3. j + 1 <= Len(v) => v[j + 1] \notin Digits  BY Kinds
  <2> QED  BY <2>1, <2>2, <2>3, SkipIs
<1>2. IsNumber(v[i]) /\ IsNumber(v[j])  BY <1>0 DEF Digital
<1>3. Digit[v[i]] \in Nat /\ Digit[v[j]] \in Nat  BY <1>2, DigitNat
<1> DEFINE Is(n) == n = [k \in i - 1 .. j |-> IF k < i THEN 0 ELSE 10 * n[k - 1] + Digit[v[k]]]
           n == CHOOSE f : Is(f)
           w == [k \in i - 1 .. j |-> IF k < i THEN 0
                                      ELSE IF k = i THEN Digit[v[i]]
                                      ELSE 10 * Digit[v[i]] + Digit[v[j]]]
<1>4. Is(w)
  <2>1. ASSUME NEW k \in i - 1 .. j
        PROVE  w[k] = IF k < i THEN 0 ELSE 10 * w[k - 1] + Digit[v[k]]
    <3>1. CASE k < i  BY <3>1
    <3>2. CASE k = i
      <4>1. w[k - 1] = 0  BY <1>0, <3>2
      <4> QED  BY <1>0, <1>3, <3>2, <4>1
    <3>3. CASE k = i + 1 /\ k = j
      <4>1. w[k - 1] = Digit[v[i]]  BY <1>0, <3>3
      <4> QED  BY <1>0, <1>3, <3>3, <4>1
    <3> QED  BY <1>0, <3>1, <3>2, <3>3
  <2> QED  BY <2>1
<1>5. Is(n)
  <2> HIDE DEF Is, w
  <2> QED  BY <1>4
<1>6. atoi(v, i) = n[j]
  <2>1. (j + 1) - 1 = j  BY <1>0
  <2> QED  BY <1>1, <2>1 DEF atoi
<1> HIDE DEF n, w
<1>7. /\ n[i - 1] = 0 /\ n[i] = 10 * n[i - 1] + Digit[v[i]]
      /\ j = i + 1 => n[j] = 10 * n[i] + Digit[v[j]]
  <2>1. \A k \in i - 1 .. j : n[k] = IF k < i THEN 0 ELSE 10 * n[k - 1] + Digit[v[k]]
    BY <1>5
  <2>2. i - 1 \in i - 1 .. j /\ i \in i - 1 .. j /\ j \in i - 1 .. j
        /\ i - 1 < i /\ ~(i < i) /\ ~(j < i) /\ (j = i + 1 => j - 1 = i)
    BY <1>0
  <2> QED  BY <2>1, <2>2
<1>8. n[i] = Digit[v[i]]  BY <1>3, <1>7
<1> QED  BY <1>0, <1>6, <1>7, <1>8 DEF NumberAt

-----------------------------------------------------------------------------
(* The loop of ParseBitArray.                                              *)

LEMMA RoundTo ==
  ASSUME NEW v \in Seq(Letters), NEW o \in 1 .. Len(v) + 1
  PROVE  Round(v, o).to \in o .. Len(v) + 1
<1> DEFINE first == Skip(v, o, ListChars \ Digits)
           dash  == Skip(v, first, Digits \cup {" "})
           last  == Skip(v, dash, ListChars \ (Digits \cup {","}))
<1>0. Len(v) \in Nat /\ o \in Nat /\ o >= 1  OBVIOUS
<1>1. first \in o .. Len(v) + 1  BY SkipIn
<1>2. dash \in o .. Len(v) + 1
  <2>1. PICK x \in o .. Len(v) + 1 : x = first  BY <1>1
  <2>2. x \in 1 .. Len(v) + 1  BY <1>0
  <2>3. Skip(v, x, Digits \cup {" "}) \in x .. Len(v) + 1  BY <2>2, SkipIn
  <2>4. dash = Skip(v, x, Digits \cup {" "})  BY <2>1, Zenon
  <2> HIDE DEF dash
  <2>5. dash \in x .. Len(v) + 1  BY <2>3, <2>4, Zenon
  <2> QED  BY <1>0, <2>5
<1>3. last \in o .. Len(v) + 1
  <2>1. PICK x \in o .. Len(v) + 1 : x = dash  BY <1>2
  <2>2. x \in 1 .. Len(v) + 1  BY <1>0
  <2>3. Skip(v, x, ListChars \ (Digits \cup {","})) \in x .. Len(v) + 1  BY <2>2, SkipIn
  <2>4. last = Skip(v, x, ListChars \ (Digits \cup {","}))  BY <2>1, Zenon
  <2> HIDE DEF last
  <2>5. last \in x .. Len(v) + 1  BY <2>3, <2>4, Zenon
  <2> QED  BY <1>0, <2>5
<1>4. Round(v, o).to \in {dash, last}
  <2>1. Round(v, o) = IF dash > Len(v) \/ v[dash] # "-"
                      THEN [bits |-> {atoi(v, first)}, to |-> dash]
                      ELSE IF last > Len(v) \/ v[last] = ","
                      THEN [bits |-> {atoi(v, first)}, to |-> last]
                      ELSE [bits |-> Between(atoi(v, first), atoi(v, last)), to |-> last]
    BY DEF Round
  <2> HIDE DEF first, dash, last
  <2>2. PICK r : r = Round(v, o)  OBVIOUS
  <2>3. CASE r = [bits |-> {atoi(v, first)}, to |-> dash]  BY <2>2, <2>3
  <2>4. CASE r = [bits |-> {atoi(v, first)}, to |-> last]  BY <2>2, <2>4
  <2>5. CASE r = [bits |-> Between(atoi(v, first), atoi(v, last)), to |-> last]
    BY <2>2, <2>5
  <2> QED  BY <2>1, <2>2, <2>3, <2>4, <2>5
<1> QED  BY <1>2, <1>3, <1>4

\* f holds the bits that are set from each position from n on.
BitsAt(v, f, o) ==
  IF Skip(v, o, ListChars \ Digits) > Len(v) THEN {}
  ELSE Round(v, o).bits \cup f[Round(v, o).to]
Sol(v, n, f) == f = [o \in n .. Len(v) + 1 |-> BitsAt(v, f, o)]

LEMMA SolAt ==
  ASSUME NEW v, NEW n, NEW f, Sol(v, n, f), NEW o \in n .. Len(v) + 1
  PROVE  f[o] = BitsAt(v, f, o)
BY DEF Sol

\* The bits are defined from n on if they are from n + 1 on: the loop does not go back.
LEMMA SolMore ==
  ASSUME NEW v \in Seq(Letters), NEW n \in 1 .. Len(v) + 1, NEW g, Sol(v, n + 1, g)
  PROVE  \E f : Sol(v, n, f)
<1> DEFINE to(o) == Round(v, o).to
           At0(o, x) == IF Skip(v, o, ListChars \ Digits) > Len(v) THEN {}
                        ELSE Round(v, o).bits \cup x
           here == At0(n, IF to(n) = n THEN {} ELSE g[to(n)])
           f == [o \in n .. Len(v) + 1 |-> IF o = n THEN here ELSE g[o]]
<1>0. Len(v) \in Nat /\ n \in Nat /\ n >= 1  OBVIOUS
<1>1. ASSUME NEW o \in n .. Len(v) + 1 PROVE f[o] = At0(o, f[to(o)])
  <2>1. o \in 1 .. Len(v) + 1  BY <1>0
  <2>2. to(o) \in o .. Len(v) + 1  BY <2>1, RoundTo
  <2>3. to(o) \in n .. Len(v) + 1  BY <1>0, <2>2
  <2>4. f[to(o)] = IF to(o) = n THEN here ELSE g[to(o)]  BY <2>3
  <2>5. CASE o = n /\ to(n) = n
    <3>1. f[o] = here /\ f[to(o)] = here  BY <2>4, <2>5
    <3>2. here = At0(n, {})  BY <2>5
    <3>3. At0(n, {}) = At0(n, At0(n, {}))  OBVIOUS
    <3> HIDE DEF f, here, At0, to
    <3> QED  BY <2>5, <3>1, <3>2, <3>3
  <2>6. CASE o = n /\ to(n) # n
    <3>1. f[o] = here /\ f[to(o)] = g[to(n)]  BY <2>4, <2>6
    <3>2. here = At0(n, g[to(n)])  BY <2>6
    <3> HIDE DEF f, here, At0, to
    <3> QED  BY <2>6, <3>1, <3>2
  <2>7. CASE o # n
    <3>1. o \in n + 1 .. Len(v) + 1 /\ to(o) # n  BY <1>0, <2>2, <2>7
    <3>2. f[o] = g[o] /\ f[to(o)] = g[to(o)]  BY <2>4, <2>7, <3>1
    <3>3. g[o] = At0(o, g[to(o)])
      <4>1. o \in n + 1 .. Len(v) + 1  BY <3>1
      <4> HIDE DEF f, here
      <4>2. g[o] = BitsAt(v, g, o)  BY <4>1 DEF Sol
      <4> QED  BY <4>2 DEF BitsAt
    <3> HIDE DEF f, here, At0, to
    <3> QED  BY <3>2, <3>3
  <2> QED  BY <2>5, <2>6, <2>7
<1>2. f = [o \in n .. Len(v) + 1 |-> At0(o, f[to(o)])]
  <2> HIDE DEF At0, to, here
  <2> QED  BY <1>1
<1>3. Sol(v, n, f)
  <2> HIDE DEF f
  <2>1. \A o : At0(o, f[to(o)]) = BitsAt(v, f, o)  BY DEF BitsAt
  <2> HIDE DEF At0, to
  <2> QED  BY <1>2, <2>1 DEF Sol
<1> QED  BY <1>3

LEMMA SolExists ==
  ASSUME NEW v \in Seq(Letters)
  PROVE  \E f : Sol(v, 1, f)
<1> DEFINE N == Len(v)
           Bad == {k \in 0 .. N : ~\E f : Sol(v, N + 1 - k, f)}
<1>0. N \in Nat  OBVIOUS
<1>1. Bad = {}
  <2> SUFFICES ASSUME Bad # {} PROVE FALSE  OBVIOUS
  <2>1. Bad \in SUBSET Nat  OBVIOUS
  <2>2. PICK k \in Bad : \A y \in Bad : k <= y
    <3> HIDE DEF Bad
    <3> QED  BY <2>1, SmallestExists
  <2>3. k \in 0 .. N /\ ~\E f : Sol(v, N + 1 - k, f)  OBVIOUS
  <2>4. CASE k = 0
    <3>1. Sol(v, N + 2, [o \in N + 2 .. N + 1 |-> {}])
      BY <1>0 DEF Sol
    <3>2. N + 1 \in 1 .. Len(v) + 1 /\ (N + 1) + 1 = N + 2 /\ N + 1 - 0 = N + 1  BY <1>0
    <3> HIDE DEF N
    <3>3. \E f : Sol(v, N + 1, f)  BY <3>1, <3>2, SolMore
    <3> QED  BY <2>3, <2>4, <3>2, <3>3
  <2>5. CASE k > 0
    <3>1. k - 1 \in 0 .. N /\ ~(k <= k - 1)  BY <1>0, <2>3, <2>5
    <3>2. k - 1 \notin Bad  BY <2>2, <3>1
    <3>3. PICK g : Sol(v, N + 1 - (k - 1), g)  BY <3>1, <3>2
    <3>4. N + 1 - k \in 1 .. Len(v) + 1 /\ N + 1 - (k - 1) = (N + 1 - k) + 1  BY <1>0, <2>3
    <3>5. \E f : Sol(v, N + 1 - k, f)  BY <3>3, <3>4, SolMore
    <3> QED  BY <2>3, <3>5
  <2> QED  BY <2>3, <2>4, <2>5
<1>2. N \in 0 .. N /\ N + 1 - N = 1  BY <1>0
<1>3. \E f : Sol(v, N + 1 - N, f)  BY <1>1, <1>2
<1> QED  BY <1>2, <1>3

\* The recursive function that ParseBitArray is defined by exists.
LEMMA ParseIs ==
  ASSUME NEW v \in Seq(Letters)
  PROVE  \E f : Sol(v, 1, f) /\ ParseBitArray(v) = f[1]
<1> DEFINE bits == CHOOSE f :
      f = [o \in 1 .. Len(v) + 1 |-> IF Skip(v, o, ListChars \ Digits) > Len(v) THEN {}
                                     ELSE Round(v, o).bits \cup f[Round(v, o).to]]
<1>1. ParseBitArray(v) = bits[1]  BY DEF ParseBitArray
<1>2. \E f : f = [o \in 1 .. Len(v) + 1 |-> IF Skip(v, o, ListChars \ Digits) > Len(v) THEN {}
                                     ELSE Round(v, o).bits \cup f[Round(v, o).to]]
  BY SolExists DEF Sol, BitsAt
<1>3. Sol(v, 1, bits)  BY <1>2 DEF Sol, BitsAt
<1> QED  BY <1>1, <1>3

\* The round of the loop at o finds its first digit at i, sets the bits B and stops at e.
Reads(v, o, i, B, e) ==
  Skip(v, o, ListChars \ Digits) = i /\ Round(v, o) = [bits |-> B, to |-> e]

\* One round at o reads the number at i .. j, which ends the item at b.
LEMMA RoundNumber ==
  ASSUME NEW v \in Seq(Letters), NEW o \in Nat \ {0}, NEW i \in Nat, NEW j \in Nat, NEW b \in Nat,
         o <= i, i <= j, j <= b, b <= Len(v), Digital(v, i, j),
         \A k \in o .. i - 1 : v[k] \in Before, Blanks(v, j + 1, b),
         b + 1 <= Len(v) => IsComma(v[b + 1])
  PROVE  Reads(v, o, i, {NumberAt(v, i, j)}, b + 1)
<1>0. Len(v) \in Nat /\ o \in Nat /\ o >= 1 /\ i \in Nat \ {0}  OBVIOUS
<1>1. Skip(v, o, ListChars \ Digits) = i
  <2>1. i \in o .. Len(v) + 1  BY <1>0
  <2>2. v[i] \notin Before  BY Kinds DEF Digital
  <2> QED  BY <2>1, <2>2, SkipIs DEF Before
<1>2. Skip(v, i, Digits \cup {" "}) = b + 1
  <2>1. PICK e \in i .. Len(v) + 1 : e = b + 1  BY <1>0
  <2>2. ASSUME NEW k \in i .. e - 1 PROVE v[k] \in Within
    <3>1. k \in i .. j \/ k \in j + 1 .. b  BY <2>1
    <3>2. IsNumber(v[k]) \/ IsBlank(v[k])  BY <3>1 DEF Digital, Blanks
    <3> QED  BY <3>2, Kinds
  <2>3. e <= Len(v) => v[e] \notin Within  BY <2>1, Kinds
  <2>4. Skip(v, i, Within) = e  BY <1>0, <2>2, <2>3, SkipIs
  <2> QED  BY <2>1, <2>4 DEF Within
<1>3. atoi(v, i) = NumberAt(v, i, j)
  <2>1. j \in i .. Len(v)  BY <1>0
  <2>2. ASSUME j + 1 <= Len(v) PROVE ~IsNumber(v[j + 1])
    <3>1. CASE j = b  BY <2>2, <3>1, Kinds
    <3>2. CASE j # b
      <4>1. j + 1 \in j + 1 .. b  BY <3>2
      <4>2. IsBlank(v[j + 1])  BY <4>1 DEF Blanks
      <4> QED  BY <4>2, Kinds
    <3> QED  BY <3>1, <3>2
  <2> QED  BY <1>0, <2>1, <2>2, atoiIs
<1>4. b + 1 > Len(v) \/ v[b + 1] # "-"
  <2>1. b + 1 <= Len(v) => ~IsDash(v[b + 1])  BY Kinds
  <2> QED  BY <1>0, <2>1 DEF IsDash
<1> QED  BY <1>1, <1>2, <1>3, <1>4 DEF Round, Reads

\* One round at o reads the first number of a range, i .. j, and its second, k .. l,
\* before which it stops.
LEMMA RoundRange ==
  ASSUME NEW v \in Seq(Letters), NEW o \in Nat \ {0}, NEW i \in Nat, NEW j \in Nat, NEW m \in Nat,
         NEW k \in Nat, NEW l \in Nat,
         o <= i, i <= j, j < m, m < k, k <= l, l <= Len(v), Digital(v, i, j), Digital(v, k, l),
         \A x \in o .. i - 1 : v[x] \in Before, Blanks(v, j + 1, m - 1), IsDash(v[m]),
         Blanks(v, m + 1, k - 1), l + 1 <= Len(v) => ~IsNumber(v[l + 1])
  PROVE  Reads(v, o, i, Between(NumberAt(v, i, j), NumberAt(v, k, l)), k)
<1>0. Len(v) \in Nat /\ o \in Nat /\ o >= 1 /\ i \in Nat \ {0} /\ m \in Nat \ {0} /\ k \in Nat \ {0}
  OBVIOUS
<1>1. Skip(v, o, ListChars \ Digits) = i
  <2>1. i \in o .. Len(v) + 1  BY <1>0
  <2>2. v[i] \notin Before  BY Kinds DEF Digital
  <2> QED  BY <2>1, <2>2, SkipIs DEF Before
<1>2. Skip(v, i, Digits \cup {" "}) = m
  <2>1. m \in i .. Len(v) + 1  BY <1>0
  <2>2. ASSUME NEW x \in i .. m - 1 PROVE v[x] \in Within
    <3>1. x \in i .. j \/ x \in j + 1 .. m - 1  OBVIOUS
    <3>2. IsNumber(v[x]) \/ IsBlank(v[x])  BY <3>1 DEF Digital, Blanks
    <3> QED  BY <3>2, Kinds
  <2>3. v[m] \notin Within  BY Kinds
  <2> QED  BY <1>0, <2>1, <2>2, <2>3, SkipIs DEF Within
<1>3. Skip(v, m, ListChars \ (Digits \cup {","})) = k
  <2>1. k \in m .. Len(v) + 1  BY <1>0
  <2>2. ASSUME NEW x \in m .. k - 1 PROVE v[x] \in Beyond
    <3>1. x = m \/ x \in m + 1 .. k - 1  OBVIOUS
    <3>2. IsDash(v[x]) \/ IsBlank(v[x])  BY <3>1 DEF Blanks
    <3> QED  BY <3>2, Kinds
  <2>3. IsNumber(v[k])  BY DEF Digital
  <2>4. v[k] \notin Beyond  BY <2>3, Kinds
  <2> QED  BY <1>0, <2>1, <2>2, <2>4, SkipIs DEF Beyond
<1>4. atoi(v, i) = NumberAt(v, i, j)
  <2>1. j \in i .. Len(v)  BY <1>0
  <2>2. ~IsNumber(v[j + 1])
    <3>1. CASE m = j + 1  BY <3>1, Kinds
    <3>2. CASE m # j + 1
      <4>1. j + 1 \in j + 1 .. m - 1  BY <3>2
      <4>2. IsBlank(v[j + 1])  BY <4>1 DEF Blanks
      <4> QED  BY <4>2, Kinds
    <3> QED  BY <3>1, <3>2
  <2> QED  BY <1>0, <2>1, <2>2, atoiIs
<1>5. atoi(v, k) = NumberAt(v, k, l)
  <2>1. l \in k .. Len(v)  BY <1>0
  <2> QED  BY <1>0, <2>1, atoiIs
<1>6. ~(m > Len(v) \/ v[m] # "-")  BY <1>0 DEF IsDash
<1>7. ~(k > Len(v) \/ v[k] = ",")
  <2>1. IsNumber(v[k])  BY DEF Digital
  <2>2. ~IsComma(v[k])  BY <2>1, Kinds
  <2>3. v[k] # ","  BY <2>2, Zenon DEF IsComma
  <2>4. ~(k > Len(v))  BY <1>0
  <2> QED  BY <2>3, <2>4, Zenon
<1> QED  BY <1>1, <1>2, <1>3, <1>4, <1>5, <1>6, <1>7 DEF Round, Reads

-----------------------------------------------------------------------------
(* The items of a list.                                                    *)

\* Numbers as Strip and Number see them.
LEMMA NumberFound ==
  ASSUME NEW v \in Seq(Letters), NEW a \in Nat \ {0}, NEW b \in 0 .. Len(v), a <= b + 1,
         Number(Strip(SubSeq(v, a, b)))
  PROVE  \E i, j \in a .. b :
           /\ i <= j /\ Digital(v, i, j) /\ Blanks(v, a, i - 1) /\ Blanks(v, j + 1, b)
           /\ ValueOf(Strip(SubSeq(v, a, b))) = NumberAt(v, i, j)
<1> DEFINE E == {k \in a .. b : ~IsBlank(v[k])}
<1>0. b \in Nat /\ a \in Nat /\ a >= 1 /\ Len(v) \in Nat /\ b <= Len(v)  OBVIOUS
<1>1. E # {}
  <2> SUFFICES ASSUME E = {} PROVE FALSE  OBVIOUS
  <2>1. Blanks(v, a, b)  BY DEF Blanks
  <2>2. Strip(SubSeq(v, a, b)) = <<>>  BY <2>1, StripNone
  <2>3. Len(<<>>) \in 1 .. 2  BY <2>2 DEF Number
  <2> QED  BY <2>3
<1>2. E \in SUBSET Nat /\ E \in SUBSET (0 .. b)  BY <1>0
<1>3. PICK i \in E : \A y \in E : i <= y
  <2> HIDE DEF E
  <2> QED  BY <1>1, <1>2, SmallestExists
<1>4. PICK j \in E : \A y \in E : y <= j
  <2> HIDE DEF E
  <2> QED  BY <1>0, <1>1, <1>2, LargestExists
<1>5. i \in a .. b /\ j \in a .. b /\ i <= j /\ ~IsBlank(v[i]) /\ ~IsBlank(v[j])  BY <1>3
<1>6. Blanks(v, a, i - 1) /\ Blanks(v, j + 1, b)
  <2>1. ASSUME NEW k \in a .. i - 1 PROVE IsBlank(v[k])
    <3>1. k \in a .. b /\ ~(i <= k)  BY <1>0, <1>5
    <3>2. k \notin E  BY <1>3, <3>1
    <3> QED  BY <3>1, <3>2
  <2>2. ASSUME NEW k \in j + 1 .. b PROVE IsBlank(v[k])
    <3>1. k \in a .. b /\ ~(k <= j)  BY <1>0, <1>5
    <3>2. k \notin E  BY <1>4, <3>1
    <3> QED  BY <3>1, <3>2
  <2> QED  BY <2>1, <2>2 DEF Blanks
<1> HIDE DEF E
<1> DEFINE s == SubSeq(v, i, j)
<1>7. Strip(SubSeq(v, a, b)) = s
  <2>1. j \in i .. b  BY <1>0, <1>5
  <2> QED  BY <1>0, <1>5, <1>6, <2>1, StripIs
<1>8. /\ Len(s) = j + 1 - i /\ DOMAIN s = 1 .. j + 1 - i
      /\ \A k \in 1 .. j + 1 - i : s[k] = v[i + k - 1]
  <2>1. i \in Nat \ {0} /\ j \in 0 .. Len(v) /\ i <= j + 1  BY <1>0, <1>5
  <2> QED  BY <2>1, SubSeqIs
<1> HIDE DEF s
<1>9. Len(s) \in 1 .. 2 /\ \A k \in DOMAIN s : IsNumber(s[k])  BY <1>7 DEF Number
<1>10. j = i \/ j = i + 1  BY <1>0, <1>5, <1>8, <1>9
<1>11. Digital(v, i, j)
  <2>1. ASSUME NEW x \in i .. j PROVE IsNumber(v[x])
    <3>1. x + 1 - i \in 1 .. j + 1 - i /\ i + (x + 1 - i) - 1 = x  BY <1>0, <1>5
    <3>2. s[x + 1 - i] = v[x]  BY <1>8, <3>1
    <3> QED  BY <1>8, <1>9, <3>1, <3>2
  <2> QED  BY <1>0, <1>5, <1>10, <2>1 DEF Digital
<1>12. ValueOf(s) = NumberAt(v, i, j)
  <2>1. s[1] = v[i]
    <3>1. 1 \in 1 .. j + 1 - i /\ i + 1 - 1 = i  BY <1>0, <1>5
    <3> QED  BY <1>8, <3>1
  <2>2. CASE j = i
    <3>1. Len(s) = 1  BY <1>0, <1>5, <1>8, <2>2
    <3> QED  BY <2>1, <2>2, <3>1 DEF ValueOf, NumberAt
  <2>3. CASE j = i + 1
    <3>1. Len(s) = 2 /\ 2 \in 1 .. j + 1 - i /\ i + 2 - 1 = j /\ i # j
      BY <1>0, <1>5, <1>8, <2>3
    <3>2. s[2] = v[j]  BY <1>8, <3>1
    <3> QED  BY <2>1, <3>1, <3>2 DEF ValueOf, NumberAt
  <2> QED  BY <1>10, <2>2, <2>3
<1> QED  BY <1>5, <1>6, <1>7, <1>11, <1>12

\* Where an item of the list v stands.
Span(v, a, b) ==
  /\ a \in 1 .. Len(v) /\ b \in a .. Len(v) /\ \A k \in a .. b : ~IsComma(v[k])
  /\ a = 1 \/ IsComma(v[a - 1])
  /\ b = Len(v) \/ IsComma(v[b + 1])

LEMMA SpanStarts ==
  ASSUME NEW v, NEW q \in Spans(v)
  PROVE  q \in (1 .. Len(v)) \X (1 .. Len(v))
BY Zenon DEF Spans

LEMMA SpanIs ==
  ASSUME NEW v \in Seq(Letters), NEW a, NEW b
  PROVE  <<a, b>> \in Spans(v) <=> Span(v, a, b)
<1> DEFINE p == <<a, b>>
<1>1. p[1] = a /\ p[2] = b  OBVIOUS
<1>2. <<a, b>> \in (1 .. Len(v)) \X (1 .. Len(v)) <=> a \in 1 .. Len(v) /\ b \in 1 .. Len(v)
  OBVIOUS
<1>3. a \in 1 .. Len(v) => (b \in a .. Len(v) <=> b \in 1 .. Len(v) /\ a <= b)  OBVIOUS
<1>4. p \in Spans(v) <=>
        /\ p \in (1 .. Len(v)) \X (1 .. Len(v))
        /\ p[1] <= p[2] /\ \A i \in p[1] .. p[2] : v[i] # ","
        /\ p[1] = 1 \/ v[p[1] - 1] = ","
        /\ p[2] = Len(v) \/ v[p[2] + 1] = ","
  BY DEF Spans
<1>5. p \in Spans(v) <=>
        /\ a \in 1 .. Len(v) /\ b \in 1 .. Len(v)
        /\ a <= b /\ \A i \in a .. b : v[i] # ","
        /\ a = 1 \/ v[a - 1] = ","
        /\ b = Len(v) \/ v[b + 1] = ","
  BY <1>1, <1>2, <1>4, Zenon
<1> QED  BY <1>3, <1>5, Zenon DEF Span, IsComma

\* From o on f holds B and what it holds from e on.
Takes(f, o, B, e) == f[o] = B \cup f[e]

LEMMA ReadsMore ==
  ASSUME NEW v, NEW f, Sol(v, 1, f), NEW o \in 1 .. Len(v) + 1, NEW i, i <= Len(v), Len(v) \in Nat,
         i \in Nat, NEW B, NEW e, Reads(v, o, i, B, e)
  PROVE  Takes(f, o, B, e)
<1>1. Round(v, o).bits = B /\ Round(v, o).to = e  BY DEF Reads
<1>2. ~(Skip(v, o, ListChars \ Digits) > Len(v))  BY DEF Reads
<1>3. f[o] = BitsAt(v, f, o)  BY SolAt
<1> QED  BY <1>1, <1>2, <1>3, Zenon DEF BitsAt, Takes

\* The loop at o, before an item at a .. b, takes the item and goes on behind it.
LEMMA NumberRead ==
  ASSUME NEW v \in Seq(Letters), NEW f, Sol(v, 1, f), NEW a, NEW b, Span(v, a, b),
         NEW o \in 1 .. a, \A k \in o .. a - 1 : v[k] \in Before,
         Number(Strip(SubSeq(v, a, b)))
  PROVE  Takes(f, o, {ValueOf(Strip(SubSeq(v, a, b)))}, b + 1)
<1>0. /\ a \in Nat \ {0} /\ b \in Nat /\ a <= b /\ b <= Len(v) /\ b \in 0 .. Len(v) /\ a <= b + 1
      /\ Len(v) \in Nat /\ o \in Nat \ {0} /\ o <= a /\ o \in 1 .. Len(v) + 1
      /\ b + 1 <= Len(v) => IsComma(v[b + 1])
  BY DEF Span
<1>1. PICK i \in a .. b, j \in a .. b :
        /\ i <= j /\ Digital(v, i, j) /\ Blanks(v, a, i - 1) /\ Blanks(v, j + 1, b)
        /\ ValueOf(Strip(SubSeq(v, a, b))) = NumberAt(v, i, j)
  BY <1>0, NumberFound
<1>2. i \in Nat /\ j \in Nat /\ o <= i /\ i <= j /\ j <= b /\ i <= Len(v)  BY <1>0, <1>1
<1>3. ASSUME NEW k \in o .. i - 1 PROVE v[k] \in Before
  <2>1. k \in o .. a - 1 \/ k \in a .. i - 1  BY <1>0, <1>2
  <2>2. CASE k \in a .. i - 1
    <3>1. IsBlank(v[k])  BY <1>1, <2>2 DEF Blanks
    <3> QED  BY <3>1, Kinds
  <2> QED  BY <2>1, <2>2
<1>4. Reads(v, o, i, {NumberAt(v, i, j)}, b + 1)  BY <1>0, <1>1, <1>2, <1>3, RoundNumber
<1>5. Takes(f, o, {NumberAt(v, i, j)}, b + 1)  BY <1>0, <1>2, <1>4, ReadsMore
<1> QED  BY <1>1, <1>5, Zenon

LEMMA BetweenHas ==
  ASSUME NEW x \in Nat, NEW y \in Nat
  PROVE  y \in Between(x, y)
<1> DEFINE T == {x, y}
<1>1. T \in SUBSET Nat  OBVIOUS
<1>2. CASE x <= y
  <2>1. Min(T) = x  BY <1>1, <1>2, MinIs
  <2>2. Max(T) = y  BY <1>1, <1>2, MaxIs
  <2> QED  BY <1>2, <2>1, <2>2 DEF Between
<1>3. CASE y <= x
  <2>1. Min(T) = y  BY <1>1, <1>3, MinIs
  <2>2. Max(T) = x  BY <1>1, <1>3, MaxIs
  <2> QED  BY <1>3, <2>1, <2>2 DEF Between
<1> QED  BY <1>2, <1>3

\* What a range with its dash at r covers.
RangeBits(s, r) == Min(Bounds(s, r)) .. Max(Bounds(s, r))

\* The same for a range: its second number is read twice, which adds nothing.
LEMMA RangeRead ==
  ASSUME NEW v \in Seq(Letters), NEW f, Sol(v, 1, f), NEW a, NEW b, Span(v, a, b),
         NEW o \in 1 .. a, \A k \in o .. a - 1 : v[k] \in Before,
         NEW s, s = SubSeq(v, a, b), NEW r \in RangeAt(s)
  PROVE  Takes(f, o, RangeBits(s, r), b + 1)
<1>0. /\ a \in Nat \ {0} /\ b \in Nat /\ a <= b /\ b <= Len(v) /\ b \in 0 .. Len(v) /\ a <= b + 1
      /\ Len(v) \in Nat /\ o \in Nat \ {0} /\ o <= a /\ o \in 1 .. Len(v) + 1
      /\ b + 1 <= Len(v) => IsComma(v[b + 1])
  BY DEF Span
<1>1. /\ Len(s) = b + 1 - a /\ DOMAIN s = 1 .. b + 1 - a
      /\ \A k \in 1 .. b + 1 - a : s[k] = v[a + k - 1]
  BY <1>0, SubSeqIs
<1>2. r \in 1 .. b + 1 - a /\ IsDash(s[r]) /\ Number(Left(s, r)) /\ Number(Right(s, r))
  BY <1>1 DEF RangeAt, IsDash
<1>3. PICK m \in a .. b : m = a + r - 1  BY <1>0, <1>2
<1>4. IsDash(v[m])  BY <1>1, <1>2, <1>3
<1>5. SubSeq(s, 1, r - 1) = SubSeq(v, a, m - 1)
  <2>1. /\ a \in a .. b + 1 /\ m - 1 \in 0 .. b /\ a <= (m - 1) + 1
        /\ a + 1 - a = 1 /\ (m - 1) + 1 - a = r - 1
    BY <1>0, <1>2, <1>3
  <2>2. SubSeq(SubSeq(v, a, b), a + 1 - a, (m - 1) + 1 - a) = SubSeq(v, a, m - 1)
    BY <1>0, <2>1, SubSeqOf
  <2> QED  BY <2>1, <2>2
<1>6. SubSeq(s, r + 1, Len(s)) = SubSeq(v, m + 1, b)
  <2>1. /\ m + 1 \in a .. b + 1 /\ m + 1 <= b + 1
        /\ (m + 1) + 1 - a = r + 1 /\ b + 1 - a = Len(s)
    BY <1>0, <1>1, <1>2, <1>3
  <2>2. SubSeq(SubSeq(v, a, b), (m + 1) + 1 - a, b + 1 - a) = SubSeq(v, m + 1, b)
    BY <1>0, <2>1, SubSeqOf
  <2> QED  BY <2>1, <2>2
<1>7. PICK i \in a .. m - 1, j \in a .. m - 1 :
        /\ i <= j /\ Digital(v, i, j) /\ Blanks(v, a, i - 1) /\ Blanks(v, j + 1, m - 1)
        /\ ValueOf(Left(s, r)) = NumberAt(v, i, j)
  <2>1. PICK y \in 0 .. Len(v) : y = m - 1 /\ a <= y + 1  BY <1>0, <1>3
  <2>2. Left(s, r) = Strip(SubSeq(v, a, y))  BY <1>5, <2>1 DEF Left
  <2>3. Number(Strip(SubSeq(v, a, y)))  BY <1>2, <2>2
  <2>4. \E i, j \in a .. y :
          /\ i <= j /\ Digital(v, i, j) /\ Blanks(v, a, i - 1) /\ Blanks(v, j + 1, y)
          /\ ValueOf(Strip(SubSeq(v, a, y))) = NumberAt(v, i, j)
    BY <1>0, <2>1, <2>3, NumberFound
  <2> QED  BY <2>1, <2>2, <2>4, Zenon
<1>8. PICK k \in m + 1 .. b, l \in m + 1 .. b :
        /\ k <= l /\ Digital(v, k, l) /\ Blanks(v, m + 1, k - 1) /\ Blanks(v, l + 1, b)
        /\ ValueOf(Right(s, r)) = NumberAt(v, k, l)
  <2>1. PICK x \in Nat \ {0} : x = m + 1 /\ x <= b + 1  BY <1>0, <1>3
  <2>2. Right(s, r) = Strip(SubSeq(v, x, b))  BY <1>6, <2>1 DEF Right
  <2>3. Number(Strip(SubSeq(v, x, b)))  BY <1>2, <2>2
  <2>4. \E k, l \in x .. b :
          /\ k <= l /\ Digital(v, k, l) /\ Blanks(v, x, k - 1) /\ Blanks(v, l + 1, b)
          /\ ValueOf(Strip(SubSeq(v, x, b))) = NumberAt(v, k, l)
    BY <1>0, <2>1, <2>3, NumberFound
  <2> QED  BY <2>1, <2>2, <2>4, Zenon
<1>9. /\ i \in Nat /\ j \in Nat /\ m \in Nat /\ k \in Nat \ {0} /\ k \in Nat /\ l \in Nat
      /\ o <= i /\ i <= j /\ j < m /\ m < k /\ k <= l /\ l <= Len(v) /\ l <= b
      /\ i <= Len(v) /\ k <= Len(v) /\ k \in 1 .. Len(v) + 1 /\ k <= k
  <2>1. i <= j /\ k <= l  BY <1>7, <1>8
  <2>2. m \in Nat /\ a <= m /\ m <= b  BY <1>0
  <2>3. i \in Nat /\ j \in Nat /\ a <= i /\ j < m  BY <1>0, <2>2
  <2>4. k \in Nat /\ l \in Nat /\ m < k /\ l <= b  BY <1>0, <2>2
  <2> QED  BY <1>0, <2>1, <2>2, <2>3, <2>4
<1>10. ASSUME NEW x \in o .. i - 1 PROVE v[x] \in Before
  <2>1. x \in o .. a - 1 \/ x \in a .. i - 1  BY <1>0, <1>9
  <2>2. CASE x \in a .. i - 1
    <3>1. IsBlank(v[x])  BY <1>7, <2>2 DEF Blanks
    <3> QED  BY <3>1, Kinds
  <2> QED  BY <2>1, <2>2
<1>11. ASSUME l + 1 <= Len(v) PROVE ~IsNumber(v[l + 1])
  <2>1. CASE l = b  BY <1>0, <1>11, <2>1, Kinds
  <2>2. CASE l # b
    <3>1. l + 1 \in l + 1 .. b  BY <1>0, <1>9, <2>2
    <3>2. IsBlank(v[l + 1])  BY <1>8, <3>1 DEF Blanks
    <3> QED  BY <3>2, Kinds
  <2> QED  BY <2>1, <2>2
<1>12. Reads(v, o, i, Between(NumberAt(v, i, j), NumberAt(v, k, l)), k)
  BY <1>0, <1>4, <1>7, <1>8, <1>9, <1>10, <1>11, RoundRange
<1>13. Reads(v, k, k, {NumberAt(v, k, l)}, b + 1)
  <2>1. \A x \in k .. k - 1 : v[x] \in Before  BY <1>9
  <2> QED  BY <1>0, <1>8, <1>9, <2>1, RoundNumber
<1>14. Takes(f, o, Between(NumberAt(v, i, j), NumberAt(v, k, l)), k)
  BY <1>0, <1>9, <1>12, ReadsMore
<1>15. Takes(f, k, {NumberAt(v, k, l)}, b + 1)  BY <1>0, <1>9, <1>13, ReadsMore
<1>16. NumberAt(v, i, j) \in Nat /\ NumberAt(v, k, l) \in Nat  BY <1>7, <1>8, <1>9, ValNat
<1>17. NumberAt(v, k, l) \in Between(NumberAt(v, i, j), NumberAt(v, k, l))  BY <1>16, BetweenHas
<1>18. RangeBits(s, r) = Between(NumberAt(v, i, j), NumberAt(v, k, l))
  BY <1>7, <1>8 DEF Bounds, Between, RangeBits
<1> QED  BY <1>14, <1>15, <1>17, <1>18, Zenon DEF Takes

LEMMA ItemRead ==
  ASSUME NEW v \in Seq(Letters), NEW f, Sol(v, 1, f), NEW a, NEW b, Span(v, a, b),
         NEW o \in 1 .. a, \A k \in o .. a - 1 : v[k] \in Before,
         NEW s, s = SubSeq(v, a, b), Number(Strip(s)) \/ RangeAt(s) # {}
  PROVE  Takes(f, o, ItemBits(s), b + 1)
<1>1. CASE Number(Strip(s))
  <2>1. Takes(f, o, {ValueOf(Strip(SubSeq(v, a, b)))}, b + 1)  BY <1>1, NumberRead
  <2>2. ItemBits(s) = {ValueOf(Strip(s))}  BY <1>1 DEF ItemBits
  <2> QED  BY <2>1, <2>2
<1>2. CASE ~Number(Strip(s))
  <2>1. ASSUME NEW r \in RangeAt(s) PROVE Takes(f, o, RangeBits(s, r), b + 1)
    BY RangeRead
  <2>2. RangeAt(s) # {}  BY <1>2
  <2>3. ItemBits(s) = UNION {RangeBits(s, r) : r \in RangeAt(s)}
    BY <1>2 DEF ItemBits, RangeBits
  <2>4. PICK r \in RangeAt(s) : TRUE  BY <2>2
  <2>5. f[o] = RangeBits(s, r) \cup f[b + 1]  BY <2>1 DEF Takes
  <2>6. \A q \in RangeAt(s) : RangeBits(s, q) \subseteq f[o]  BY <2>1 DEF Takes
  <2>7. RangeBits(s, r) \subseteq ItemBits(s) /\ ItemBits(s) \subseteq f[o]  BY <2>3, <2>6
  <2>8. f[o] = ItemBits(s) \cup f[b + 1]  BY <2>5, <2>7
  <2> QED  BY <2>8 DEF Takes
<1> QED  BY <1>1, <1>2

-----------------------------------------------------------------------------
(* The items from a position on.                                           *)

\* What the items say that begin at a or behind it.
Rest(v, a) == UNION {ItemBits(SubSeq(v, p[1], p[2])) : p \in {q \in Spans(v) : q[1] >= a}}

LEMMA SpanExists ==
  ASSUME NEW v \in Seq(Letters), NEW a \in 1 .. Len(v), ~IsComma(v[a]),
         a = 1 \/ IsComma(v[a - 1])
  PROVE  \E b \in a .. Len(v) : Span(v, a, b)
<1> DEFINE N == Len(v)
           T == {k \in a .. N : k = N \/ IsComma(v[k + 1])}
<1>0. N \in Nat /\ a \in Nat /\ a >= 1 /\ a <= N  OBVIOUS
<1>1. T \in SUBSET Nat /\ N \in T  BY <1>0
<1>2. PICK b \in T : \A y \in T : b <= y
  <2>1. T # {}  BY <1>1
  <2> HIDE DEF T
  <2> QED  BY <1>1, <2>1, SmallestExists
<1>3. b \in a .. N /\ (b = N \/ IsComma(v[b + 1]))  OBVIOUS
<1>4. ASSUME NEW k \in a .. b, IsComma(v[k]) PROVE FALSE
  <2>1. k # a  BY <1>4
  <2>2. k - 1 \in a .. N /\ (k - 1) + 1 = k /\ ~(b <= k - 1)  BY <1>0, <1>3, <2>1
  <2>3. k - 1 \in T  BY <1>4, <2>2
  <2> QED  BY <1>2, <2>2, <2>3
<1> QED  BY <1>3, <1>4 DEF Span

\* Behind an item the next begins at c.
LEMMA RestSplit ==
  ASSUME NEW v \in Seq(Letters), NEW a, NEW b, Span(v, a, b),
         NEW c, c = IF b = Len(v) THEN b + 1 ELSE b + 2
  PROVE  Rest(v, a) = ItemBits(SubSeq(v, a, b)) \cup Rest(v, c)
<1> DEFINE From(x) == {q \in Spans(v) : q[1] >= x}
           Bits(q) == ItemBits(SubSeq(v, q[1], q[2]))
<1>0. /\ a \in Nat /\ b \in Nat /\ a >= 1 /\ a <= b /\ b <= Len(v) /\ Len(v) \in Nat /\ c \in Nat
      /\ a <= c
  BY DEF Span
<1>1. <<a, b>> \in From(a)
  <2>1. <<a, b>> \in Spans(v) /\ <<a, b>>[1] >= a  BY <1>0, SpanIs
  <2> QED  BY <2>1
<1>2. \A q \in From(c) : q \in From(a)
  <2>1. \A q \in Spans(v) : q[1] \in Nat  BY SpanStarts
  <2> QED  BY <1>0, <2>1
<1>3. ASSUME NEW q \in From(a), q \notin From(c) PROVE q = <<a, b>>
  <2>1. q \in (1 .. Len(v)) \X (1 .. Len(v))  BY SpanStarts
  <2>2. PICK x \in 1 .. Len(v), y \in 1 .. Len(v) : q = <<x, y>>  BY <2>1
  <2>3. Span(v, x, y)  BY <2>2, SpanIs
  <2>4. x >= a /\ ~(x >= c) /\ x \in Nat /\ y \in Nat /\ x <= y /\ y <= Len(v)
    BY <1>3, <2>2, <2>3 DEF Span
  <2>5. x = a
    <3>1. CASE a < x /\ x <= b
      <4>1. x - 1 \in a .. b /\ x # 1  BY <1>0, <2>4, <3>1
      <4> QED  BY <2>3, <4>1 DEF Span
    <3>2. CASE x = b + 1 /\ b # Len(v)
      <4>1. IsComma(v[b + 1]) /\ x \in x .. y  BY <2>4, <3>2 DEF Span
      <4> QED  BY <2>3, <3>2, <4>1 DEF Span
    <3> QED  BY <1>0, <2>4, <3>1, <3>2
  <2>6. y = b
    <3>1. CASE y < b
      <4>1. y + 1 \in a .. b /\ y # Len(v)  BY <1>0, <2>4, <2>5, <3>1
      <4> QED  BY <2>3, <4>1 DEF Span
    <3>2. CASE b < y
      <4>1. b + 1 \in x .. y /\ b # Len(v)  BY <1>0, <2>4, <2>5, <3>2
      <4> QED  BY <2>3, <4>1 DEF Span
    <3> QED  BY <1>0, <2>4, <3>1, <3>2
  <2> QED  BY <2>2, <2>5, <2>6
<1>4. Bits(<<a, b>>) = ItemBits(SubSeq(v, a, b))  OBVIOUS
<1>5. Rest(v, a) = UNION {Bits(q) : q \in From(a)} /\ Rest(v, c) = UNION {Bits(q) : q \in From(c)}
  BY DEF Rest
<1>6. \A q : q \in From(a) <=> q \in From(c) \/ q = <<a, b>>  BY <1>1, <1>2, <1>3
<1> HIDE DEF From, Bits
<1>7. UNION {Bits(q) : q \in From(a)} = Bits(<<a, b>>) \cup UNION {Bits(q) : q \in From(c)}
  BY <1>6
<1> QED  BY <1>4, <1>5, <1>7

\* Commas stand between items.
LEMMA ListItems ==
  ASSUME NEW v \in Seq(Letters), IsList(v)
  PROVE  /\ \A a \in 1 .. Len(v) : a = 1 \/ IsComma(v[a - 1]) => ~IsComma(v[a])
         /\ \A a, b : Span(v, a, b) =>
              Number(Strip(SubSeq(v, a, b))) \/ RangeAt(SubSeq(v, a, b)) # {}
<1>1. ASSUME NEW a \in 1 .. Len(v), a = 1 \/ IsComma(v[a - 1]), IsComma(v[a]) PROVE FALSE
  <2>1. \A i \in DOMAIN v : v[i] = "," => i > 1 /\ v[i - 1] # ","  BY Zenon DEF IsList
  <2>2. a \in DOMAIN v  OBVIOUS
  <2>3. v[a] = ","  BY <1>1, Zenon DEF IsComma
  <2>4. a > 1  BY <2>1, <2>2, <2>3, Zenon
  <2>5. v[a - 1] # ","  BY <2>1, <2>2, <2>3, Zenon
  <2>6. a # 1  BY <2>4
  <2> QED  BY <1>1, <2>5, <2>6, Zenon DEF IsComma
<1>2. ASSUME NEW a, NEW b, Span(v, a, b)
      PROVE  Number(Strip(SubSeq(v, a, b))) \/ RangeAt(SubSeq(v, a, b)) # {}
  <2>1. <<a, b>> \in Spans(v)  BY <1>2, SpanIs
  <2>2. SubSeq(v, a, b) \in Items(v)
    <3>1. SubSeq(v, <<a, b>>[1], <<a, b>>[2]) \in Items(v)  BY <2>1, Zenon DEF Items
    <3> QED  BY <3>1
  <2> QED  BY <2>2, Zenon DEF IsList
<1> QED  BY <1>1, <1>2

\* The loop at o, before the item that begins at a, or at the end.
ReadFrom(v, f, a) ==
  \A o \in 1 .. a : (\A k \in o .. a - 1 : v[k] \in Before) => f[o] = Rest(v, a)
Begins(v, a) == a = 1 \/ a = Len(v) + 1 \/ IsComma(v[a - 1])

LEMMA EndRead ==
  ASSUME NEW v \in Seq(Letters), NEW f, Sol(v, 1, f)
  PROVE  ReadFrom(v, f, Len(v) + 1)
<1>0. Len(v) \in Nat /\ (Len(v) + 1) - 1 = Len(v)  OBVIOUS
<1>1. Rest(v, Len(v) + 1) = {}
  <2>1. \A q \in Spans(v) : q[1] \in 1 .. Len(v)  BY SpanStarts
  <2>2. {q \in Spans(v) : q[1] >= Len(v) + 1} = {}  BY <1>0, <2>1
  <2> QED  BY <2>2 DEF Rest
<1>2. ASSUME NEW o \in 1 .. Len(v) + 1, \A k \in o .. (Len(v) + 1) - 1 : v[k] \in Before
      PROVE  f[o] = {}
  <2>1. PICK e \in o .. Len(v) + 1 : e = Len(v) + 1  BY <1>0
  <2>2. (\A k \in o .. e - 1 : v[k] \in ListChars \ Digits) /\ ~(e <= Len(v)) /\ o \in Nat \ {0}
    BY <1>0, <1>2, <2>1 DEF Before
  <2>3. Skip(v, o, ListChars \ Digits) = e  BY <2>2, SkipIs
  <2>4. Skip(v, o, ListChars \ Digits) > Len(v)  BY <1>0, <2>1, <2>3
  <2>5. f[o] = BitsAt(v, f, o)  BY SolAt
  <2> QED  BY <2>4, <2>5, Zenon DEF BitsAt
<1> QED  BY <1>1, <1>2 DEF ReadFrom

\* One item before what follows it.
LEMMA ItemRest ==
  ASSUME NEW v \in Seq(Letters), IsList(v), NEW f, Sol(v, 1, f),
         NEW a \in 1 .. Len(v), Begins(v, a),
         \A c \in a + 1 .. Len(v) + 1 : Begins(v, c) => ReadFrom(v, f, c)
  PROVE  ReadFrom(v, f, a)
<1>0. Len(v) \in Nat /\ a \in Nat /\ a >= 1 /\ a <= Len(v) /\ a # Len(v) + 1  OBVIOUS
<1>1. a = 1 \/ IsComma(v[a - 1])  BY <1>0 DEF Begins
<1>2. ~IsComma(v[a])  BY <1>1, ListItems
<1>3. PICK b \in a .. Len(v) : Span(v, a, b)  BY <1>1, <1>2, SpanExists
<1>4. PICK c : c = IF b = Len(v) THEN b + 1 ELSE b + 2  OBVIOUS
<1>5. c \in a + 1 .. Len(v) + 1 /\ b + 1 \in 1 .. c  BY <1>0, <1>4
<1>6. Begins(v, c)
  <2>1. CASE b = Len(v)  BY <1>4, <2>1 DEF Begins
  <2>2. CASE b # Len(v)
    <3>1. c - 1 = b + 1 /\ IsComma(v[b + 1])  BY <1>0, <1>3, <1>4, <2>2 DEF Span
    <3>2. IsComma(v[c - 1])  BY <3>1
    <3> QED  BY <3>2 DEF Begins
  <2> QED  BY <2>1, <2>2
<1>7. f[b + 1] = Rest(v, c)
  <2>1. ASSUME NEW k \in b + 1 .. c - 1 PROVE v[k] \in Before
    <3>1. b # Len(v) /\ k = b + 1  BY <1>0, <1>4
    <3>2. IsComma(v[k])  BY <1>3, <3>1 DEF Span
    <3> QED  BY <3>2, Kinds
  <2>2. ReadFrom(v, f, c)  BY <1>5, <1>6
  <2> QED  BY <1>5, <2>1, <2>2 DEF ReadFrom
<1>8. Rest(v, a) = ItemBits(SubSeq(v, a, b)) \cup Rest(v, c)  BY <1>3, <1>4, RestSplit
<1>9. ASSUME NEW o \in 1 .. a, \A k \in o .. a - 1 : v[k] \in Before
      PROVE  f[o] = Rest(v, a)
  <2>1. PICK s : s = SubSeq(v, a, b)  OBVIOUS
  <2>2. Number(Strip(s)) \/ RangeAt(s) # {}  BY <1>3, <2>1, ListItems
  <2>3. Takes(f, o, ItemBits(s), b + 1)  BY <1>3, <1>9, <2>1, <2>2, ItemRead
  <2> QED  BY <1>7, <1>8, <2>1, <2>3 DEF Takes
<1> QED  BY <1>9 DEF ReadFrom

LEMMA AllRead ==
  ASSUME NEW v \in Seq(Letters), IsList(v), NEW f, Sol(v, 1, f)
  PROVE  \A a \in 1 .. Len(v) + 1 : Begins(v, a) => ReadFrom(v, f, a)
<1> DEFINE N == Len(v)
           Bad == {a \in 1 .. N + 1 : Begins(v, a) /\ ~ReadFrom(v, f, a)}
<1>0. N \in Nat  OBVIOUS
<1>1. SUFFICES ASSUME Bad # {} PROVE FALSE  OBVIOUS
<1>2. Bad \in SUBSET (0 .. N + 1) /\ N + 1 \in Nat  BY <1>0
<1>3. PICK a \in Bad : \A y \in Bad : y <= a
  <2> HIDE DEF Bad
  <2> QED  BY <1>1, <1>2, LargestExists
<1>4. a \in 1 .. N + 1 /\ Begins(v, a) /\ ~ReadFrom(v, f, a)  OBVIOUS
<1>5. CASE a = N + 1  BY <1>4, <1>5, EndRead
<1>6. CASE a # N + 1
  <2>1. a \in 1 .. Len(v)  BY <1>0, <1>4, <1>6
  <2>2. ASSUME NEW c \in a + 1 .. Len(v) + 1, Begins(v, c) PROVE ReadFrom(v, f, c)
    <3>1. c \in 1 .. N + 1 /\ ~(c <= a)  BY <1>0, <1>4
    <3>2. c \notin Bad  BY <1>3, <3>1
    <3> QED  BY <2>2, <3>1, <3>2
  <2> QED  BY <1>4, <2>1, <2>2, ItemRest
<1> QED  BY <1>5, <1>6

LEMMA ListRead ==
  ASSUME NEW v \in Seq(Letters), IsList(v)
  PROVE  ParseBitArray(v) = UNION {ItemBits(s) : s \in Items(v)}
<1>1. PICK f : Sol(v, 1, f) /\ ParseBitArray(v) = f[1]  BY ParseIs
<1>2. 1 \in 1 .. Len(v) + 1 /\ Begins(v, 1) /\ 1 \in 1 .. 1  BY DEF Begins
<1>3. ReadFrom(v, f, 1)  BY <1>1, <1>2, AllRead
<1>4. f[1] = Rest(v, 1)
  <2>1. \A k \in 1 .. 1 - 1 : v[k] \in Before  OBVIOUS
  <2> QED  BY <1>2, <1>3, <2>1 DEF ReadFrom
<1>5. Rest(v, 1) = UNION {ItemBits(s) : s \in Items(v)}
  <2>1. \A q \in Spans(v) : q[1] >= 1  BY SpanStarts
  <2>2. {q \in Spans(v) : q[1] >= 1} = Spans(v)  BY <2>1
  <2>3. Rest(v, 1) = UNION {ItemBits(SubSeq(v, p[1], p[2])) : p \in Spans(v)}
    BY <2>2 DEF Rest
  <2> QED  BY <2>3, Zenon DEF Items
<1> QED  BY <1>1, <1>4, <1>5

\* The bitmap of a list is the union of its numbers and ranges, for a list of any length,
\* in any order and with blanks about them, if its numbers have at most two digits
\* (BitList; ParseBitArray).
THEOREM ListsAreRead == Spec => []BitList
<1>1. MeaningInv => BitList
  <2> SUFFICES ASSUME MeaningInv, result = "PEC_NONE", IsList(Value)
               PROVE  ParseBitArray(Value) = UNION {ItemBits(s) : s \in Items(Value)}
    BY Zenon DEF BitList
  <2>1. Value \in Seq(Letters)
    <3>1. /\ text \in Seq(Letters) /\ line \in LineType /\ from \in Nat \ {0}
          /\ Through(text, from, line)
      BY DEF MeaningInv
    <3>2. PICK p \in Nat, q \in Nat : p = line.val_begin /\ q = line.val_end
      BY <3>1 DEF LineType
    <3>3. PICK e \in from .. Len(text) + 1 : Meant(text, from, line, e)
      BY <3>1 DEF Through
    <3>4. CASE q <= p
      <4>1. SubSeq(text, p, q - 1) = <<>>  BY <3>4
      <4>2. Value = <<>>  BY <3>2, <4>1, Zenon DEF Value
      <4> QED  BY <4>2
    <3>5. CASE p < q
      <4>1. p \in 1 .. Len(text) /\ q - 1 \in 1 .. Len(text)
        BY <3>1, <3>2, <3>3, <3>5, MeantInside
      <4>2. SubSeq(text, p, q - 1) \in Seq(Letters)  BY <3>1, <4>1
      <4> QED  BY <3>2, <4>2 DEF Value
    <3> QED  BY <3>4, <3>5
  <2> QED  BY <2>1, ListRead
<1> QED  BY <1>1, MeaningInit, MeaningStep, PTL DEF Spec
=============================================================================
