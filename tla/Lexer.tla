------------------------------- MODULE Lexer --------------------------------
(***************************************************************************)
(* Lex of src/include/fn_parse.h: the automaton that reads one line of the *)
(* configuration, and ParseBitArray, which reads the value of the list     *)
(* keys.  One step is one round of Lex's loop.  The text, which holds no   *)
(* zero character (see Parser), is chosen one character ahead of current_; *)
(* "key" and "list" stand for reserved words, "x" for any other letter.    *)
(***************************************************************************)
EXTENDS Naturals, Sequences, FiniteSetsExt

CONSTANTS
  Chars,      \* what a text is made of outside lists and comments
  MaxChars    \* bound: length of the text

ASSUME LexerAssumption == MaxChars \in Nat \ {0}

VARIABLES
  text,       \* the characters before current_
  next,       \* the character at current_
  line,       \* LexState::line_; positions are indices of text
  line_no,    \* LexState::line_no_
  result,     \* "lexing", or what Lex returned
  from        \* history: where the line begins

vars == <<text, next, line, line_no, result, from>>

IsNumber(c)        == c \in {"1", "2"}
IsBlank(c)         == c = " "
IsLineBound(c)     == c \in {"NUL", "CR", "LF"}
IsSoftLineBound(c) == IsLineBound(c) \/ c = "#"
IsLetter(c)        == c \in {"key", "list", "x"}
Closer             == [q \in {"quote", "["} |-> IF q = "[" THEN "]" ELSE "quote"]

\* What may follow: in a comment and behind a list key less is worth telling
\* apart.
ListChars    == {":", "1", "2", ",", "-", " ", "LF"}
CommentChars == {"quote", "CR", "LF"}
Following(t, start) ==
  LET within(c) == \E i \in start .. Len(t) : t[i] = c
  IN  IF Len(t) >= MaxChars THEN {"NUL"}
      ELSE {"NUL"} \cup IF within("#") THEN CommentChars
                        ELSE IF within("list") THEN ListChars ELSE Chars

-----------------------------------------------------------------------------
(* Lex.                                                                    *)

Here == Len(text) + 1     \* ls.current_ - 1, once the character is read

NewLine == [blank |-> 0, chars |-> 0, block |-> "NONE", stack |-> "NUL", key |-> "NULL",
            val_begin |-> 0, val_end |-> 0]

\* The character is read and the loop goes round.
Continue(l) ==
  /\ text' = Append(text, next)
  /\ line' = [l EXCEPT !.chars = @ + 1]
  /\ next' \in Following(text', from)
  /\ UNCHANGED <<line_no, result, from>>

Fail(error) == result' = error /\ UNCHANGED <<text, next, line, line_no, from>>

\* Nothing is left: Lex returns at once and counts no line.
AtEnd == next = "NUL" /\ from = Here
Nothing ==
  /\ AtEnd
  /\ result' = "PEC_NONE" /\ line' = NewLine
  /\ UNCHANGED <<text, next, line_no, from>>

\* Mutant: the blanks at the end stay.
TrimmedNot(l) == l

\* The value without the blanks at its end.
Trimmed(l) ==
  [l EXCEPT !.val_end = IF l.val_end <= l.val_begin THEN @ ELSE
     Max({l.val_begin} \cup {e \in l.val_begin + 1 .. l.val_end : ~IsBlank(text[e - 1])})]

AtBound ==
  IF line.block = "VAL" THEN Trimmed([line EXCEPT !.block = "CLEAN", !.val_end = Here])
  ELSE IF line.block = "PRE_VAL"
  THEN [line EXCEPT !.block = "CLEAN", !.val_begin = Here, !.val_end = Here]
  ELSE Trimmed(line)

\* Mutant: the two characters of a line end are two line ends.
LineEndUnpaired(c) ==
  /\ text' = Append(text, next) /\ next' = c

\* A line end of two different characters is one.
LineEnd(c) ==
  IF c \in {"CR", "LF"} /\ c # next
  THEN text' = text \o <<next, c>> /\ next' \in Following(text', Len(text'))
  ELSE text' = Append(text, next) /\ next' = c

Bound ==
  /\ ~AtEnd /\ IsSoftLineBound(next)
  /\ line.block = "CLEAN" => IsLineBound(next)
  /\ IF line.block \in {"KEY", "PRE_SEP"} \/ (line.block = "VAL" /\ line.stack # "NUL")
     THEN Fail("PEC_NOT_CLOSURE")
     ELSE IF next = "#" THEN Continue([AtBound EXCEPT !.block = "CLEAN"])
     ELSE /\ line' = [AtBound EXCEPT !.chars = @ + 1]
          /\ line_no' = line_no + 1 /\ result' = "PEC_NONE"
          /\ IF next = "NUL" THEN UNCHANGED <<text, next>>
             ELSE \E c \in Following(Append(text, next), Here + 1) : LineEnd(c)
          /\ UNCHANGED from

Clean == /\ line.block = "CLEAN" /\ ~IsLineBound(next)
         /\ Continue(line)

Begin ==
  /\ line.block = "NONE" /\ ~IsSoftLineBound(next)
  /\ IF IsBlank(next)
     THEN Continue([line EXCEPT !.blank = IF @ = line.chars THEN @ + 1 ELSE @])
     ELSE IF next = "-" THEN Continue(line)
     ELSE IF ~IsLetter(next) THEN Fail("PEC_ILLEGAL_KEY")
     ELSE Continue([line EXCEPT !.block = "KEY", !.key = IF next = "x" THEN "NULL" ELSE next])

\* Behind the key: blanks, then the separator.
Separator(l) ==
  IF next = ":" THEN Continue([l EXCEPT !.block = "PRE_VAL"])
  ELSE IF IsBlank(next) THEN Continue(l)
  ELSE Fail("PEC_NONSUPPORT_SYNTAX")

Key ==
  /\ line.block = "KEY" /\ ~IsSoftLineBound(next)
  /\ IF IsLetter(next) \/ IsNumber(next) THEN Continue(line)
     ELSE IF line.key = "NULL" THEN Fail("PEC_ILLEGAL_KEY")
     ELSE Separator([line EXCEPT !.block = "PRE_SEP"])

PreSep == /\ line.block = "PRE_SEP" /\ ~IsSoftLineBound(next)
          /\ Separator(line)

PreVal ==
  /\ line.block = "PRE_VAL" /\ ~IsSoftLineBound(next)
  /\ IF IsBlank(next) THEN Continue(line)
     ELSE IF next \in DOMAIN Closer
     THEN Continue([line EXCEPT !.block = "VAL", !.stack = Closer[next], !.val_begin = Here + 1])
     ELSE Continue([line EXCEPT !.block = "VAL", !.stack = "NUL", !.val_begin = Here])

Val ==
  /\ line.block = "VAL" /\ ~IsSoftLineBound(next)
  /\ IF line.val_begin = Here /\ IsBlank(next) THEN Continue([line EXCEPT !.val_begin = Here + 1])
     ELSE IF line.stack # "NUL" /\ next = line.stack
     THEN Continue([line EXCEPT !.block = "CLEAN", !.val_end = Here])
     ELSE Continue(line)

Lex == /\ result = "lexing"
       /\ Nothing \/ Bound \/ Clean \/ Begin \/ Key \/ PreSep \/ PreVal \/ Val

\* The caller reads the next line; at the end of the text it stops.
Again ==
  /\ result = "PEC_NONE" /\ next # "NUL"
  /\ result' = "lexing" /\ line' = NewLine /\ from' = Len(text) + 1
  /\ UNCHANGED <<text, next, line_no>>

Init ==
  /\ text = <<>> /\ next \in Following(<<>>, 1)
  /\ line = NewLine /\ line_no = 1 /\ result = "lexing" /\ from = 1

Next == Lex \/ Again

Spec == Init /\ [][Next]_vars

-----------------------------------------------------------------------------
(* ParseBitArray.                                                          *)

\* The first position from o on that is not in skip, or one behind the end.
Skip(v, o, skip) == Min({i \in o .. Len(v) : v[i] \notin skip} \cup {Len(v) + 1})

Digits == {"1", "2"}
Digit  == [d \in Digits |-> IF d = "1" THEN 1 ELSE 2]

\* The number that begins at o.
atoi(v, o) ==
  LET end == Skip(v, o, Digits)
      n[i \in o - 1 .. end - 1] == IF i < o THEN 0 ELSE 10 * n[i - 1] + Digit[v[i]]
  IN  n[end - 1]

\* Mutant: the loop stops before the last bit.
BetweenOpen(a, b) == Min({a, b}) .. Max({a, b}) - 1

Between(a, b) == Min({a, b}) .. Max({a, b})

\* A round of the loop at o: the bits it sets and where it stops.
Round(v, o) ==
  LET first == Skip(v, o, ListChars \ Digits)
      dash  == Skip(v, first, Digits \cup {" "})
      last  == Skip(v, dash, ListChars \ (Digits \cup {","}))
  IN  IF dash > Len(v) \/ v[dash] # "-" THEN [bits |-> {atoi(v, first)}, to |-> dash]
      ELSE IF last > Len(v) \/ v[last] = "," THEN [bits |-> {atoi(v, first)}, to |-> last]
      ELSE [bits |-> Between(atoi(v, first), atoi(v, last)), to |-> last]

\* The bits set, bits behind the width of the bitmap included.
ParseBitArray(v) ==
  LET bits[o \in 1 .. Len(v) + 1] ==
        IF Skip(v, o, ListChars \ Digits) > Len(v) THEN {}
        ELSE Round(v, o).bits \cup bits[Round(v, o).to]
  IN  bits[1]

-----------------------------------------------------------------------------
(* Properties.                                                             *)

Value == SubSeq(text, line.val_begin, line.val_end - 1)

\* The reference: the line without its comment, taken apart by position.
Strip(s) ==
  LET solid == {i \in DOMAIN s : ~IsBlank(s[i])}
  IN  IF solid = {} THEN <<>> ELSE SubSeq(s, Min(solid), Max(solid))
Code  == SubSeq(text, from, Skip(text, from, (Chars \cup ListChars) \ {"CR", "LF", "#"}) - 1)
After == Strip(SubSeq(Code, 1 + Min({i \in DOMAIN Code : Code[i] = ":"}), Len(Code)))
Written ==
  IF After # <<>> /\ After[1] \in DOMAIN Closer
  THEN Strip(SubSeq(After, 2, Min({i \in 2 .. Len(After) : After[i] = Closer[After[1]]}) - 1))
  ELSE After

\* A line that is accepted means what the manual says, however blanks, quotes,
\* brackets and comments are mixed: its indentation is its leading blanks, the
\* value is what stands behind the separator or between the quotes, trimmed, and
\* a line without a key has none.
LineMeaning ==
  result = "PEC_NONE" =>
    IF \A i \in DOMAIN Code : Code[i] \in {" ", "-"}
    THEN line.key = "NULL" /\ Value = <<>>
    ELSE /\ line.key \in {"key", "list"} /\ Value = Written
         /\ line.blank = Min({i \in DOMAIN Code : ~IsBlank(Code[i])}) - 1

\* In a text that writes its line ends one way, line_no_ counts them, and one
\* more when the last line has none; in an empty text there is no line to count
\* (tests/test_line_no.cpp).
LineNumbers ==
  LET at(c) == {i \in DOMAIN text : text[i] = c}
      ended == result = "PEC_NONE" /\ text # <<>> /\ text[Len(text)] \notin {"CR", "LF"}
  IN  at("CR") \in {{}, {i - 1 : i \in at("LF")}} =>
        line_no = 1 + Cardinality(at("LF")) + IF ended THEN 1 ELSE 0

\* The reference for lists: what stands between the commas is a number or a range,
\* blanks aside.
Spans(v) == {p \in (1 .. Len(v)) \X (1 .. Len(v)) :
               /\ p[1] <= p[2] /\ \A i \in p[1] .. p[2] : v[i] # ","
               /\ p[1] = 1 \/ v[p[1] - 1] = ","
               /\ p[2] = Len(v) \/ v[p[2] + 1] = ","}
Items(v) == {SubSeq(v, p[1], p[2]) : p \in Spans(v)}

Number(s)  == Len(s) \in 1 .. 2 /\ \A i \in DOMAIN s : IsNumber(s[i])
ValueOf(s) == IF Len(s) = 1 THEN Digit[s[1]] ELSE 10 * Digit[s[1]] + Digit[s[2]]
Left(s, i)  == Strip(SubSeq(s, 1, i - 1))
Right(s, i) == Strip(SubSeq(s, i + 1, Len(s)))

\* Where a range has its dash.
RangeAt(s)   == {i \in DOMAIN s : s[i] = "-" /\ Number(Left(s, i)) /\ Number(Right(s, i))}
Bounds(s, i) == {ValueOf(Left(s, i)), ValueOf(Right(s, i))}
ItemBits(s) ==
  IF Number(Strip(s)) THEN {ValueOf(Strip(s))}
  ELSE UNION {Min(Bounds(s, i)) .. Max(Bounds(s, i)) : i \in RangeAt(s)}

IsList(v) ==
  /\ v # <<>>
  /\ \A i \in DOMAIN v : v[i] = "," => i > 1 /\ i < Len(v) /\ v[i - 1] # "," /\ v[i + 1] # ","
  /\ \A s \in Items(v) : Number(Strip(s)) \/ RangeAt(s) # {}

\* The bitmap of a list is the union of its numbers and ranges, in either order
\* and with blanks about them (tests/test_bitlist.cpp), as long as the numbers
\* have at most two digits.
BitList ==
  result = "PEC_NONE" /\ line.key = "list" /\ IsList(Value) =>
    ParseBitArray(Value) = UNION {ItemBits(s) : s \in Items(Value)}
=============================================================================
