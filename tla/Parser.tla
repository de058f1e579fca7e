------------------------------- MODULE Parser -------------------------------
(***************************************************************************)
(* The configuration parser (src/include/fn_parse.h): ParseLogger,         *)
(* ParseChannel and ParseDevice, which call each other, share one position *)
(* in the text, and hand a line back to the caller by setting the position *)
(* before it.  One step is one round of the loop of the function that is   *)
(* running, the call of Lex included (module Lexer looks inside it).       *)
(*                                                                         *)
(* The text is chosen line by line while it is read.  A line is how far it *)
(* is indented, its key and what the code looks at in its value.           *)
(***************************************************************************)
EXTENDS Naturals, Sequences

CONSTANTS
  Words,             \* the keys that occur in the text
  Indents,           \* how far a line may be indented
  MaxLines,          \* bound: lines of the text
  MAX_CHANNEL_SIZE, MAX_DEVICE_SIZE,
  PastZero           \* does end_ lie past the first zero?  It does if the text begins
                     \* with a UTF-8 byte order mark or has a zero in it.

ASSUME ParserAssumption ==
  /\ Indents \subseteq Nat
  /\ PastZero \in BOOLEAN
  /\ {MaxLines, MAX_CHANNEL_SIZE, MAX_DEVICE_SIZE} \subseteq Nat \ {0}

VARIABLES
  held,        \* the line ls.current_ was set back to, Blank if there is none
  last,        \* the last line was read, or there is none
  level,       \* the function that is running
  channel_indent, device_indent,
  line_no,     \* LexState::line_no_
  channel_size,
  devices,     \* channel.devices_ of the current channel
  channel_type, virtual_device_id,
  result,      \* "parsing", "replacing", PEC_NONE or an error; then what InitFromYMAL
               \* made of it
  lines,       \* history: lines of the text read
  open,        \* history: the headers the next line may lie under
  astray       \* history: some key did not go where the layout puts it

indents == <<channel_indent, device_indent>>
channel == <<devices, channel_type, virtual_device_id>>
vars == <<held, last, level, indents, line_no, channel_size, channel, result,
          lines, open, astray>>

-----------------------------------------------------------------------------
(* ParseReserve recognises a key by some of its characters.                *)

Rule(pattern, min, max, key) ==
  [pattern |-> pattern, min |-> min, max |-> max, key |-> key]

Long == 40   \* bound: longer than any key

\* The tests in their order; a dot stands for a character nobody looks at.
Rules == <<
  Rule("ch", 2, Long, "CHANNEL"),
  Rule("ca", 2, 11, "CATEGORY"),             Rule("ca.......e", 12, Long, "CATEGORY_EXTEND"),
  Rule("ca.......wl", 12, Long, "CATEGORY_WLIST"), Rule("ca.......wm", 12, Long, "CATEGORY_WMASK"),
  Rule("ca.......bl", 12, Long, "CATEGORY_BLIST"), Rule("ca.......bm", 12, Long, "CATEGORY_BMASK"),
  Rule("d.f", 3, Long, "DEFINE"), Rule("de", 3, Long, "DEVICE"), Rule("di", 3, Long, "DISABLE"),
  Rule("f", 2, Long, "FILE"), Rule("h", 2, Long, "HOT_UPDATE"), Rule("in", 2, Long, "IN_TYPE"),
  Rule("i", 2, 11, "IDENTIFY"),              Rule("i........e", 12, Long, "IDENTIFY_EXTEND"),
  Rule("i........wl", 12, Long, "IDENTIFY_WLIST"), Rule("i........wm", 12, Long, "IDENTIFY_WMASK"),
  Rule("i........bl", 12, Long, "IDENTIFY_BLIST"), Rule("i........bm", 12, Long, "IDENTIFY_BMASK"),
  Rule("li", 2, Long, "LIMIT_SIZE"),
  Rule("l......n", 9, Long, "LOGGER_NAME"), Rule("l......d", 9, Long, "LOGGER_DESC"),
  Rule("pr", 2, Long, "PRIORITY"), Rule("pa", 2, Long, "PATH"),
  Rule("r...b", 7, Long, "ROLLBACK"), Rule("r...d", 7, Long, "ROLLDAILY"),
  Rule("r...h", 7, Long, "ROLLHOURLY"),
  Rule("o", 2, Long, "OUT_TYPE"),
  Rule("sy", 2, Long, "SYNC"), Rule("st", 2, Long, "STUFF_UP"), Rule("s", 2, Long, "SHM_KEY"),
  Rule("u", 2, Long, "UDP_ADDR"), Rule("v", 2, Long, "VARIABLE") >>

Matches(word, rule) ==
  /\ Len(word) \in rule.min .. rule.max
  /\ Len(rule.pattern) <= Len(word)
  /\ \A i \in 1 .. Len(rule.pattern) :
       SubSeq(rule.pattern, i, i) \in {".", SubSeq(word, i, i)}

ParseReserve(word) ==
  LET fits == {i \in DOMAIN Rules : Matches(word, Rules[i])}
  IN  IF fits = {} THEN "NULL" ELSE Rules[CHOOSE i \in fits : \A j \in fits : i <= j].key

\* The same as a table.
KeyOf == [w \in Words \cup {""} |-> ParseReserve(w)]

\* What the manual (README.md, Yaml Manual) calls the keys, and the level each
\* is an option of.
FilterKeys == [priority |-> "PRIORITY",
               category |-> "CATEGORY", category_extend |-> "CATEGORY_EXTEND",
               category_wlist |-> "CATEGORY_WLIST", category_blist |-> "CATEGORY_BLIST",
               category_wmask |-> "CATEGORY_WMASK", category_bmask |-> "CATEGORY_BMASK",
               identify |-> "IDENTIFY", identify_extend |-> "IDENTIFY_EXTEND",
               identify_wlist |-> "IDENTIFY_WLIST", identify_blist |-> "IDENTIFY_BLIST",
               identify_wmask |-> "IDENTIFY_WMASK", identify_bmask |-> "IDENTIFY_BMASK"]
DeviceKeys == [disable |-> "DISABLE", in_type |-> "IN_TYPE", out_type |-> "OUT_TYPE",
               udp_addr |-> "UDP_ADDR", path |-> "PATH", file |-> "FILE",
               rollback |-> "ROLLBACK", limit_size |-> "LIMIT_SIZE",
               rolldaily |-> "ROLLDAILY", rollhourly |-> "ROLLHOURLY",
               stuff_up |-> "STUFF_UP"]
LoggerKeys == [hot_update |-> "HOT_UPDATE", shm_key |-> "SHM_KEY",
               logger_name |-> "LOGGER_NAME", logger_desc |-> "LOGGER_DESC",
               define |-> "DEFINE", var |-> "VARIABLE"]
HeaderKeys == [channel |-> "CHANNEL", device |-> "DEVICE", sync |-> "SYNC"]

\* ParseReserve takes the manual's words for what the manual says, and no other
\* word of the text for a key: true of a text that misspells no key in a way
\* nobody looks at.
KeysTold ==
  \A w \in Words \cup {""} :
    LET tables == {LoggerKeys, FilterKeys, DeviceKeys, HeaderKeys} IN
    /\ \A t \in tables : w \in DOMAIN t => KeyOf[w] = t[w]
    /\ (\A t \in tables : w \notin DOMAIN t) => KeyOf[w] = "NULL"

-----------------------------------------------------------------------------
(* Values, reduced to what the code looks at: mostly the first character.  *)

\* What PredefinedMacro and PredefinedVar may object to.
PredefinedErrors ==
  [key \in {"DEFINE", "VARIABLE"} |->
     {"PEC_DEFINED_TARGET_TOO_LONG"} \cup
     IF key = "DEFINE" THEN {"PEC_NOT_CLOSURE"}
                       ELSE {"PEC_ILLEGAL_VAR_VALUE", "PEC_ILLEGAL_VAR_NAME"}]

\* The values worth telling apart for a key; "itself" is a definition whose value is
\* what it replaces (the name, or $ and the name of a variable).
Values(key) ==
  CASE key = "CHANNEL"  -> [id : 0 .. MAX_CHANNEL_SIZE]
    [] key = "DEVICE"   -> [id : 0 .. MAX_DEVICE_SIZE]
    [] key = "SYNC"     -> [text : {"sync", "async"}]
    [] key = "DISABLE"  -> [text : {"true", "false"}]
    [] key = "IN_TYPE"  -> [text : {"udp", "null"}]
    [] key = "OUT_TYPE" -> [text : {"file", "udp", "virtual", "null"}]
    [] key = "UDP_ADDR" -> [host : {"ip", "zero", "name", "none"}, port : BOOLEAN]
    [] key \in DOMAIN PredefinedErrors ->
         [text : {"ok", "itself"} \cup PredefinedErrors[key]]
    [] OTHER -> [text : {"any"}]

ParseChannelType(v) == IF v.text = "sync" THEN "CHANNEL_SYNC" ELSE "CHANNEL_ASYNC"
ParseBool(v)    == v.text # "false"
ParseInType(v)  == IF v.text = "udp" THEN "udp" ELSE "null"
ParseOutType(v) == IF v.text \in {"file", "udp", "virtual"} THEN v.text ELSE "null"

\* Whether the address and the port come out other than zero.  The port counts
\* only behind a host that was understood; a name is looked up only if asked
\* for, and the look-up may fail.
ParseAddres(v, parse_dn) ==
  {[ip |-> v.host \in {"ip", "name"} /\ found, port |-> found] :
     found \in IF v.host = "none" \/ ~v.port \/ (v.host = "name" /\ ~parse_dn) THEN {FALSE}
               ELSE IF v.host = "name" THEN BOOLEAN ELSE {TRUE}}

-----------------------------------------------------------------------------
Blank == [blank |-> 0, word |-> "", val |-> [text |-> "any"]]
Lines == {Blank} \cup
         UNION {[blank : Indents, word : {w}, val : Values(KeyOf[w])] : w \in Words}

NewDevice == [out |-> "null", in |-> "null", able |-> FALSE, ip |-> FALSE, port |-> FALSE]
Device    == devices[Len(devices)]

\* The next line and whether the text ends with it: the one handed back, or one
\* the text goes on with, or, for a text whose end_ lies behind its end, nothing.
Candidates ==
  IF held # Blank THEN {[line |-> held, end |-> last]}
  ELSE IF last THEN {[line |-> Blank, end |-> TRUE]}
  ELSE [line : Lines, end : {TRUE} \cup (IF lines + 1 < MaxLines THEN {FALSE} ELSE {})]

Fresh == held = Blank /\ ~last

\* ls.current_ < ls.end_ once the line is read.  Lex never passes a zero.  ParseLogger
\* sets end_ to the length of the whole text behind the byte order mark, three
\* characters past the terminating one; a zero inside the text lies before end_, too.
More(c) == PastZero \/ ~c.end

\* The headers a line lies under by its indentation.
Under(l) == {h \in open : h.blank < l.blank}
Owner(l) ==
  IF Under(l) = {} THEN "logger"
  ELSE (CHOOSE h \in Under(l) : \A g \in Under(l) : g.blank <= h.blank).kind

\* The manual's tables for each level.
Manual == [logger  |-> {LoggerKeys, [channel |-> "CHANNEL"]},
           channel |-> {FilterKeys, [sync |-> "SYNC", device |-> "DEVICE"]},
           device  |-> {FilterKeys, DeviceKeys}]

\* The function that is running takes the line for what the manual says of it.
Due(l, key) ==
  LET told == {t \in Manual[level] : l.word \in DOMAIN t} IN
  /\ level = Owner(l)
  /\ key \in IF told = {} THEN {"undefined"} ELSE {t[l.word] : t \in told}

\* The line is done with: how the loop goes on, or ends with an error.  The
\* empty lines behind the end of a text that never ends are not counted.
Used(c, error, size, undefined) ==
  LET l == c.line  key == IF undefined THEN "undefined" ELSE KeyOf[l.word] IN
  /\ held' = Blank /\ last' = c.end
  /\ lines' = IF Fresh THEN lines + 1 ELSE lines
  /\ line_no' = IF Fresh \/ held # Blank THEN line_no + 1 ELSE line_no
  /\ result' = IF error # "" THEN error
               ELSE IF More(c) THEN "parsing"
               ELSE IF size = 0 /\ l # Blank THEN "E_INVALID_CHANNEL_SIZE" ELSE "PEC_NONE"
  /\ open' = IF l = Blank THEN open
             ELSE IF key \in {"CHANNEL", "DEVICE"}
             THEN Under(l) \cup {[kind |-> IF key = "CHANNEL" THEN "channel" ELSE "device",
                                  blank |-> l.blank]}
             ELSE Under(l)
  /\ astray' = (astray \/ (l # Blank /\ ~Due(l, key)))

\* A "logic error": the position and line_no_ are set back to the line.
Refused(c, error) ==
  /\ held' = c.line /\ last' = c.end
  /\ lines' = IF Fresh THEN lines + 1 ELSE lines
  /\ result' = error
  /\ UNCHANGED <<line_no, open, astray>>

\* The line belongs to the caller: hand it back.
HandBack(c, to) ==
  /\ held' = c.line /\ last' = c.end
  /\ lines' = IF Fresh THEN lines + 1 ELSE lines
  /\ level' = to
  /\ UNCHANGED <<line_no, result, open, astray, channel_size, indents>>

\* Mutant: the next device's number.
ReturnedNext(d) ==
  virtual_device_id' = IF d.out = "virtual" THEN Len(devices) % MAX_DEVICE_SIZE ELSE virtual_device_id

\* What ParseChannel does when ParseDevice returns, with or without an error.
Returned(d) ==
  virtual_device_id' = IF d.out = "virtual" THEN Len(devices) - 1 ELSE virtual_device_id

\* The text or an error ends the loop: when it is ParseDevice's, ParseChannel still
\* looks at the device.
Ends(d) ==
  IF level = "device" /\ result' # "parsing" THEN Returned(d) ELSE UNCHANGED virtual_device_id

\* Lex refuses a key that is not reserved; line_no_ is not advanced.
LexError(c) ==
  /\ c.line # Blank /\ KeyOf[c.line.word] = "NULL"
  /\ Refused(c, "PEC_ILLEGAL_KEY")
  /\ Ends(Device)
  /\ UNCHANGED <<level, indents, channel_size, devices, channel_type>>

Empty(c) ==
  /\ c.line = Blank
  /\ Used(c, "", channel_size, FALSE)
  /\ Ends(Device)
  /\ UNCHANGED <<level, indents, channel_size, devices, channel_type>>

-----------------------------------------------------------------------------
(* ParseLogger.                                                            *)

LoggerOption(c) ==
  LET key == KeyOf[c.line.word] IN
  /\ key \in {"HOT_UPDATE", "LOGGER_NAME", "LOGGER_DESC", "SHM_KEY"}
  /\ Used(c, "", channel_size, FALSE)
  /\ UNCHANGED <<level, indents, channel_size, channel>>

\* PredefinedInplace looks again where it wrote the value, so that a value that is what
\* it replaces, if that occurs further on, is replaced by itself for ever.
Replacing(c) ==
  /\ c.line.val.text = "itself"
  /\ result' = "replacing"
  /\ UNCHANGED <<held, last, line_no, lines, open, astray>>

\* The text that follows is any text, whatever was replaced in it.
LoggerDefine(c) ==
  LET key == KeyOf[c.line.word]  text == c.line.val.text IN
  /\ key \in DOMAIN PredefinedErrors
  /\ \/ text \in PredefinedErrors[key] /\ Refused(c, text)
     \/ text \notin PredefinedErrors[key] /\ Used(c, "", channel_size, FALSE)
     \/ Replacing(c)
  /\ UNCHANGED <<level, indents, channel_size, channel>>

LoggerChannel(c) ==
  /\ KeyOf[c.line.word] = "CHANNEL"
  /\ LET error == IF channel_size >= MAX_CHANNEL_SIZE THEN "E_INVALID_CHANNEL_SIZE"
                  ELSE IF c.line.val.id # channel_size THEN "E_CHANNEL_NOT_SEQUENCE" ELSE ""
     IN  IF error # ""
         THEN Refused(c, error) /\ UNCHANGED <<level, channel_indent, channel_size, channel>>
         ELSE /\ channel_size' = channel_size + 1
              /\ devices' = <<>> /\ channel_type' = "CHANNEL_ASYNC" /\ virtual_device_id' = 0
              /\ level' = "channel" /\ channel_indent' = c.line.blank
              /\ Used(c, "", channel_size + 1, FALSE)
  /\ UNCHANGED device_indent

LoggerUndefined(c) ==
  /\ c.line # Blank
  /\ KeyOf[c.line.word] \notin {"NULL", "CHANNEL", "HOT_UPDATE", "DEFINE", "VARIABLE",
                                       "LOGGER_NAME", "LOGGER_DESC", "SHM_KEY"}
  /\ Used(c, "PEC_UNDEFINED_GLOBAL_KEY", channel_size, TRUE)
  /\ UNCHANGED <<level, indents, channel_size, channel>>

ParseLogger(c) ==
  /\ level = "logger"
  /\ LoggerOption(c) \/ LoggerDefine(c) \/ LoggerChannel(c) \/ LoggerUndefined(c)

-----------------------------------------------------------------------------
(* ParseChannel.                                                           *)

FilterRange == {FilterKeys[w] : w \in DOMAIN FilterKeys}
DeviceRange == {DeviceKeys[w] : w \in DOMAIN DeviceKeys}

\* Mutant: line_no_ is not set back with the position.
ChannelDedentCounted(c) ==
  /\ c.line.blank <= channel_indent
  /\ held' = c.line /\ last' = c.end /\ level' = "logger"
  /\ lines' = IF Fresh THEN lines + 1 ELSE lines
  /\ line_no' = line_no + 1
  /\ UNCHANGED <<result, open, astray, channel_size, indents, channel>>

ChannelDedent(c) ==
  /\ c.line.blank <= channel_indent
  /\ HandBack(c, "logger")
  /\ UNCHANGED channel

ChannelOption(c) ==
  LET key == KeyOf[c.line.word] IN
  /\ c.line.blank > channel_indent
  /\ key \in {"SYNC"} \cup FilterRange
  /\ channel_type' = IF key = "SYNC" THEN ParseChannelType(c.line.val) ELSE channel_type
  /\ Used(c, "", channel_size, FALSE)
  /\ UNCHANGED <<level, indents, channel_size, devices, virtual_device_id>>

ChannelDevice(c) ==
  /\ c.line.blank > channel_indent
  /\ KeyOf[c.line.word] = "DEVICE"
  /\ LET error == IF Len(devices) >= MAX_DEVICE_SIZE THEN "E_OUT_OF_DEVICE_SIZE"
                  ELSE IF c.line.val.id # Len(devices) THEN "E_DEVICE_NOT_SEQUENCE" ELSE ""
     IN  IF error # ""
         THEN Refused(c, error) /\ UNCHANGED <<level, device_indent, devices>>
         ELSE /\ devices' = Append(devices, NewDevice)
              /\ level' = "device" /\ device_indent' = c.line.blank
              /\ Used(c, "", channel_size, FALSE)
  /\ UNCHANGED <<channel_indent, channel_size, channel_type, virtual_device_id>>

ChannelUndefined(c) ==
  /\ c.line # Blank /\ c.line.blank > channel_indent
  /\ KeyOf[c.line.word] \notin {"NULL", "SYNC", "DEVICE"} \cup FilterRange
  /\ Used(c, "PEC_UNDEFINED_CHANNEL_KEY", channel_size, TRUE)
  /\ UNCHANGED <<level, indents, channel_size, channel>>

ParseChannel(c) ==
  /\ level = "channel" /\ c.line # Blank
  /\ ChannelDedent(c) \/ ChannelOption(c) \/ ChannelDevice(c) \/ ChannelUndefined(c)

-----------------------------------------------------------------------------
(* ParseDevice.                                                            *)

\* Mutant: the position is set back but the function goes on.
DeviceDedentStay(c) ==
  /\ c.line.blank <= device_indent
  /\ HandBack(c, "device")
  /\ UNCHANGED channel

\* Mutant: ParseChannel returns with ParseDevice.
DeviceDedentAway(c) ==
  /\ c.line.blank <= device_indent
  /\ HandBack(c, "logger")
  /\ Returned(Device)
  /\ UNCHANGED <<devices, channel_type>>

DeviceDedent(c) ==
  /\ c.line.blank <= device_indent
  /\ HandBack(c, "channel")
  /\ Returned(Device)
  /\ UNCHANGED <<devices, channel_type>>

\* A device after one of its options.
Set(d, key, v) ==
  CASE key = "OUT_TYPE" -> {[d EXCEPT !.out = ParseOutType(v)]}
    [] key = "IN_TYPE"  -> {[d EXCEPT !.in = ParseInType(v)]}
    [] key = "DISABLE"  -> {[d EXCEPT !.able = ~ParseBool(v)]}
    [] key = "UDP_ADDR" -> {[d EXCEPT !.ip = a.ip, !.port = a.port] :
                              a \in ParseAddres(v, d.able)}
    [] OTHER -> {d}

DeviceError(d, key) ==
  IF key = "OUT_TYPE" /\ d.out = "null" THEN "PEC_UNDEFINED_DEVICE_TYPE"
  ELSE IF key # "UDP_ADDR" \/ ~d.able THEN ""
  ELSE IF d.in = "null" /\ ~d.ip THEN "PEC_ILLEGAL_ADDR_IP"
  ELSE IF ~d.port THEN "PEC_ILLEGAL_ADDR_PORT" ELSE ""

DeviceOption(c) ==
  LET key == KeyOf[c.line.word] IN
  /\ c.line.blank > device_indent
  /\ key \in FilterRange \cup DeviceRange
  /\ \E d \in Set(Device, key, c.line.val) :
       /\ devices' = [devices EXCEPT ![Len(devices)] = d]
       /\ IF DeviceError(d, key) # "" THEN Refused(c, DeviceError(d, key))
                                      ELSE Used(c, "", channel_size, FALSE)
       /\ Ends(d)
  /\ UNCHANGED <<level, indents, channel_size, channel_type>>

DeviceUndefined(c) ==
  /\ c.line.blank > device_indent
  /\ KeyOf[c.line.word] \notin {"NULL"} \cup FilterRange \cup DeviceRange
  /\ Used(c, "PEC_UNDEFINED_DEVICE_KEY", channel_size, TRUE)
  /\ Returned(Device)
  /\ UNCHANGED <<level, indents, channel_size, devices, channel_type>>

ParseDevice(c) ==
  /\ level = "device" /\ c.line # Blank
  /\ DeviceDedent(c) \/ DeviceOption(c) \/ DeviceUndefined(c)

-----------------------------------------------------------------------------
\* InitFromYMAL's own test of what ParseLogger returned PEC_NONE for.
InitFromYMAL ==
  /\ result = "PEC_NONE"
  /\ result' = IF channel_size = 0 THEN "E_INVALID_CHANNEL_SIZE" ELSE "started"
  /\ UNCHANGED <<held, last, level, indents, line_no, channel_size, channel, lines, open, astray>>

Init ==
  /\ held = Blank /\ last \in BOOLEAN /\ level = "logger"
  /\ channel_indent = 0 /\ device_indent = 0 /\ line_no = 1
  /\ channel_size = 0 /\ devices = <<>> /\ channel_type = "CHANNEL_ASYNC"
  /\ virtual_device_id = 0 /\ result = "parsing"
  /\ lines = 0 /\ open = {} /\ astray = FALSE

Parse == /\ result = "parsing"
         /\ \E c \in Candidates : LexError(c) \/ Empty(c) \/ ParseLogger(c)
                                  \/ ParseChannel(c) \/ ParseDevice(c)

Next == Parse \/ InitFromYMAL

Spec == Init /\ [][Next]_vars

\* The parser is one thread's loop: it takes its next step.
FairSpec == Spec /\ WF_vars(Next)

-----------------------------------------------------------------------------
(* Properties.                                                             *)

Errors == {"PEC_ILLEGAL_KEY", "PEC_NOT_CLOSURE", "PEC_DEFINED_TARGET_TOO_LONG",
           "PEC_ILLEGAL_VAR_VALUE", "PEC_ILLEGAL_VAR_NAME", "E_CHANNEL_NOT_SEQUENCE",
           "E_OUT_OF_DEVICE_SIZE", "E_DEVICE_NOT_SEQUENCE", "PEC_UNDEFINED_DEVICE_TYPE",
           "PEC_ILLEGAL_ADDR_IP", "PEC_ILLEGAL_ADDR_PORT", "E_INVALID_CHANNEL_SIZE"}
Undefined == {"PEC_UNDEFINED_GLOBAL_KEY", "PEC_UNDEFINED_CHANNEL_KEY",
              "PEC_UNDEFINED_DEVICE_KEY"}

\* Each line goes where its indentation puts it, however many levels end before
\* it, and each key of the manual is taken for what the manual says; a key the
\* manual does not give to that level is refused.
KeysReachTheirOwner == ~astray

\* The line number reported with an error is the number of the line in error, as
\* tests/test_line_no.cpp expects, except that for an undefined key it is the
\* number of the next one.
ErrorLine ==
  /\ result \in Errors /\ held # Blank => line_no = lines
  /\ result \in Undefined => line_no = lines + 1

\* The arrays are never overrun, and once a device is parsed, or with it the text,
\* virtual_device_id_ names the last virtual device of the channel, or 0: a channel
\* without a virtual device cannot be told from one whose first device is.
VirtualDevice ==
  /\ channel_size <= MAX_CHANNEL_SIZE /\ Len(devices) <= MAX_DEVICE_SIZE
  /\ level # "device" \/ result # "parsing" =>
       /\ virtual_device_id # 0 =>
            /\ virtual_device_id + 1 \in DOMAIN devices
            /\ devices[virtual_device_id + 1].out = "virtual"
       /\ \A i \in DOMAIN devices : devices[i].out = "virtual" => i <= virtual_device_id + 1

\* The three functions hand no line round for ever: a text that has no zero in it and
\* does not begin with a byte order mark is read to its end or to an error, or to a
\* definition that PredefinedInplace does not come back from.
Terminates == <>(result # "parsing")
=============================================================================
