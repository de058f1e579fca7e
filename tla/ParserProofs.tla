---------------------------- MODULE ParserProofs ----------------------------
(***************************************************************************)
(* Proofs about Parser, for any words and indentations, texts of any       *)
(* number of lines, any sizes of the arrays, with or without a zero in     *)
(* the way of end_.  What ParseReserve makes of a word matters to          *)
(* KeysReachOwner only.                                                    *)
(***************************************************************************)
EXTENDS Parser, SequenceTheorems, TLAPS

DeviceType == [out : {"null", "file", "udp", "virtual"}, in : {"null", "udp"},
               able : BOOLEAN, ip : BOOLEAN, port : BOOLEAN]

TypeOK ==
  /\ level \in {"logger", "channel", "device"}
  /\ line_no \in Nat /\ lines \in Nat /\ channel_size \in Nat
  /\ devices \in Seq(DeviceType)
  /\ virtual_device_id \in Nat
  /\ last \in BOOLEAN

\* ParseDevice has the channel's last device at hand.
InDevice == level = "device" => devices # <<>>

Sizes == channel_size <= MAX_CHANNEL_SIZE /\ Len(devices) <= MAX_DEVICE_SIZE

\* v names the last virtual device among the first n, or 0.
Names(v, n) ==
  /\ v # 0 => v + 1 \in 1 .. n /\ devices[v + 1].out = "virtual"
  /\ \A i \in 1 .. n : devices[i].out = "virtual" => i <= v + 1

\* The device being parsed is not looked at before ParseDevice returns.
LookedAt == IF level = "device" /\ result = "parsing" THEN Len(devices) - 1 ELSE Len(devices)
VirtualNamed == Names(virtual_device_id, LookedAt)

\* line_no_ is ahead of the lines read by one, unless the last of them is handed back.
Numbered ==
  /\ result \in {"parsing"} \cup Undefined =>
       line_no = IF held = Blank THEN lines + 1 ELSE lines
  /\ result \in Undefined \cup {"PEC_NONE"} => held = Blank
  /\ result \in Errors /\ held # Blank => line_no = lines

Inv == TypeOK /\ InDevice /\ Sizes /\ VirtualNamed /\ Numbered

LEMMA MaxTypes == MAX_CHANNEL_SIZE \in Nat \ {0} /\ MAX_DEVICE_SIZE \in Nat \ {0}
BY ParserAssumption

-----------------------------------------------------------------------------
(* A line is handed over by the caller, new, or not there.                 *)

LEMMA CandidateLine ==
  ASSUME NEW c \in Candidates
  PROVE  /\ held # Blank => c.line = held
         /\ held = Blank /\ last => c.line = Blank
<1>1. CASE held # Blank
  <2>1. c \in {[line |-> held, end |-> last]}  BY <1>1 DEF Candidates
  <2> QED  BY <1>1, <2>1
<1>2. CASE held = Blank /\ last
  <2>1. c \in {[line |-> Blank, end |-> TRUE]}  BY <1>2 DEF Candidates
  <2> QED  BY <1>2, <2>1
<1> QED  BY <1>1, <1>2

LEMMA CandidateEnd ==
  ASSUME TypeOK, NEW c \in Candidates
  PROVE  c.end \in BOOLEAN
<1>1. CASE held # Blank
  <2>1. c \in {[line |-> held, end |-> last]}  BY <1>1 DEF Candidates
  <2> QED  BY <2>1 DEF TypeOK
<1>2. CASE held = Blank /\ last
  <2>1. c = [line |-> Blank, end |-> TRUE]  BY <1>2 DEF Candidates
  <2>2. c.end = TRUE  BY <2>1
  <2> QED  BY <2>2
<1>3. CASE held = Blank /\ ~last
  <2>1. c \in [line : Lines, end : {TRUE} \cup (IF lines + 1 < MaxLines THEN {FALSE} ELSE {})]
    BY <1>3 DEF Candidates
  <2> QED  BY <2>1
<1> QED  BY <1>1, <1>2, <1>3 DEF TypeOK

\* Used counts the line and goes beyond it.
LEMMA UsedNumbers ==
  ASSUME TypeOK, Numbered, result = "parsing", NEW c \in Candidates,
         NEW e, NEW n, NEW u, Used(c, e, n, u)
  PROVE  Numbered'
<1>1. line_no = IF held = Blank THEN lines + 1 ELSE lines  BY DEF Numbered
<1>2. held' = Blank /\ lines' = IF Fresh THEN lines + 1 ELSE lines  BY DEF Used
<1>3. line_no' = IF Fresh \/ held # Blank THEN line_no + 1 ELSE line_no  BY DEF Used
<1>4. line_no' = lines' + 1  BY <1>1, <1>2, <1>3 DEF TypeOK, Fresh
<1> QED  BY <1>2, <1>4 DEF Numbered

\* Refused sets position and number back, if there is a line to go back to.
LEMMA RefusedNumbers ==
  ASSUME TypeOK, Numbered, result = "parsing", NEW c \in Candidates,
         NEW e \in Errors, Refused(c, e)
  PROVE  Numbered'
<1>1. line_no = IF held = Blank THEN lines + 1 ELSE lines  BY DEF Numbered
<1>2. /\ held' = c.line /\ lines' = IF Fresh THEN lines + 1 ELSE lines
      /\ result' = e /\ line_no' = line_no
  BY DEF Refused
<1>3. c.line # Blank => line_no' = lines'
  BY <1>1, <1>2, CandidateLine DEF TypeOK, Fresh
<1>4. result' \notin {"parsing", "PEC_NONE"} \cup Undefined  BY <1>2 DEF Errors, Undefined
<1> QED  BY <1>2, <1>3, <1>4 DEF Numbered

LEMMA HandBackNumbers ==
  ASSUME TypeOK, Numbered, result = "parsing", NEW c \in Candidates, c.line # Blank,
         NEW to, HandBack(c, to)
  PROVE  Numbered'
<1>1. line_no = IF held = Blank THEN lines + 1 ELSE lines  BY DEF Numbered
<1>2. /\ held' = c.line /\ lines' = IF Fresh THEN lines + 1 ELSE lines
      /\ result' = result /\ line_no' = line_no
  BY DEF HandBack
<1>3. line_no' = lines'  BY <1>1, <1>2, CandidateLine DEF TypeOK, Fresh
<1> QED  BY <1>2, <1>3 DEF Numbered, Errors, Undefined

\* What the three leave of the numbers' types.
LEMMA NumberTypes ==
  ASSUME TypeOK, NEW c \in Candidates, NEW e, NEW n, NEW u, NEW to,
         Used(c, e, n, u) \/ Refused(c, e) \/ HandBack(c, to)
  PROVE  line_no' \in Nat /\ lines' \in Nat /\ last' \in BOOLEAN
<1>1. c.end \in BOOLEAN  BY CandidateEnd
<1>2. line_no' \in {line_no, line_no + 1} /\ lines' \in {lines, lines + 1} /\ last' = c.end
  BY DEF Used, Refused, HandBack
<1> QED  BY <1>1, <1>2 DEF TypeOK

-----------------------------------------------------------------------------
(* The devices of the channel.                                             *)

\* An option leaves a device a device.
LEMMA SetIsDevice ==
  ASSUME NEW d \in DeviceType, NEW key, NEW v, NEW e \in Set(d, key, v)
  PROVE  e \in DeviceType
<1>1. CASE key = "OUT_TYPE"
  BY <1>1 DEF Set, ParseOutType, DeviceType
<1>2. CASE key = "IN_TYPE"
  BY <1>2 DEF Set, ParseInType, DeviceType
<1>3. CASE key = "DISABLE"
  BY <1>3 DEF Set, ParseBool, DeviceType
<1>4. CASE key = "UDP_ADDR"
  <2>1. PICK a \in ParseAddres(v, d.able) : e = [d EXCEPT !.ip = a.ip, !.port = a.port]
    BY <1>4 DEF Set
  <2>2. PICK found \in BOOLEAN : a = [ip |-> v.host \in {"ip", "name"} /\ found, port |-> found]
    <3>1. ParseAddres(v, d.able) \subseteq
            {[ip |-> v.host \in {"ip", "name"} /\ found, port |-> found] : found \in BOOLEAN}
      BY DEF ParseAddres
    <3> QED  BY <3>1
  <2> QED  BY <2>1, <2>2 DEF DeviceType
<1>5. CASE key \notin {"OUT_TYPE", "IN_TYPE", "DISABLE", "UDP_ADDR"}
  BY <1>5 DEF Set
<1> QED  BY <1>1, <1>2, <1>3, <1>4, <1>5

\* ParseDevice goes on, or ParseChannel looks at the device.
LEMMA EndsNames ==
  ASSUME TypeOK, InDevice, VirtualNamed, result = "parsing",
         devices' \in Seq(DeviceType), Len(devices') = Len(devices), level' = level,
         \A i \in 1 .. Len(devices) - 1 : devices'[i] = devices[i],
         level = "device" \/ devices' = devices,
         NEW d, level = "device" => d = devices'[Len(devices)],
         Ends(d)
  PROVE  VirtualNamed' /\ virtual_device_id' \in Nat
<1>1. CASE level = "device" /\ result' # "parsing"
  <2>1. Len(devices) \in Nat \ {0}  BY <1>1 DEF TypeOK, InDevice
  <2>2. Names(virtual_device_id, Len(devices) - 1)  BY <1>1 DEF VirtualNamed, LookedAt
  <2>3. virtual_device_id' = IF devices'[Len(devices)].out = "virtual" THEN Len(devices) - 1
                             ELSE virtual_device_id
    BY <1>1 DEF Ends, Returned
  <2> QED  BY <1>1, <2>1, <2>2, <2>3 DEF TypeOK, VirtualNamed, LookedAt, Names
<1>2. CASE ~(level = "device" /\ result' # "parsing")
  <2>1. virtual_device_id' = virtual_device_id  BY <1>2 DEF Ends
  <2>2. LookedAt' = LookedAt  BY <1>2 DEF LookedAt
  <2> QED  BY <1>2, <2>1, <2>2 DEF TypeOK, VirtualNamed, LookedAt, Names
<1> QED  BY <1>1, <1>2

-----------------------------------------------------------------------------
(* Every step of the parser keeps the invariant.                           *)

\* What a round of a loop does to the array of channels and of devices.
LEMMA SameArrays ==
  ASSUME Inv, result = "parsing", UNCHANGED <<level, channel_size, devices, virtual_device_id>>,
         level # "device"
  PROVE  InDevice' /\ Sizes' /\ VirtualNamed'
BY DEF Inv, InDevice, Sizes, VirtualNamed, LookedAt, Names

LEMMA EndsArrays ==
  ASSUME Inv, result = "parsing", UNCHANGED <<level, channel_size, devices>>, Ends(Device)
  PROVE  InDevice' /\ Sizes' /\ VirtualNamed' /\ virtual_device_id' \in Nat
<1>1. InDevice' /\ Sizes'  BY DEF Inv, InDevice, Sizes
<1>2. Device = devices'[Len(devices)]  BY DEF Device
<1>3. devices' \in Seq(DeviceType) /\ devices' = devices /\ level' = level  BY DEF Inv, TypeOK
<1>4. VirtualNamed' /\ virtual_device_id' \in Nat  BY <1>2, <1>3, EndsNames DEF Inv
<1> QED  BY <1>1, <1>4

LEMMA LexErrorStep ==
  ASSUME Inv, result = "parsing", NEW c \in Candidates, LexError(c)
  PROVE  Inv'
<1>1. /\ Refused(c, "PEC_ILLEGAL_KEY") /\ Ends(Device)
      /\ UNCHANGED <<level, channel_size, devices>>
  BY DEF LexError
<1>2. Numbered'  BY <1>1, RefusedNumbers DEF Inv, Errors
<1>3. line_no' \in Nat /\ lines' \in Nat /\ last' \in BOOLEAN  BY <1>1, NumberTypes DEF Inv
<1>4. InDevice' /\ Sizes' /\ VirtualNamed' /\ virtual_device_id' \in Nat
  BY <1>1, EndsArrays
<1>5. TypeOK'  BY <1>1, <1>3, <1>4 DEF Inv, TypeOK
<1> QED  BY <1>2, <1>4, <1>5 DEF Inv

LEMMA EmptyStep ==
  ASSUME Inv, result = "parsing", NEW c \in Candidates, Empty(c)
  PROVE  Inv'
<1>1. /\ Used(c, "", channel_size, FALSE) /\ Ends(Device)
      /\ UNCHANGED <<level, channel_size, devices>>
  BY DEF Empty
<1>2. Numbered'  BY <1>1, UsedNumbers DEF Inv
<1>3. line_no' \in Nat /\ lines' \in Nat /\ last' \in BOOLEAN  BY <1>1, NumberTypes DEF Inv
<1>4. InDevice' /\ Sizes' /\ VirtualNamed' /\ virtual_device_id' \in Nat
  BY <1>1, EndsArrays
<1>5. TypeOK'  BY <1>1, <1>3, <1>4 DEF Inv, TypeOK
<1> QED  BY <1>2, <1>4, <1>5 DEF Inv

\* A new channel has no device; the array of channels has room for it.
LEMMA ParseLoggerStep ==
  ASSUME Inv, result = "parsing", NEW c \in Candidates, ParseLogger(c)
  PROVE  Inv'
<1>1. level = "logger"  BY DEF ParseLogger
<1>2. CASE LoggerOption(c)
  <2>1. UNCHANGED <<level, channel_size, devices, virtual_device_id>>
    BY <1>2 DEF LoggerOption, channel
  <2>2. Used(c, "", channel_size, FALSE)  BY <1>2 DEF LoggerOption
  <2>3. Numbered'  BY <2>2, UsedNumbers DEF Inv
  <2>4. line_no' \in Nat /\ lines' \in Nat /\ last' \in BOOLEAN  BY <2>2, NumberTypes DEF Inv
  <2>5. InDevice' /\ Sizes' /\ VirtualNamed'  BY <1>1, <2>1, SameArrays
  <2>6. TypeOK'  BY <2>1, <2>4 DEF Inv, TypeOK
  <2> QED  BY <2>3, <2>5, <2>6 DEF Inv
<1>5. CASE LoggerDefine(c)
  <2> DEFINE text == c.line.val.text
  <2>1. UNCHANGED <<level, channel_size, devices, virtual_device_id>>
    BY <1>5 DEF LoggerDefine, channel
  <2>2. InDevice' /\ Sizes' /\ VirtualNamed'  BY <1>1, <2>1, SameArrays
  <2>3. CASE Refused(c, text) /\ text \in Errors
    <3> HIDE DEF text
    <3>1. Numbered'  BY <2>3, RefusedNumbers DEF Inv
    <3>2. line_no' \in Nat /\ lines' \in Nat /\ last' \in BOOLEAN
      BY <2>3, NumberTypes DEF Inv
    <3>3. TypeOK'  BY <2>1, <3>2 DEF Inv, TypeOK
    <3> QED  BY <2>2, <3>1, <3>3 DEF Inv
  <2>4. CASE Used(c, "", channel_size, FALSE)
    <3>1. Numbered'  BY <2>4, UsedNumbers DEF Inv
    <3>2. line_no' \in Nat /\ lines' \in Nat /\ last' \in BOOLEAN
      BY <2>4, NumberTypes DEF Inv
    <3>3. TypeOK'  BY <2>1, <3>2 DEF Inv, TypeOK
    <3> QED  BY <2>2, <3>1, <3>3 DEF Inv
  <2>5. CASE Replacing(c)
    <3>1. result' = "replacing" /\ UNCHANGED <<held, last, line_no, lines>>
      BY <2>5 DEF Replacing
    <3>2. Numbered'  BY <3>1 DEF Numbered, Errors, Undefined
    <3>3. TypeOK'  BY <2>1, <3>1 DEF Inv, TypeOK
    <3> QED  BY <2>2, <3>2, <3>3 DEF Inv
  <2>6. \A key \in DOMAIN PredefinedErrors : PredefinedErrors[key] \subseteq Errors
    BY DEF PredefinedErrors, Errors
  <2> QED  BY <1>5, <2>3, <2>4, <2>5, <2>6 DEF LoggerDefine
<1>3. CASE LoggerChannel(c)
  <2> DEFINE error == IF channel_size >= MAX_CHANNEL_SIZE THEN "E_INVALID_CHANNEL_SIZE"
                      ELSE IF c.line.val.id # channel_size THEN "E_CHANNEL_NOT_SEQUENCE" ELSE ""
  <2>1. CASE error # ""
    <3>1. /\ Refused(c, error) /\ error \in Errors
          /\ UNCHANGED <<level, channel_size, devices, virtual_device_id>>
      BY <1>3, <2>1 DEF LoggerChannel, Errors, channel
    <3>2. Numbered'
      <4> HIDE DEF error
      <4> QED  BY <3>1, RefusedNumbers DEF Inv
    <3>3. line_no' \in Nat /\ lines' \in Nat /\ last' \in BOOLEAN
      <4> HIDE DEF error
      <4> QED  BY <3>1, NumberTypes DEF Inv
    <3>4. InDevice' /\ Sizes' /\ VirtualNamed'  BY <1>1, <3>1, SameArrays
    <3>5. TypeOK'  BY <3>1, <3>3 DEF Inv, TypeOK
    <3> QED  BY <3>2, <3>4, <3>5 DEF Inv
  <2>2. CASE error = ""
    <3>1. Used(c, "", channel_size + 1, FALSE)
      BY <1>3, <2>2 DEF LoggerChannel
    <3>2. /\ channel_size' = channel_size + 1 /\ level' = "channel"
           /\ devices' = <<>> /\ virtual_device_id' = 0
      BY <1>3, <2>2 DEF LoggerChannel
    <3>3. Numbered'  BY <3>1, UsedNumbers DEF Inv
    <3>4. line_no' \in Nat /\ lines' \in Nat /\ last' \in BOOLEAN  BY <3>1, NumberTypes DEF Inv
    <3>5. channel_size < MAX_CHANNEL_SIZE  BY <2>2, MaxTypes DEF Inv, TypeOK
    <3>6. <<>> \in Seq(DeviceType) /\ Len(<<>>) = 0  OBVIOUS
    <3>7. TypeOK' /\ InDevice'  BY <3>2, <3>4, <3>6 DEF Inv, TypeOK, InDevice
    <3>8. Sizes'  BY <3>2, <3>5, <3>6, MaxTypes DEF Inv, TypeOK, Sizes
    <3>9. LookedAt' = 0  BY <3>2, <3>6 DEF LookedAt
    <3>10. VirtualNamed'  BY <3>2, <3>9 DEF VirtualNamed, Names
    <3> QED  BY <3>3, <3>7, <3>8, <3>10 DEF Inv
  <2> QED  BY <2>1, <2>2
<1>4. CASE LoggerUndefined(c)
  <2>1. /\ Used(c, "PEC_UNDEFINED_GLOBAL_KEY", channel_size, TRUE)
        /\ UNCHANGED <<level, channel_size, devices, virtual_device_id>>
    BY <1>4 DEF LoggerUndefined, channel
  <2>2. Numbered'  BY <2>1, UsedNumbers DEF Inv
  <2>3. line_no' \in Nat /\ lines' \in Nat /\ last' \in BOOLEAN  BY <2>1, NumberTypes DEF Inv
  <2>4. InDevice' /\ Sizes' /\ VirtualNamed'  BY <1>1, <2>1, SameArrays
  <2>5. TypeOK'  BY <2>1, <2>3 DEF Inv, TypeOK
  <2> QED  BY <2>2, <2>4, <2>5 DEF Inv
<1> QED  BY <1>2, <1>3, <1>4, <1>5 DEF ParseLogger

\* A new device is not looked at yet; the array of devices has room for it.
LEMMA ParseChannelStep ==
  ASSUME Inv, result = "parsing", NEW c \in Candidates, ParseChannel(c)
  PROVE  Inv'
<1>1. level = "channel" /\ c.line # Blank  BY DEF ParseChannel
<1>2. CASE ChannelDedent(c)
  <2>1. /\ HandBack(c, "logger") /\ level' = "logger" /\ result' = "parsing"
        /\ UNCHANGED <<channel_size, devices, virtual_device_id>>
    BY <1>2 DEF ChannelDedent, HandBack, channel
  <2>2. Numbered'  BY <1>1, <2>1, HandBackNumbers DEF Inv
  <2>3. line_no' \in Nat /\ lines' \in Nat /\ last' \in BOOLEAN  BY <2>1, NumberTypes DEF Inv
  <2>4. InDevice' /\ Sizes' /\ VirtualNamed'
    BY <1>1, <2>1 DEF Inv, InDevice, Sizes, VirtualNamed, LookedAt, Names
  <2>5. TypeOK'  BY <2>1, <2>3 DEF Inv, TypeOK
  <2> QED  BY <2>2, <2>4, <2>5 DEF Inv
<1>3. CASE ChannelOption(c)
  <2>1. /\ Used(c, "", channel_size, FALSE)
        /\ UNCHANGED <<level, channel_size, devices, virtual_device_id>>
    BY <1>3 DEF ChannelOption
  <2>2. Numbered'  BY <2>1, UsedNumbers DEF Inv
  <2>3. line_no' \in Nat /\ lines' \in Nat /\ last' \in BOOLEAN  BY <2>1, NumberTypes DEF Inv
  <2>4. InDevice' /\ Sizes' /\ VirtualNamed'  BY <1>1, <2>1, SameArrays
  <2>5. TypeOK'  BY <2>1, <2>3 DEF Inv, TypeOK
  <2> QED  BY <2>2, <2>4, <2>5 DEF Inv
<1>4. CASE ChannelDevice(c)
  <2> DEFINE error == IF Len(devices) >= MAX_DEVICE_SIZE THEN "E_OUT_OF_DEVICE_SIZE"
                      ELSE IF c.line.val.id # Len(devices) THEN "E_DEVICE_NOT_SEQUENCE" ELSE ""
  <2>1. CASE error # ""
    <3>1. /\ Refused(c, error) /\ error \in Errors
          /\ UNCHANGED <<level, channel_size, devices, virtual_device_id>>
      BY <1>4, <2>1 DEF ChannelDevice, Errors
    <3>2. Numbered'
      <4> HIDE DEF error
      <4> QED  BY <3>1, RefusedNumbers DEF Inv
    <3>3. line_no' \in Nat /\ lines' \in Nat /\ last' \in BOOLEAN
      <4> HIDE DEF error
      <4> QED  BY <3>1, NumberTypes DEF Inv
    <3>4. InDevice' /\ Sizes' /\ VirtualNamed'  BY <1>1, <3>1, SameArrays
    <3>5. TypeOK'  BY <3>1, <3>3 DEF Inv, TypeOK
    <3> QED  BY <3>2, <3>4, <3>5 DEF Inv
  <2>2. CASE error = ""
    <3>1. Used(c, "", channel_size, FALSE)
      BY <1>4, <2>2 DEF ChannelDevice
    <3>2. /\ devices' = Append(devices, NewDevice) /\ level' = "device"
           /\ UNCHANGED <<channel_size, virtual_device_id>>
      BY <1>4, <2>2 DEF ChannelDevice
    <3>3. Numbered'  BY <3>1, UsedNumbers DEF Inv
    <3>4. line_no' \in Nat /\ lines' \in Nat /\ last' \in BOOLEAN  BY <3>1, NumberTypes DEF Inv
    <3>5. NewDevice \in DeviceType /\ NewDevice.out # "virtual"  BY DEF NewDevice, DeviceType
    <3>6. /\ devices' \in Seq(DeviceType) /\ Len(devices') = Len(devices) + 1
          /\ Len(devices) \in Nat
          /\ \A i \in 1 .. Len(devices) : devices'[i] = devices[i]
          /\ devices'[Len(devices) + 1] = NewDevice
      BY <3>2, <3>5, AppendProperties DEF Inv, TypeOK
    <3>7. Len(devices) < MAX_DEVICE_SIZE  BY <2>2, <3>6, MaxTypes
    <3>8. TypeOK'  BY <3>2, <3>4, <3>6 DEF Inv, TypeOK
    <3>9. Sizes'  BY <3>2, <3>6, <3>7, MaxTypes DEF Inv, Sizes
    <3>10. InDevice'  BY <3>6 DEF InDevice
    <3>11. Names(virtual_device_id, Len(devices))  BY <1>1 DEF Inv, VirtualNamed, LookedAt
    <3>12. LookedAt' = IF result' = "parsing" THEN Len(devices) ELSE Len(devices) + 1
      BY <3>2, <3>6 DEF LookedAt
    <3>13. \A i \in 1 .. Len(devices) + 1 : devices'[i].out = "virtual" =>
             i \in 1 .. Len(devices) /\ devices[i].out = "virtual"
      BY <3>5, <3>6
    <3>14. VirtualNamed'
      BY <3>2, <3>6, <3>11, <3>12, <3>13 DEF VirtualNamed, Names, Inv, TypeOK
    <3> QED  BY <3>3, <3>8, <3>9, <3>10, <3>14 DEF Inv
  <2> QED  BY <2>1, <2>2
<1>5. CASE ChannelUndefined(c)
  <2>1. /\ Used(c, "PEC_UNDEFINED_CHANNEL_KEY", channel_size, TRUE)
        /\ UNCHANGED <<level, channel_size, devices, virtual_device_id>>
    BY <1>5 DEF ChannelUndefined, channel
  <2>2. Numbered'  BY <2>1, UsedNumbers DEF Inv
  <2>3. line_no' \in Nat /\ lines' \in Nat /\ last' \in BOOLEAN  BY <2>1, NumberTypes DEF Inv
  <2>4. InDevice' /\ Sizes' /\ VirtualNamed'  BY <1>1, <2>1, SameArrays
  <2>5. TypeOK'  BY <2>1, <2>3 DEF Inv, TypeOK
  <2> QED  BY <2>2, <2>4, <2>5 DEF Inv
<1> QED  BY <1>2, <1>3, <1>4, <1>5 DEF ParseChannel

\* An option changes the device at hand only.
LEMMA ParseDeviceStep ==
  ASSUME Inv, result = "parsing", NEW c \in Candidates, ParseDevice(c)
  PROVE  Inv'
<1>1. level = "device" /\ c.line # Blank  BY DEF ParseDevice
<1>2. Len(devices) \in Nat \ {0} /\ Device \in DeviceType
  BY <1>1 DEF Inv, TypeOK, InDevice, Device
<1>3. CASE DeviceDedent(c)
  <2>1. HandBack(c, "channel")  BY <1>3 DEF DeviceDedent
  <2>2. /\ level' = "channel" /\ result' = "parsing"
        /\ UNCHANGED <<channel_size, devices>>
        /\ virtual_device_id' = IF devices[Len(devices)].out = "virtual" THEN Len(devices) - 1
                                ELSE virtual_device_id
    BY <1>3 DEF DeviceDedent, HandBack, Returned, Device
  <2>3. Numbered'  BY <1>1, <2>1, HandBackNumbers DEF Inv
  <2>4. line_no' \in Nat /\ lines' \in Nat /\ last' \in BOOLEAN  BY <2>1, NumberTypes DEF Inv
  <2>5. TypeOK'  BY <1>2, <2>2, <2>4 DEF Inv, TypeOK
  <2>6. InDevice' /\ Sizes'  BY <2>2 DEF Inv, InDevice, Sizes
  <2>7. Names(virtual_device_id, Len(devices) - 1)  BY <1>1 DEF Inv, VirtualNamed, LookedAt
  <2>8. VirtualNamed'
    BY <1>2, <2>2, <2>7 DEF VirtualNamed, LookedAt, Names, Inv, TypeOK
  <2> QED  BY <2>3, <2>5, <2>6, <2>8 DEF Inv
<1>4. CASE DeviceOption(c)
  <2> DEFINE key == KeyOf[c.line.word]
  <2>1. PICK d \in Set(Device, key, c.line.val) :
          /\ devices' = [devices EXCEPT ![Len(devices)] = d]
          /\ IF DeviceError(d, key) # "" THEN Refused(c, DeviceError(d, key))
                                         ELSE Used(c, "", channel_size, FALSE)
          /\ Ends(d)
    BY <1>4 DEF DeviceOption
  <2>2. UNCHANGED <<level, channel_size>>  BY <1>4 DEF DeviceOption, indents
  <2>3. d \in DeviceType  BY <1>2, <2>1, SetIsDevice
  <2>4. /\ devices' \in Seq(DeviceType) /\ Len(devices') = Len(devices)
        /\ \A i \in 1 .. Len(devices) - 1 : devices'[i] = devices[i]
        /\ devices'[Len(devices)] = d
    <3>1. devices' = [devices EXCEPT ![Len(devices)] = d]  BY <2>1
    <3>2. devices \in Seq(DeviceType) /\ Len(devices) \in 1 .. Len(devices)
      BY <1>2 DEF Inv, TypeOK
    <3> QED  BY <2>3, <3>1, <3>2, ExceptSeq
  <2>5. VirtualNamed' /\ virtual_device_id' \in Nat
    BY <1>1, <2>1, <2>2, <2>4, EndsNames DEF Inv
  <2>6. DeviceError(d, key) \in Errors \cup {""}  BY DEF DeviceError, Errors
  <2>7. ASSUME DeviceError(d, key) # ""
        PROVE  Numbered' /\ line_no' \in Nat /\ lines' \in Nat /\ last' \in BOOLEAN
    <3> DEFINE error == DeviceError(d, key)
    <3>1. Refused(c, error) /\ error \in Errors  BY <2>1, <2>6, <2>7
    <3> HIDE DEF error
    <3>2. Numbered'  BY <3>1, RefusedNumbers DEF Inv
    <3>3. line_no' \in Nat /\ lines' \in Nat /\ last' \in BOOLEAN  BY <3>1, NumberTypes DEF Inv
    <3> QED  BY <3>2, <3>3
  <2>8. ASSUME DeviceError(d, key) = ""
        PROVE  Numbered' /\ line_no' \in Nat /\ lines' \in Nat /\ last' \in BOOLEAN
    <3>1. Used(c, "", channel_size, FALSE)  BY <2>1, <2>8
    <3>2. Numbered'  BY <3>1, UsedNumbers DEF Inv
    <3>3. line_no' \in Nat /\ lines' \in Nat /\ last' \in BOOLEAN  BY <3>1, NumberTypes DEF Inv
    <3> QED  BY <3>2, <3>3
  <2>9. Numbered' /\ line_no' \in Nat /\ lines' \in Nat /\ last' \in BOOLEAN  BY <2>7, <2>8
  <2>10. TypeOK'  BY <2>2, <2>4, <2>5, <2>9 DEF Inv, TypeOK
  <2>11. InDevice'  BY <1>2, <2>4 DEF InDevice
  <2>12. Sizes'  BY <2>2, <2>4 DEF Inv, Sizes
  <2> QED  BY <2>5, <2>9, <2>10, <2>11, <2>12 DEF Inv
<1>5. CASE DeviceUndefined(c)
  <2>1. Used(c, "PEC_UNDEFINED_DEVICE_KEY", channel_size, TRUE)  BY <1>5 DEF DeviceUndefined
  <2>2. result' = "PEC_UNDEFINED_DEVICE_KEY"  BY <2>1 DEF Used
  <2>3. UNCHANGED <<level, channel_size, devices>> /\ Ends(Device)
    BY <1>1, <1>5, <2>2 DEF DeviceUndefined, Ends
  <2>4. Numbered'  BY <2>1, UsedNumbers DEF Inv
  <2>5. line_no' \in Nat /\ lines' \in Nat /\ last' \in BOOLEAN  BY <2>1, NumberTypes DEF Inv
  <2>6. InDevice' /\ Sizes' /\ VirtualNamed' /\ virtual_device_id' \in Nat  BY <2>3, EndsArrays
  <2>7. TypeOK'  BY <2>3, <2>5, <2>6 DEF Inv, TypeOK
  <2> QED  BY <2>4, <2>6, <2>7 DEF Inv
<1> QED  BY <1>3, <1>4, <1>5 DEF ParseDevice

LEMMA InitFromYMALStep ==
  ASSUME Inv, InitFromYMAL
  PROVE  Inv'
<1>1. /\ result = "PEC_NONE" /\ result' \in {"E_INVALID_CHANNEL_SIZE", "started"}
      /\ UNCHANGED <<held, last, level, line_no, channel_size, devices, virtual_device_id, lines>>
  BY DEF InitFromYMAL, channel
<1>2. TypeOK' /\ InDevice' /\ Sizes'  BY <1>1 DEF Inv, TypeOK, InDevice, Sizes
<1>3. VirtualNamed'  BY <1>1 DEF Inv, VirtualNamed, LookedAt, Names
<1>4. Numbered'  BY <1>1 DEF Inv, Numbered, Errors, Undefined
<1> QED  BY <1>2, <1>3, <1>4 DEF Inv

-----------------------------------------------------------------------------
(* The theorems.                                                           *)

\* Whatever the text: ParseDevice always has a device at hand, the arrays of channels
\* and devices are not overrun, and position and line number are set back together
\* (ParseLogger, ParseChannel, ParseDevice).
THEOREM ParserInvariant == Spec => []Inv
<1>1. Init => Inv
  <2> SUFFICES ASSUME Init PROVE Inv
    OBVIOUS
  <2>1. <<>> \in Seq(DeviceType) /\ Len(<<>>) = 0  OBVIOUS
  <2>2. TypeOK  BY <2>1 DEF Init, TypeOK
  <2>3. InDevice /\ Sizes  BY <2>1, MaxTypes DEF Init, InDevice, Sizes
  <2>4. VirtualNamed  BY <2>1 DEF Init, VirtualNamed, LookedAt, Names
  <2>5. Numbered  BY DEF Init, Numbered, Errors, Undefined
  <2> QED  BY <2>2, <2>3, <2>4, <2>5 DEF Inv
<1>2. Inv /\ [Next]_vars => Inv'
  <2> SUFFICES ASSUME Inv, [Next]_vars PROVE Inv'
    OBVIOUS
  <2>1. CASE Parse
    <3>1. PICK c \in Candidates :
            LexError(c) \/ Empty(c) \/ ParseLogger(c) \/ ParseChannel(c) \/ ParseDevice(c)
      BY <2>1 DEF Parse
    <3>2. result = "parsing"  BY <2>1 DEF Parse
    <3> QED
      BY <3>1, <3>2, LexErrorStep, EmptyStep, ParseLoggerStep, ParseChannelStep, ParseDeviceStep
  <2>2. CASE InitFromYMAL  BY <2>2, InitFromYMALStep
  <2>3. CASE UNCHANGED vars
    <3>1. UNCHANGED <<held, last, level, line_no, channel_size, devices, virtual_device_id,
                      result, lines>>
      BY <2>3 DEF vars, channel
    <3> QED
      BY <3>1 DEF Inv, TypeOK, InDevice, Sizes, VirtualNamed, LookedAt, Names, Numbered
  <2> QED  BY <2>1, <2>2, <2>3 DEF Next
<1> QED  BY <1>1, <1>2, PTL DEF Spec

\* The line number reported with an error is that of the line in error, and the next
\* one for an undefined key (ErrorLine), however many levels hand the line back.
THEOREM ErrorLineIsRight == Spec => []ErrorLine
<1>1. Inv => ErrorLine  BY DEF Inv, Numbered, ErrorLine, Undefined
<1> QED  BY <1>1, ParserInvariant, PTL

\* The arrays are never overrun, and virtual_device_id_ names the last virtual device of
\* the channel whenever ParseChannel is done with a device (VirtualDevice).
THEOREM VirtualDeviceIsLast == Spec => []VirtualDevice
<1>1. Inv => VirtualDevice
  BY DEF Inv, TypeOK, Sizes, VirtualNamed, LookedAt, Names, VirtualDevice
<1> QED  BY <1>1, ParserInvariant, PTL
-----------------------------------------------------------------------------
(* Keys and layout.                                                        *)

\* The options of ParseLogger.
LoggerRange == {"HOT_UPDATE", "DEFINE", "VARIABLE", "LOGGER_NAME", "LOGGER_DESC", "SHM_KEY"}

ChannelHeader == [kind |-> "channel", blank |-> channel_indent]
DeviceHeader  == [kind |-> "device", blank |-> device_indent]

\* The functions that are running are the headers that are open, except for those a line
\* that was handed back has closed already.
Layout ==
  result = "parsing" =>
    /\ level = "logger" =>
         \/ open = {}
         \/ held # Blank /\ \A h \in open : held.blank <= h.blank
    /\ level = "channel" =>
         \/ open = {ChannelHeader}
         \/ /\ held # Blank /\ held.blank <= device_indent
            /\ channel_indent < device_indent /\ open = {ChannelHeader, DeviceHeader}
    /\ level = "device" =>
         channel_indent < device_indent /\ open = {ChannelHeader, DeviceHeader}

Placed ==
  /\ held \in Lines /\ channel_indent \in Nat /\ device_indent \in Nat
  /\ \A h \in open : h.blank \in Nat
  /\ Layout
  /\ ~astray

LEMMA LineParts ==
  ASSUME NEW l \in Lines
  PROVE  l.blank \in Nat /\ l.word \in Words \cup {""}
<1>1. CASE l = Blank  BY <1>1 DEF Blank
<1>2. CASE l # Blank
  <2>1. PICK w \in Words : l \in [blank : Indents, word : {w}, val : Values(KeyOf[w])]
    BY <1>2 DEF Lines
  <2> QED  BY <2>1, ParserAssumption
<1> QED  BY <1>1, <1>2

LEMMA CandidateKnown ==
  ASSUME held \in Lines, NEW c \in Candidates
  PROVE  c.line \in Lines
<1>1. Blank \in Lines  BY DEF Lines
<1>2. CASE held # Blank
  <2>1. c \in {[line |-> held, end |-> last]}  BY <1>2 DEF Candidates
  <2> QED  BY <2>1
<1>3. CASE held = Blank /\ last
  <2>1. c \in {[line |-> Blank, end |-> TRUE]}  BY <1>3 DEF Candidates
  <2> QED  BY <1>1, <2>1
<1>4. CASE held = Blank /\ ~last
  <2>1. c \in [line : Lines, end : {TRUE} \cup (IF lines + 1 < MaxLines THEN {FALSE} ELSE {})]
    BY <1>4 DEF Candidates
  <2> QED  BY <2>1
<1> QED  BY <1>2, <1>3, <1>4

\* Whose a line is.
LEMMA OwnerOfNone == ASSUME NEW l, Under(l) = {} PROVE Owner(l) = "logger"
BY DEF Owner

LEMMA OwnerOfOne == ASSUME NEW l, NEW h, Under(l) = {h}, h.blank \in Nat PROVE Owner(l) = h.kind
<1>1. \A x \in {h} : (\A g \in {h} : g.blank <= x.blank) <=> x = h  OBVIOUS
<1>2. (CHOOSE x \in {h} : \A g \in {h} : g.blank <= x.blank) = h  BY <1>1
<1> QED  BY <1>2 DEF Owner

LEMMA OwnerOfTwo ==
  ASSUME NEW l, NEW g, NEW h, Under(l) = {g, h}, g.blank \in Nat, h.blank \in Nat,
         g.blank < h.blank
  PROVE  Owner(l) = h.kind
<1>1. \A x \in {g, h} : (\A y \in {g, h} : y.blank <= x.blank) <=> x = h  OBVIOUS
<1>2. (CHOOSE x \in {g, h} : \A y \in {g, h} : y.blank <= x.blank) = h  BY <1>1
<1> QED  BY <1>2 DEF Owner

\* The manual's tables have no word in common and no key.
LoggerWords == {"hot_update", "shm_key", "logger_name", "logger_desc", "define", "var"}
FilterWords == {"priority", "category", "category_extend", "category_wlist", "category_blist",
                "category_wmask", "category_bmask", "identify", "identify_extend",
                "identify_wlist", "identify_blist", "identify_wmask", "identify_bmask"}
DeviceWords == {"disable", "in_type", "out_type", "udp_addr", "path", "file", "rollback",
                "limit_size", "rolldaily", "rollhourly", "stuff_up"}

LEMMA Words4 ==
  /\ DOMAIN LoggerKeys = LoggerWords /\ DOMAIN FilterKeys = FilterWords
  /\ DOMAIN DeviceKeys = DeviceWords /\ DOMAIN HeaderKeys = {"channel", "device", "sync"}
BY DEF LoggerKeys, FilterKeys, DeviceKeys, HeaderKeys, LoggerWords, FilterWords, DeviceWords

LEMMA Keys4 ==
  /\ FilterRange = {"PRIORITY", "CATEGORY", "CATEGORY_EXTEND", "CATEGORY_WLIST", "CATEGORY_BLIST",
                    "CATEGORY_WMASK", "CATEGORY_BMASK", "IDENTIFY", "IDENTIFY_EXTEND",
                    "IDENTIFY_WLIST", "IDENTIFY_BLIST", "IDENTIFY_WMASK", "IDENTIFY_BMASK"}
  /\ DeviceRange = {"DISABLE", "IN_TYPE", "OUT_TYPE", "UDP_ADDR", "PATH", "FILE", "ROLLBACK",
                    "LIMIT_SIZE", "ROLLDAILY", "ROLLHOURLY", "STUFF_UP"}
  /\ \A w \in LoggerWords : LoggerKeys[w] \in LoggerRange
<1>1. FilterRange = {FilterKeys[w] : w \in FilterWords}  BY Words4 DEF FilterRange
<1>2. DeviceRange = {DeviceKeys[w] : w \in DeviceWords}  BY Words4 DEF DeviceRange
<1> QED
  BY <1>1, <1>2 DEF LoggerKeys, FilterKeys, DeviceKeys, LoggerRange, LoggerWords, FilterWords,
                    DeviceWords

\* What the manual says of a word, level by level.
Says(tables, w, key) ==
  LET told == {t \in tables : w \in DOMAIN t} IN
  key \in IF told = {} THEN {"undefined"} ELSE {t[w] : t \in told}

ChannelRange == {"SYNC", "DEVICE"}

LEMMA ToldOne ==
  ASSUME NEW tables, NEW w, NEW t \in tables, w \in DOMAIN t
  PROVE  Says(tables, w, t[w])
BY DEF Says

LEMMA ToldNone ==
  ASSUME NEW tables, NEW w, \A t \in tables : w \notin DOMAIN t
  PROVE  Says(tables, w, "undefined")
BY DEF Says

LEMMA Told ==
  ASSUME KeysTold, NEW w \in Words \cup {""}, KeyOf[w] # "NULL"
  PROVE  /\ Says({LoggerKeys, [channel |-> "CHANNEL"]}, w,
                 IF KeyOf[w] \in {"CHANNEL"} \cup LoggerRange THEN KeyOf[w] ELSE "undefined")
         /\ Says({FilterKeys, [sync |-> "SYNC", device |-> "DEVICE"]}, w,
                 IF KeyOf[w] \in ChannelRange \cup FilterRange THEN KeyOf[w] ELSE "undefined")
         /\ Says({FilterKeys, DeviceKeys}, w,
                 IF KeyOf[w] \in FilterRange \cup DeviceRange THEN KeyOf[w] ELSE "undefined")
<1> DEFINE C == [channel |-> "CHANNEL"]
           S == [sync |-> "SYNC", device |-> "DEVICE"]
<1>1. \/ w \in LoggerWords /\ KeyOf[w] = LoggerKeys[w]
      \/ w \in FilterWords /\ KeyOf[w] = FilterKeys[w]
      \/ w \in DeviceWords /\ KeyOf[w] = DeviceKeys[w]
      \/ w \in {"channel", "device", "sync"} /\ KeyOf[w] = HeaderKeys[w]
  BY Words4 DEF KeysTold
<1>2. /\ \A x \in FilterWords : FilterKeys[x] \in FilterRange
      /\ \A x \in DeviceWords : DeviceKeys[x] \in DeviceRange
      /\ \A x \in LoggerWords : LoggerKeys[x] \in LoggerRange
  BY Words4, Keys4 DEF FilterRange, DeviceRange
<1>3. /\ HeaderKeys["channel"] = "CHANNEL" /\ HeaderKeys["device"] = "DEVICE"
      /\ HeaderKeys["sync"] = "SYNC"
  BY DEF HeaderKeys
<1>4. /\ DOMAIN C = {"channel"} /\ C["channel"] = "CHANNEL"
      /\ DOMAIN S = {"sync", "device"} /\ S["sync"] = "SYNC" /\ S["device"] = "DEVICE"
  OBVIOUS
<1> HIDE DEF C, S
<1> DEFINE M1 == {LoggerKeys, C}
           M2 == {FilterKeys, S}
           M3 == {FilterKeys, DeviceKeys}
<1>5. SUFFICES /\ Says(M1, w, IF KeyOf[w] \in {"CHANNEL"} \cup LoggerRange THEN KeyOf[w]
                              ELSE "undefined")
               /\ Says(M2, w, IF KeyOf[w] \in ChannelRange \cup FilterRange THEN KeyOf[w]
                              ELSE "undefined")
               /\ Says(M3, w, IF KeyOf[w] \in FilterRange \cup DeviceRange THEN KeyOf[w]
                              ELSE "undefined")
  BY DEF C, S
<1>6. CASE w \in LoggerWords /\ KeyOf[w] = LoggerKeys[w]
  <2>1. w \notin FilterWords \cup DeviceWords \cup {"channel", "device", "sync"}
    BY <1>6 DEF LoggerWords, FilterWords, DeviceWords
  <2>2. KeyOf[w] \in LoggerRange  BY <1>2, <1>6
  <2>3. KeyOf[w] \notin FilterRange \cup DeviceRange \cup ChannelRange
    BY <2>2, Keys4 DEF LoggerRange, ChannelRange
  <2>4. Says(M1, w, KeyOf[w])  BY <1>6, Words4, ToldOne
  <2>5. Says(M2, w, "undefined") /\ Says(M3, w, "undefined")  BY <1>4, <2>1, Words4, ToldNone
  <2> QED  BY <2>2, <2>3, <2>4, <2>5
<1>7. CASE w \in FilterWords /\ KeyOf[w] = FilterKeys[w]
  <2>1. w \notin LoggerWords \cup {"channel", "device", "sync"}
    BY <1>7 DEF LoggerWords, FilterWords
  <2>2. KeyOf[w] \in FilterRange  BY <1>2, <1>7
  <2>3. KeyOf[w] \notin LoggerRange \cup {"CHANNEL"}
    BY <2>2, Keys4 DEF LoggerRange
  <2>4. Says(M2, w, KeyOf[w]) /\ Says(M3, w, KeyOf[w])  BY <1>7, Words4, ToldOne
  <2>5. Says(M1, w, "undefined")  BY <1>4, <2>1, Words4, ToldNone
  <2> QED  BY <2>2, <2>3, <2>4, <2>5
<1>8. CASE w \in DeviceWords /\ KeyOf[w] = DeviceKeys[w]
  <2>1. w \notin LoggerWords \cup FilterWords \cup {"channel", "device", "sync"}
    BY <1>8 DEF LoggerWords, FilterWords, DeviceWords
  <2>2. KeyOf[w] \in DeviceRange  BY <1>2, <1>8
  <2>3. KeyOf[w] \notin LoggerRange \cup FilterRange \cup ChannelRange \cup {"CHANNEL"}
    BY <2>2, Keys4 DEF LoggerRange, ChannelRange
  <2>4. Says(M3, w, KeyOf[w])  BY <1>8, Words4, ToldOne
  <2>5. Says(M1, w, "undefined") /\ Says(M2, w, "undefined")  BY <1>4, <2>1, Words4, ToldNone
  <2> QED  BY <2>2, <2>3, <2>4, <2>5
<1>9. CASE w \in {"channel", "device", "sync"} /\ KeyOf[w] = HeaderKeys[w]
  <2>1. w \notin LoggerWords \cup FilterWords \cup DeviceWords
    BY <1>9 DEF LoggerWords, FilterWords, DeviceWords
  <2>2. KeyOf[w] \in {"CHANNEL", "DEVICE", "SYNC"}  BY <1>3, <1>9
  <2>3. KeyOf[w] \notin LoggerRange \cup FilterRange \cup DeviceRange
    BY <2>2, Keys4 DEF LoggerRange
  <2>4. Says(M3, w, "undefined")  BY <2>1, Words4, ToldNone
  <2>5. CASE w = "channel" /\ KeyOf[w] = "CHANNEL"
    <3>1. Says(M1, w, KeyOf[w])  BY <1>4, <2>5, ToldOne
    <3>2. Says(M2, w, "undefined")  BY <1>4, <2>1, <2>5, Words4, ToldNone
    <3> QED  BY <2>3, <2>4, <2>5, <3>1, <3>2 DEF ChannelRange
  <2>6. CASE w # "channel" /\ KeyOf[w] \in ChannelRange /\ KeyOf[w] = S[w] /\ w \in DOMAIN S
    <3>1. Says(M2, w, KeyOf[w])  BY <2>6, ToldOne
    <3>2. Says(M1, w, "undefined")  BY <1>4, <2>1, <2>6, Words4, ToldNone
    <3>3. KeyOf[w] # "CHANNEL"  BY <2>6 DEF ChannelRange
    <3> QED  BY <2>3, <2>4, <2>6, <3>1, <3>2, <3>3
  <2> QED  BY <1>3, <1>4, <1>9, <2>5, <2>6 DEF ChannelRange
<1> QED  BY <1>1, <1>6, <1>7, <1>8, <1>9

\* A line that is taken for what the manual says of it.
LEMMA DueHere ==
  ASSUME KeysTold, NEW l, l.word \in Words \cup {""}, KeyOf[l.word] # "NULL", level = Owner(l)
  PROVE  /\ level = "logger" =>
              Due(l, IF KeyOf[l.word] \in {"CHANNEL"} \cup LoggerRange THEN KeyOf[l.word]
                     ELSE "undefined")
         /\ level = "channel" =>
              Due(l, IF KeyOf[l.word] \in ChannelRange \cup FilterRange THEN KeyOf[l.word]
                     ELSE "undefined")
         /\ level = "device" =>
              Due(l, IF KeyOf[l.word] \in FilterRange \cup DeviceRange THEN KeyOf[l.word]
                     ELSE "undefined")
<1>1. \A key : Due(l, key) <=> Says(Manual[level], l.word, key)  BY DEF Due, Says
<1>2. /\ Manual["logger"] = {LoggerKeys, [channel |-> "CHANNEL"]}
      /\ Manual["channel"] = {FilterKeys, [sync |-> "SYNC", device |-> "DEVICE"]}
      /\ Manual["device"] = {FilterKeys, DeviceKeys}
  BY DEF Manual
<1> QED  BY <1>1, <1>2, Told

LEMMA LineAtHand ==
  ASSUME Placed, NEW c \in Candidates
  PROVE  /\ c.line \in Lines /\ c.line.blank \in Nat /\ c.line.word \in Words \cup {""}
         /\ held # Blank => c.line = held
BY CandidateKnown, CandidateLine, LineParts DEF Placed

\* The lines each function keeps lie under the headers it was called for.
LEMMA LoggerLine ==
  ASSUME Placed, result = "parsing", level = "logger", NEW c \in Candidates
  PROVE  Under(c.line) = {} /\ Owner(c.line) = "logger"
<1>1. \A h \in open : c.line.blank <= h.blank /\ h.blank \in Nat
  BY LineAtHand DEF Placed, Layout
<1>2. c.line.blank \in Nat  BY LineAtHand
<1>3. \A h \in open : ~(h.blank < c.line.blank)  BY <1>1, <1>2
<1>4. Under(c.line) = {}  BY <1>3 DEF Under
<1> QED  BY <1>4, OwnerOfNone

LEMMA ChannelLine ==
  ASSUME Placed, result = "parsing", level = "channel", NEW c \in Candidates,
         c.line.blank > channel_indent
  PROVE  Under(c.line) = {ChannelHeader} /\ Owner(c.line) = "channel"
<1>1. ChannelHeader.blank = channel_indent /\ ChannelHeader.kind = "channel"
      /\ DeviceHeader.blank = device_indent
  BY DEF ChannelHeader, DeviceHeader
<1>2. \/ open = {ChannelHeader}
      \/ open = {ChannelHeader, DeviceHeader} /\ c.line.blank <= device_indent
  BY LineAtHand DEF Placed, Layout
<1>3. c.line.blank \in Nat /\ channel_indent \in Nat /\ device_indent \in Nat
  BY LineAtHand DEF Placed
<1>4. ChannelHeader \in open /\ \A h \in open : h.blank < c.line.blank <=> h = ChannelHeader
  BY <1>1, <1>2, <1>3
<1>5. Under(c.line) = {ChannelHeader}  BY <1>4 DEF Under
<1> QED  BY <1>1, <1>3, <1>5, OwnerOfOne

LEMMA DeviceLine ==
  ASSUME Placed, result = "parsing", level = "device", NEW c \in Candidates,
         c.line.blank > device_indent
  PROVE  Under(c.line) = open /\ Owner(c.line) = "device"
<1>1. ChannelHeader.blank = channel_indent /\ DeviceHeader.kind = "device"
      /\ DeviceHeader.blank = device_indent
  BY DEF ChannelHeader, DeviceHeader
<1>2. open = {ChannelHeader, DeviceHeader} /\ channel_indent < device_indent
  BY DEF Placed, Layout
<1>3. c.line.blank \in Nat /\ channel_indent \in Nat /\ device_indent \in Nat
  BY LineAtHand DEF Placed
<1>4. \A h \in open : h.blank < c.line.blank  BY <1>1, <1>2, <1>3
<1>5. Under(c.line) = {ChannelHeader, DeviceHeader}  BY <1>2, <1>4 DEF Under
<1> QED  BY <1>1, <1>2, <1>3, <1>5, OwnerOfTwo

\* An error leaves everything where it is.
LEMMA RefusedPlaced ==
  ASSUME Placed, NEW c \in Candidates, NEW e, e # "parsing", Refused(c, e),
         UNCHANGED <<channel_indent, device_indent>>
  PROVE  Placed'
BY LineAtHand DEF Refused, Placed, Layout

LEMMA UsedPlaced ==
  ASSUME Placed, NEW c \in Candidates, c.line # Blank, NEW e, NEW n, NEW u \in BOOLEAN,
         Used(c, e, n, u), Due(c.line, IF u THEN "undefined" ELSE KeyOf[c.line.word]),
         channel_indent' \in Nat, device_indent' \in Nat
  PROVE  /\ Layout' => Placed'
         /\ held' = Blank
         /\ e # "" => result' = e
         /\ IF ~u /\ KeyOf[c.line.word] = "CHANNEL"
            THEN open' = Under(c.line) \cup {[kind |-> "channel", blank |-> c.line.blank]}
            ELSE IF ~u /\ KeyOf[c.line.word] = "DEVICE"
            THEN open' = Under(c.line) \cup {[kind |-> "device", blank |-> c.line.blank]}
            ELSE open' = Under(c.line)
<1>1. held' = Blank /\ (e # "" => result' = e)  BY DEF Used
<1>2. ~astray'  BY DEF Used, Placed
<1>3. IF ~u /\ KeyOf[c.line.word] = "CHANNEL"
      THEN open' = Under(c.line) \cup {[kind |-> "channel", blank |-> c.line.blank]}
      ELSE IF ~u /\ KeyOf[c.line.word] = "DEVICE"
      THEN open' = Under(c.line) \cup {[kind |-> "device", blank |-> c.line.blank]}
      ELSE open' = Under(c.line)
  BY DEF Used
<1>4. \A h \in open' : h.blank \in Nat
  <2>1. \A h \in Under(c.line) : h.blank \in Nat  BY DEF Under, Placed
  <2>2. \A k : [kind |-> k, blank |-> c.line.blank].blank \in Nat  BY LineAtHand
  <2> QED  BY <1>3, <2>1, <2>2
<1>5. Blank \in Lines  BY DEF Lines
<1> QED  BY <1>1, <1>2, <1>3, <1>4, <1>5 DEF Placed

LEMMA LexErrorPlaced ==
  ASSUME Placed, NEW c \in Candidates, LexError(c)
  PROVE  Placed'
<1>1. Refused(c, "PEC_ILLEGAL_KEY") /\ UNCHANGED <<channel_indent, device_indent>>
  BY DEF LexError, indents
<1> QED  BY <1>1, RefusedPlaced

LEMMA EmptyPlaced ==
  ASSUME Placed, result = "parsing", NEW c \in Candidates, Empty(c)
  PROVE  Placed'
<1>1. c.line = Blank /\ held = Blank  BY LineAtHand DEF Empty
<1>2. Used(c, "", channel_size, FALSE) /\ UNCHANGED <<level, channel_indent, device_indent>>
  BY DEF Empty, indents
<1>3. held' = Blank /\ open' = open /\ ~astray'  BY <1>1, <1>2 DEF Used, Placed
<1>4. Layout'  BY <1>1, <1>2, <1>3 DEF Placed, Layout, ChannelHeader, DeviceHeader
<1> QED  BY <1>1, <1>2, <1>3, <1>4 DEF Placed

LEMMA LoggerPlaced ==
  ASSUME KeysTold, Placed, result = "parsing", NEW c \in Candidates, ParseLogger(c)
  PROVE  Placed'
<1> DEFINE key == KeyOf[c.line.word]
<1>1. level = "logger" /\ Under(c.line) = {} /\ Owner(c.line) = "logger"
  BY LoggerLine DEF ParseLogger
<1>2. c.line # Blank /\ key # "NULL"
  <2>1. KeyOf[""] = "NULL"
    <3>1. \A t \in {LoggerKeys, FilterKeys, DeviceKeys, HeaderKeys} : "" \notin DOMAIN t
      <4>1. /\ "" \notin LoggerWords \cup FilterWords \cup DeviceWords
            /\ "" \notin {"channel", "device", "sync"}
        BY DEF LoggerWords, FilterWords, DeviceWords
      <4> QED  BY <4>1, Words4
    <3> QED  BY <3>1 DEF KeysTold
  <2>2. Blank.word = ""  BY DEF Blank
  <2> QED  BY <2>1, <2>2 DEF ParseLogger, LoggerOption, LoggerDefine, LoggerChannel,
                             LoggerUndefined, PredefinedErrors
<1>3. Due(c.line, IF key \in {"CHANNEL"} \cup LoggerRange THEN key ELSE "undefined")
  BY <1>1, <1>2, LineAtHand, DueHere
<1>7. ASSUME key \in LoggerRange, UNCHANGED <<level, channel_indent, device_indent>>,
             Used(c, "", channel_size, FALSE)
      PROVE  Placed'
  <2>1. Due(c.line, IF FALSE THEN "undefined" ELSE KeyOf[c.line.word])  BY <1>3, <1>7
  <2>2. (Layout' => Placed') /\ open' = Under(c.line)
    BY <1>2, <1>7, <2>1, UsedPlaced DEF LoggerRange, Placed
  <2> QED  BY <1>1, <1>7, <2>2 DEF Layout
<1>4. CASE LoggerOption(c)
  <2>1. key \in LoggerRange /\ UNCHANGED <<level, channel_indent, device_indent>>
    BY <1>4 DEF LoggerOption, LoggerRange, indents
  <2>2. Used(c, "", channel_size, FALSE)  BY <1>4 DEF LoggerOption
  <2> QED  BY <1>7, <2>1, <2>2
<1>8. CASE LoggerDefine(c)
  <2> DEFINE text == c.line.val.text
  <2>1. key \in LoggerRange /\ UNCHANGED <<level, channel_indent, device_indent>>
    BY <1>8 DEF LoggerDefine, LoggerRange, indents, PredefinedErrors
  <2>2. CASE Refused(c, text) /\ text # "parsing"
    <3> HIDE DEF text
    <3> QED  BY <2>1, <2>2, RefusedPlaced
  <2>3. CASE Used(c, "", channel_size, FALSE)  BY <1>7, <2>1, <2>3
  <2>4. CASE Replacing(c)
    <3>1. result' = "replacing" /\ UNCHANGED <<held, open, astray>>  BY <2>4 DEF Replacing
    <3> QED  BY <2>1, <3>1 DEF Placed, Layout
  <2>5. \A k \in DOMAIN PredefinedErrors : "parsing" \notin PredefinedErrors[k]
    BY DEF PredefinedErrors
  <2> QED  BY <1>8, <2>2, <2>3, <2>4, <2>5 DEF LoggerDefine
<1>5. CASE LoggerChannel(c)
  <2> DEFINE error == IF channel_size >= MAX_CHANNEL_SIZE THEN "E_INVALID_CHANNEL_SIZE"
                      ELSE IF c.line.val.id # channel_size THEN "E_CHANNEL_NOT_SEQUENCE" ELSE ""
  <2>1. CASE error # ""
    <3>1. Refused(c, error) /\ UNCHANGED <<channel_indent, device_indent>> /\ error # "parsing"
      BY <1>5, <2>1 DEF LoggerChannel
    <3> HIDE DEF error
    <3> QED  BY <3>1, RefusedPlaced
  <2>2. CASE error = ""
    <3>1. /\ Used(c, "", channel_size + 1, FALSE) /\ key = "CHANNEL"
          /\ level' = "channel" /\ channel_indent' = c.line.blank
          /\ device_indent' = device_indent
      BY <1>5, <2>2 DEF LoggerChannel
    <3>2. Due(c.line, IF FALSE THEN "undefined" ELSE KeyOf[c.line.word])  BY <1>3, <3>1
    <3>3. /\ Layout' => Placed'
          /\ open' = Under(c.line) \cup {[kind |-> "channel", blank |-> c.line.blank]}
      BY <1>2, <3>1, <3>2, LineAtHand, UsedPlaced DEF Placed
    <3>4. open' = {ChannelHeader'}  BY <1>1, <3>1, <3>3 DEF ChannelHeader
    <3> QED  BY <3>1, <3>3, <3>4 DEF Layout
  <2> QED  BY <2>1, <2>2
<1>6. CASE LoggerUndefined(c)
  <2>1. /\ Used(c, "PEC_UNDEFINED_GLOBAL_KEY", channel_size, TRUE)
        /\ UNCHANGED <<channel_indent, device_indent>>
        /\ key \notin {"CHANNEL"} \cup LoggerRange
    BY <1>6 DEF LoggerUndefined, indents, LoggerRange
  <2>2. Due(c.line, IF TRUE THEN "undefined" ELSE KeyOf[c.line.word])  BY <1>3, <2>1
  <2>3. (Layout' => Placed') /\ result' = "PEC_UNDEFINED_GLOBAL_KEY"
    BY <1>2, <2>1, <2>2, UsedPlaced DEF Placed
  <2> QED  BY <2>3 DEF Layout
<1> QED  BY <1>4, <1>5, <1>6, <1>8 DEF ParseLogger

LEMMA ChannelPlaced ==
  ASSUME KeysTold, Placed, result = "parsing", NEW c \in Candidates, ParseChannel(c)
  PROVE  Placed'
<1> DEFINE key == KeyOf[c.line.word]
<1>1. level = "channel" /\ c.line # Blank  BY DEF ParseChannel
<1>2. ASSUME c.line.blank > channel_indent, key # "NULL"
      PROVE  /\ Under(c.line) = {ChannelHeader}
             /\ Due(c.line, IF key \in ChannelRange \cup FilterRange THEN key ELSE "undefined")
  <2>1. Under(c.line) = {ChannelHeader} /\ Owner(c.line) = "channel"
    BY <1>1, <1>2, ChannelLine
  <2> QED  BY <1>1, <1>2, <2>1, LineAtHand, DueHere
<1>3. CASE ChannelDedent(c)
  <2>1. /\ c.line.blank <= channel_indent /\ held' = c.line /\ level' = "logger"
        /\ UNCHANGED <<open, astray, channel_indent, device_indent>>
    BY <1>3 DEF ChannelDedent, HandBack, indents
  <2>2. \A h \in open : c.line.blank <= h.blank
    <3>1. ChannelHeader.blank = channel_indent /\ DeviceHeader.blank = device_indent
      BY DEF ChannelHeader, DeviceHeader
    <3>2. \/ open = {ChannelHeader}
          \/ open = {ChannelHeader, DeviceHeader} /\ channel_indent < device_indent
      BY <1>1 DEF Placed, Layout
    <3>3. c.line.blank \in Nat /\ channel_indent \in Nat /\ device_indent \in Nat
      BY LineAtHand DEF Placed
    <3> QED  BY <2>1, <3>1, <3>2, <3>3
  <2>3. Layout'  BY <1>1, <2>1, <2>2 DEF Layout
  <2> QED  BY <2>1, <2>3, LineAtHand DEF Placed
<1>4. CASE ChannelOption(c)
  <2>1. /\ Used(c, "", channel_size, FALSE) /\ UNCHANGED <<level, channel_indent, device_indent>>
        /\ key \in {"SYNC"} \cup FilterRange /\ c.line.blank > channel_indent
    BY <1>4 DEF ChannelOption, indents
  <2>2. key \notin {"NULL", "CHANNEL", "DEVICE"}  BY <2>1, Keys4
  <2>3. Due(c.line, IF FALSE THEN "undefined" ELSE KeyOf[c.line.word])
    BY <1>2, <2>1, <2>2 DEF ChannelRange
  <2>4. (Layout' => Placed') /\ open' = Under(c.line)
    BY <1>1, <2>1, <2>2, <2>3, UsedPlaced DEF Placed
  <2>5. open' = {ChannelHeader'}  BY <1>2, <2>1, <2>2, <2>4 DEF ChannelHeader
  <2> QED  BY <1>1, <2>1, <2>4, <2>5 DEF Layout
<1>5. CASE ChannelDevice(c)
  <2> DEFINE error == IF Len(devices) >= MAX_DEVICE_SIZE THEN "E_OUT_OF_DEVICE_SIZE"
                      ELSE IF c.line.val.id # Len(devices) THEN "E_DEVICE_NOT_SEQUENCE" ELSE ""
  <2>1. CASE error # ""
    <3>1. Refused(c, error) /\ UNCHANGED <<channel_indent, device_indent>> /\ error # "parsing"
      BY <1>5, <2>1 DEF ChannelDevice
    <3> HIDE DEF error
    <3> QED  BY <3>1, RefusedPlaced
  <2>2. CASE error = ""
    <3>1. /\ Used(c, "", channel_size, FALSE) /\ key = "DEVICE"
          /\ level' = "device" /\ device_indent' = c.line.blank
          /\ channel_indent' = channel_indent /\ c.line.blank > channel_indent
      BY <1>5, <2>2 DEF ChannelDevice
    <3>2. Due(c.line, IF FALSE THEN "undefined" ELSE KeyOf[c.line.word])
      BY <1>2, <3>1 DEF ChannelRange
    <3>3. /\ Layout' => Placed'
          /\ open' = Under(c.line) \cup {[kind |-> "device", blank |-> c.line.blank]}
      BY <1>1, <3>1, <3>2, LineAtHand, UsedPlaced DEF Placed
    <3>4. open' = {ChannelHeader', DeviceHeader'}
      BY <1>2, <3>1, <3>3 DEF ChannelHeader, DeviceHeader
    <3>5. channel_indent' < device_indent'  BY <3>1, LineAtHand DEF Placed
    <3> QED  BY <3>1, <3>3, <3>4, <3>5 DEF Layout
  <2> QED  BY <2>1, <2>2
<1>6. CASE ChannelUndefined(c)
  <2>1. /\ Used(c, "PEC_UNDEFINED_CHANNEL_KEY", channel_size, TRUE)
        /\ UNCHANGED <<channel_indent, device_indent>> /\ c.line.blank > channel_indent
        /\ key \notin ChannelRange \cup FilterRange /\ key # "NULL"
    BY <1>6 DEF ChannelUndefined, indents, ChannelRange
  <2>2. Due(c.line, IF TRUE THEN "undefined" ELSE KeyOf[c.line.word])  BY <1>2, <2>1
  <2>3. (Layout' => Placed') /\ result' = "PEC_UNDEFINED_CHANNEL_KEY"
    BY <1>1, <2>1, <2>2, UsedPlaced DEF Placed
  <2> QED  BY <2>3 DEF Layout
<1> QED  BY <1>3, <1>4, <1>5, <1>6 DEF ParseChannel

LEMMA DevicePlaced ==
  ASSUME KeysTold, Placed, result = "parsing", NEW c \in Candidates, ParseDevice(c)
  PROVE  Placed'
<1> DEFINE key == KeyOf[c.line.word]
<1>1. level = "device" /\ c.line # Blank  BY DEF ParseDevice
<1>2. open = {ChannelHeader, DeviceHeader} /\ channel_indent < device_indent
  BY <1>1 DEF Placed, Layout
<1>3. ASSUME c.line.blank > device_indent, key # "NULL"
      PROVE  /\ Under(c.line) = open
             /\ Due(c.line, IF key \in FilterRange \cup DeviceRange THEN key ELSE "undefined")
  <2>1. Under(c.line) = open /\ Owner(c.line) = "device"  BY <1>1, <1>3, DeviceLine
  <2> QED  BY <1>1, <1>3, <2>1, LineAtHand, DueHere
<1>4. CASE DeviceDedent(c)
  <2>1. /\ c.line.blank <= device_indent /\ held' = c.line /\ level' = "channel"
        /\ UNCHANGED <<open, astray, channel_indent, device_indent>>
    BY <1>4 DEF DeviceDedent, HandBack, indents
  <2>2. Layout'  BY <1>1, <1>2, <2>1 DEF Layout, ChannelHeader, DeviceHeader
  <2> QED  BY <2>1, <2>2, LineAtHand DEF Placed
<1>5. CASE DeviceOption(c)
  <2>1. PICK d \in Set(Device, key, c.line.val) :
          IF DeviceError(d, key) # "" THEN Refused(c, DeviceError(d, key))
                                      ELSE Used(c, "", channel_size, FALSE)
    BY <1>5 DEF DeviceOption
  <2>2. /\ UNCHANGED <<level, channel_indent, device_indent>>
        /\ key \in FilterRange \cup DeviceRange /\ c.line.blank > device_indent
    BY <1>5 DEF DeviceOption, indents
  <2>3. CASE DeviceError(d, key) # ""
    <3> DEFINE error == DeviceError(d, key)
    <3>1. error # "parsing"  BY DEF DeviceError
    <3>2. Refused(c, error)  BY <2>1, <2>3
    <3> HIDE DEF error
    <3> QED  BY <2>2, <3>1, <3>2, RefusedPlaced
  <2>4. CASE DeviceError(d, key) = ""
    <3>1. key \notin {"NULL", "CHANNEL", "DEVICE"}  BY <2>2, Keys4
    <3>2. Due(c.line, IF FALSE THEN "undefined" ELSE KeyOf[c.line.word])
      BY <1>3, <2>2, <3>1
    <3>3. (Layout' => Placed') /\ open' = Under(c.line)
      BY <1>1, <2>1, <2>2, <2>4, <3>1, <3>2, UsedPlaced DEF Placed
    <3>4. open' = open  BY <1>3, <2>2, <3>1, <3>3
    <3> QED  BY <1>1, <1>2, <2>2, <3>3, <3>4 DEF Layout, ChannelHeader, DeviceHeader
  <2> QED  BY <2>3, <2>4
<1>6. CASE DeviceUndefined(c)
  <2>1. /\ Used(c, "PEC_UNDEFINED_DEVICE_KEY", channel_size, TRUE)
        /\ UNCHANGED <<channel_indent, device_indent>> /\ c.line.blank > device_indent
        /\ key \notin FilterRange \cup DeviceRange /\ key # "NULL"
    BY <1>6 DEF DeviceUndefined, indents
  <2>2. Due(c.line, IF TRUE THEN "undefined" ELSE KeyOf[c.line.word])  BY <1>3, <2>1
  <2>3. (Layout' => Placed') /\ result' = "PEC_UNDEFINED_DEVICE_KEY"
    BY <1>1, <2>1, <2>2, UsedPlaced DEF Placed
  <2> QED  BY <2>3 DEF Layout
<1> QED  BY <1>4, <1>5, <1>6 DEF ParseDevice

\* Each line goes where its indentation puts it, however many levels end before it, and
\* each key is taken for what the manual says, whatever the text (KeysReachTheirOwner;
\* ParseLogger, ParseChannel, ParseDevice), if ParseReserve tells the text's words apart.
THEOREM KeysReachOwner ==
  ASSUME KeysTold
  PROVE  Spec => []KeysReachTheirOwner
<1>1. Init => Placed
  BY DEF Init, Placed, Layout, Lines
<1>2. Placed /\ [Next]_vars => Placed'
  <2> SUFFICES ASSUME Placed, [Next]_vars PROVE Placed'
    OBVIOUS
  <2>1. CASE Parse
    <3>1. PICK c \in Candidates :
            LexError(c) \/ Empty(c) \/ ParseLogger(c) \/ ParseChannel(c) \/ ParseDevice(c)
      BY <2>1 DEF Parse
    <3>2. result = "parsing"  BY <2>1 DEF Parse
    <3> QED
      BY <3>1, <3>2, LexErrorPlaced, EmptyPlaced, LoggerPlaced, ChannelPlaced, DevicePlaced
  <2>2. CASE InitFromYMAL
    <3>1. /\ UNCHANGED <<held, channel_indent, device_indent, open, astray>>
          /\ result' # "parsing"
      BY <2>2 DEF InitFromYMAL, indents
    <3> QED  BY <3>1 DEF Placed, Layout
  <2>3. CASE UNCHANGED vars
    <3>1. UNCHANGED <<held, level, channel_indent, device_indent, result, open, astray>>
      BY <2>3 DEF vars, indents
    <3> QED  BY <3>1 DEF Placed, Layout, ChannelHeader, DeviceHeader
  <2> QED  BY <2>1, <2>2, <2>3 DEF Next
<1>3. Placed => KeysReachTheirOwner  BY DEF Placed, KeysReachTheirOwner
<1> QED  BY <1>1, <1>2, <1>3, PTL DEF Spec
=============================================================================
