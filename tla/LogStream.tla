------------------------------ MODULE LogStream ------------------------------
(***************************************************************************)
(* A log call from end to end (fn_stream.h, the stream macros of           *)
(* fn_macro.h, and BlockInput, DispatchLog and TransmitChannel of          *)
(* fn_channel.h): the filters decide whether a slot is held, the stream    *)
(* writes into it, its destructor lets the virtual device hear the record, *)
(* the user's hook transmits it to another channel, the slot is pushed,    *)
(* and the channel's thread hands it to the devices that still want it.    *)
(*                                                                         *)
(* A channel is a bounded queue of cells here, which module Channel shows  *)
(* its ring to implement (LogQueue).  A stop may come at any moment: it    *)
(* closes the filters and then one channel after another, and calls that   *)
(* are under way give up at their next test.  What follows in a stop, the  *)
(* joins and the clearing of the rings, is in Lifecycle and Recovery, and  *)
(* so is the next start.  "identify" is filtered by the same code as       *)
(* "category" and is left out; categories stay below 64, beyond which the  *)
(* code's shift is undefined.  A mask is the set of its bits.              *)
(***************************************************************************)
EXTENDS Naturals, Sequences, FiniteSets

CONSTANTS
  Producers,    \* the threads that log
  Channels,     \* the async channels
  Capacity,     \* cells of a channel: the slots of its ring but one
  Target,       \* the channel to which the user's hook transmits every record
  Configs,      \* [Channels -> [filter, devices, virtual]], see Configure
  Messages,     \* the priority and category of what is logged
  LOG_SIZE,     \* bytes of a record
  Prefix,       \* bytes of the prefix that the constructor writes
  Reserve,      \* free bytes without which a number is left out (30)
  Blanks,       \* a column of LogBlankAlign
  MaxCalls,     \* bound: log calls
  MaxUpdates    \* bound: configuration values stored

\* ChannelConfig: the filter of a channel, its devices, and the index of the one
\* whose filter the virtual device uses.
OutTypes == {"null", "screen", "file", "udp", "virtual", "empty"}
ChannelFilter == [pri : Nat, begin : Nat, count : Nat, mask : SUBSET Nat]
Device ==
  [able : BOOLEAN, in_null : BOOLEAN, out : OutTypes,
   pri : Nat, begin : Nat, count : Nat, mask : SUBSET Nat]
Configuration == [Channels -> [filter : ChannelFilter, devices : Seq(Device), virtual : Nat]]

\* The configurations differ in their filters, not in their devices: a hot update
\* never takes a device away, and the ones it adds are left out.
ASSUME LogStreamAssumption ==
  /\ Target \in Channels
  /\ Capacity \in Nat \ {0} /\ MaxCalls \in Nat /\ MaxUpdates \in Nat /\ Blanks \in Nat
  /\ LOG_SIZE \in Nat /\ Prefix \in Nat /\ Reserve \in Nat
  /\ Prefix + 2 < LOG_SIZE /\ Reserve < LOG_SIZE
  /\ Messages \subseteq Nat \X Nat
  /\ Configs \subseteq Configuration
  /\ \A one, other \in Configs : \A c \in Channels :
       Len(one[c].devices) = Len(other[c].devices)

VARIABLES
  logger_state,   \* RUNNING until StopLogger is under way
  channel_state,  \* of each channel: RUNNING until StopChannels has asked it to finish
  config,     \* Channel::config_fields_ and Device::config_fields_, by channel
  queue,      \* the cells of each channel
  call,       \* where each thread's log call is
  calls,      \* how many calls have begun
  updates,    \* how many configuration values have been stored
  last,       \* what became of the last record judged by a filter
  delivered   \* the copies that reached the target's devices

states == <<logger_state, channel_state>>
vars == <<states, config, queue, call, calls, updates, last, delivered>>

Smaller(a, b) == IF a < b THEN a ELSE b
Larger(a, b)  == IF a < b THEN b ELSE a

Priorities == {m[1] : m \in Messages}
Categories == {m[2] : m \in Messages}

Idle == [pc |-> "idle"]
At(p, where) == call[p].pc = where

\* A cell held by HoldChannel: its record is reset and not ready.  wanted, stale
\* and heard belong to the properties: the devices that wanted the record when it
\* was let in, whether filters or category have changed since, and whether the
\* hook has transmitted it.
Cell(p, len, copy) ==
  [by |-> p, n |-> call[p].n, pri |-> call[p].pri, cat |-> call[p].cat, len |-> len,
   ready |-> FALSE, copy |-> copy, wanted |-> call[p].wanted,
   stale |-> call[p].stale, heard |-> FALSE]

\* What the filters made of a record, where nothing changed on the way.
Judged(got, wanted, stale) == IF stale THEN last ELSE [got |-> got, wanted |-> wanted]

\* The index of the cell that thread p holds in channel c.
Held(p, c) == CHOOSE k \in DOMAIN queue[c] : queue[c][k].by = p /\ ~queue[c][k].ready
Record(p)  == queue[call[p].chl][Held(p, call[p].chl)]
----------------------------------------------------------------------------
(* Filters                                                                 *)

OutOfRange(f, cat) == f.count > 0 /\ (cat < f.begin \/ cat >= f.begin + f.count)
Masked(f, cat)     == f.mask # {} /\ cat \notin f.mask

\* BlockInput looks for a device that would take the record.
NeedWrite(c, pri, cat) ==
  \E d \in DOMAIN config[c].devices :
    LET f == config[c].devices[d] IN
    /\ f.able /\ pri >= f.pri /\ f.in_null
    /\ ~OutOfRange(f, cat) /\ ~Masked(f, cat)

Filtered(c, pri, cat) ==
  LET f == config[c].filter IN
  pri < f.pri \/ OutOfRange(f, cat) \/ Masked(f, cat) \/ ~NeedWrite(c, pri, cat)

Running(c) == channel_state[c] = "RUNNING"
Open(c)    == logger_state = "RUNNING" /\ Running(c)

BlockInput(c, pri, cat) == ~Open(c) \/ Filtered(c, pri, cat)

\* Mutant: a device takes only what is above its priority.
DispatchLogAbove(c, r) ==
  {d \in DOMAIN config[c].devices :
     /\ config[c].devices[d].able /\ config[c].devices[d].in_null
     /\ config[c].devices[d].pri < r.pri
     /\ ~OutOfRange(config[c].devices[d], r.cat) /\ ~Masked(config[c].devices[d], r.cat)
     /\ config[c].devices[d].out # "virtual"}

\* The devices to which DispatchLog hands record r; EnterProcDevice passes over
\* a virtual device.
DispatchLog(c, r) ==
  {d \in DOMAIN config[c].devices :
     LET f == config[c].devices[d] IN
     /\ f.able /\ f.in_null /\ r.pri >= f.pri
     /\ ~OutOfRange(f, r.cat) /\ ~Masked(f, r.cat)
     /\ f.out # "virtual"}

\* The destructor and EnterProcOutVirtualDevice: neither asks whether the device
\* is able, and a channel without a virtual device uses its first device's filter.
Hears(c, r) ==
  LET f == config[c].devices[config[c].virtual] IN
  r.pri >= f.pri /\ ~OutOfRange(f, r.cat) /\ ~Masked(f, r.cat)

\* Mutant: a record of the target channel is transmitted to itself.
TransmitsAlways(c, r) == Hears(c, r) /\ ~BlockInput(Target, r.pri, r.cat)

\* The hook calls TransmitChannel, which turns back on the target channel itself.
Transmits(c, r) == Hears(c, r) /\ Target # c /\ ~BlockInput(Target, r.pri, r.cat)

\* What the options of README.md say a device of channel c takes.
Accepted(f) ==
  {m \in Priorities \X Categories :
     /\ m[1] >= f.pri
     /\ f.count = 0 \/ m[2] \in f.begin .. f.begin + f.count - 1
     /\ f.mask = {} \/ m[2] \in f.mask}
Wanted(c, pri, cat) ==
  {d \in DOMAIN config[c].devices :
     LET f == config[c].devices[d] IN
     /\ f.able /\ f.in_null /\ f.out # "virtual"
     /\ <<pri, cat>> \in Accepted(config[c].filter) \cap Accepted(f)}
----------------------------------------------------------------------------
(* The log call                                                            *)

\* The macros and the constructor ask BlockInput first.  What a stopped channel turns
\* away is no judgement of its filters.
Log(p) ==
  /\ At(p, "idle") /\ calls < MaxCalls
  /\ calls' = calls + 1
  /\ \E c \in Channels, m \in Messages :
       LET pri == m[1]  cat == m[2] IN
       IF BlockInput(c, pri, cat)
       THEN /\ last' = Judged({}, Wanted(c, pri, cat), ~Open(c))
            /\ UNCHANGED call
       ELSE /\ call' = [call EXCEPT ![p] =
                 [pc |-> "hold", n |-> calls', chl |-> c, pri |-> pri, cat |-> cat,
                  wanted |-> Wanted(c, pri, cat), stale |-> FALSE]]
            /\ UNCHANGED last
  /\ UNCHANGED <<states, config, queue, updates, delivered>>

\* HoldChannel waits for room; InitLogData resets the record and the
\* constructor writes the prefix.
HoldChannel(p) ==
  LET c == call[p].chl IN
  /\ At(p, "hold") /\ Running(c) /\ Len(queue[c]) < Capacity
  /\ queue' = [queue EXCEPT ![c] = Append(@, Cell(p, Prefix, FALSE))]
  /\ call' = [call EXCEPT ![p].pc = "write"]
  /\ UNCHANGED <<states, config, calls, updates, last, delivered>>

\* HoldChannel gives up on a channel that is stopped, and the record with it.
HoldStopped(p) ==
  /\ At(p, "hold") /\ ~Running(call[p].chl)
  /\ call' = [call EXCEPT ![p] = Idle]
  /\ UNCHANGED <<states, config, queue, calls, updates, last, delivered>>

\* The lengths a record of len bytes can have after one operation of the stream:
\* write_buffer clips the text; a number, pointer, float or date needs Reserve
\* free bytes; LogBlankAlign fills up to a column; LOG_FORMAT, which follows the
\* prefix, clips what snprintf clipped.
Text(len)   == {len + Smaller(n, LOG_SIZE - len) : n \in 1 .. LOG_SIZE + 1}
Number(len) == IF len + Reserve <= LOG_SIZE THEN {len + n : n \in 1 .. Reserve} ELSE {len}
Align(len)  == IF len + Blanks < LOG_SIZE THEN {Larger(len, Blanks)} ELSE {len}
Format(len) ==
  IF len = Prefix
  THEN {len + (IF n >= LOG_SIZE - len THEN LOG_SIZE - len - 1 ELSE n) : n \in 0 .. LOG_SIZE}
  ELSE {len}

Write(p) ==
  LET c == call[p].chl  k == Held(p, c)  len == Record(p).len IN
  /\ At(p, "write")
  /\ \E l \in Text(len) \cup Number(len) \cup Align(len) \cup Format(len) :
       queue' = [queue EXCEPT ![c][k].len = l]
  /\ UNCHANGED <<states, config, call, calls, updates, last, delivered>>

SetCategory(p) ==
  LET c == call[p].chl  k == Held(p, c) IN
  /\ At(p, "write")
  /\ \E cat \in Categories :
       queue' = [queue EXCEPT ![c][k].cat = cat, ![c][k].stale = TRUE,
                                ![c][k].wanted = {}]
  /\ UNCHANGED <<states, config, call, calls, updates, last, delivered>>

\* ~LogStream: first the hook, in the logging thread, then PushLog.
Destroy(p) ==
  LET c == call[p].chl  r == Record(p) IN
  /\ At(p, "write")
  /\ IF Transmits(c, r)
     THEN /\ queue' = [queue EXCEPT ![c][Held(p, c)].heard = TRUE]
          /\ call' = [call EXCEPT ![p].pc = "transmit", ![p].pri = r.pri, ![p].cat = r.cat,
                        ![p].wanted = Wanted(Target, r.pri, r.cat), ![p].stale = FALSE]
     ELSE /\ call' = [call EXCEPT ![p].pc = "push"]
          /\ UNCHANGED queue
  /\ UNCHANGED <<states, config, calls, updates, last, delivered>>

\* HoldChannel inside TransmitChannel: the thread waits for room in the target
\* while it holds a cell of its own channel.  The record is copied, length and all.
TransmitHold(p) ==
  /\ At(p, "transmit") /\ Running(Target) /\ Len(queue[Target]) < Capacity
  /\ queue' = [queue EXCEPT ![Target] = Append(@, Cell(p, Record(p).len, TRUE))]
  /\ call' = [call EXCEPT ![p].pc = "copy"]
  /\ UNCHANGED <<states, config, calls, updates, last, delivered>>

\* TransmitChannel on a stopped target: there is no copy, or it stays unready.
TransmitStopped(p) ==
  /\ At(p, "transmit") \/ At(p, "copy")
  /\ ~Running(Target)
  /\ call' = [call EXCEPT ![p].pc = "push"]
  /\ UNCHANGED <<states, config, queue, calls, updates, last, delivered>>

\* Mutant: the record is left as long as it is, and the newline follows.
PushedUnclipped(len) == len + 1

\* PushChannel makes room for the newline and the terminating zero.
Pushed(len) == Smaller(len, LOG_SIZE - 2) + 1

Ready(c, k, len) ==
  queue' = [queue EXCEPT ![c][k].ready = TRUE, ![c][k].len = Pushed(len)]

\* Mutant: TransmitChannel fills the slot and returns without pushing it.
TransmitPushNot(p) ==
  /\ At(p, "copy") /\ Running(Target)
  /\ call' = [call EXCEPT ![p].pc = "push"]
  /\ UNCHANGED <<states, config, queue, calls, updates, last, delivered>>

\* TransmitChannel's own PushChannel.
TransmitPush(p) ==
  /\ At(p, "copy") /\ Running(Target)
  /\ Ready(Target, Held(p, Target), queue[Target][Held(p, Target)].len)
  /\ call' = [call EXCEPT ![p].pc = "push"]
  /\ UNCHANGED <<states, config, calls, updates, last, delivered>>

PushChannel(p) ==
  LET c == call[p].chl IN
  /\ At(p, "push") /\ Running(c)
  /\ Ready(c, Held(p, c), Record(p).len)
  /\ call' = [call EXCEPT ![p] = Idle]
  /\ UNCHANGED <<states, config, calls, updates, last, delivered>>

\* PushChannel on a stopped channel returns before it touches the record, whose cell
\* is never ready.
PushStopped(p) ==
  /\ At(p, "push") /\ ~Running(call[p].chl)
  /\ call' = [call EXCEPT ![p] = Idle]
  /\ UNCHANGED <<states, config, queue, calls, updates, last, delivered>>
----------------------------------------------------------------------------
\* The channel's thread takes the first cell once it is ready; what lies
\* behind one that a stop left unready stays where it is.
Dispatch(c) ==
  /\ queue[c] # <<>> /\ Head(queue[c]).ready
  /\ LET r == Head(queue[c]) IN
     /\ last' = Judged(DispatchLog(c, r), r.wanted, r.stale)
     /\ delivered' = IF r.copy THEN delivered \cup {r.n} ELSE delivered
  /\ queue' = [queue EXCEPT ![c] = Tail(@)]
  /\ UNCHANGED <<states, config, call, calls, updates>>

Staled(r) == [r EXCEPT !.stale = TRUE, !.wanted = {}]

\* SetChannelConfig and BatchSetChannelConfig store one field.
SetChannelConfig(c, other) ==
  \E f \in DOMAIN config[c].filter :
    config' = [config EXCEPT ![c].filter[f] = other[c].filter[f]]

\* SetDeviceConfig and BatchSetDeviceConfig store one field.
SetDeviceConfig(c, other) ==
  \E d \in DOMAIN config[c].devices, f \in {"able", "pri", "begin", "count", "mask"} :
    config' = [config EXCEPT ![c].devices[d][f] = other[c].devices[d][f]]

\* HotUpdateLogger takes over the filters of another configuration, and so do the
\* Set functions, field by field and without any lock.
Configure(c) ==
  /\ updates < MaxUpdates /\ updates' = updates + 1
  /\ \E other \in Configs : SetChannelConfig(c, other) \/ SetDeviceConfig(c, other)
  /\ config' # config
  /\ call' = [p \in Producers |-> IF At(p, "idle") THEN Idle ELSE Staled(call[p])]
  /\ queue' = [q \in Channels |-> [k \in DOMAIN queue[q] |-> Staled(queue[q][k])]]
  /\ UNCHANGED <<states, calls, last, delivered>>

\* StopLogger closes all filters, then StopChannels stops one channel after another; in
\* what order, and how long each join takes, does not matter here.
StopLogger ==
  /\ logger_state = "RUNNING" /\ logger_state' = "CLOSING"
  /\ UNCHANGED <<channel_state, config, queue, call, calls, updates, last, delivered>>

StopChannel(c) ==
  /\ logger_state = "CLOSING" /\ Running(c)
  /\ channel_state' = [channel_state EXCEPT ![c] = "WAITING_FINISH"]
  /\ UNCHANGED <<logger_state, config, queue, call, calls, updates, last, delivered>>

Step(p) ==
  \/ HoldChannel(p) \/ Destroy(p) \/ TransmitHold(p) \/ TransmitPush(p) \/ PushChannel(p)
  \/ HoldStopped(p) \/ TransmitStopped(p) \/ PushStopped(p)

Next ==
  \/ \E p \in Producers : Log(p) \/ Write(p) \/ SetCategory(p) \/ Step(p)
  \/ \E c \in Channels : Dispatch(c) \/ Configure(c) \/ StopChannel(c)
  \/ StopLogger

Init ==
  /\ logger_state = "RUNNING" /\ channel_state = [c \in Channels |-> "RUNNING"]
  /\ config \in Configs
  /\ queue = [c \in Channels |-> <<>>]
  /\ call = [p \in Producers |-> Idle]
  /\ calls = 0 /\ updates = 0
  /\ last = [got |-> {}, wanted |-> {}]
  /\ delivered = {}

Spec == Init /\ [][Next]_vars

\* Threads keep running: a log call that can go on does, and a channel's thread
\* takes what is ready while the channel runs.  Beginning a call, changing a filter and
\* stopping are free.
FairSpec ==
  /\ Spec
  /\ \A p \in Producers : WF_vars(Step(p))
  /\ \A c \in Channels : WF_vars(Running(c) /\ Dispatch(c))
----------------------------------------------------------------------------
(* Properties                                                              *)

\* Whatever the stream operations wrote, a record never runs over its slot, and
\* a pushed one keeps a byte for its terminating zero (write_buffer, LOG_FORMAT,
\* PushChannel, the copy made by TransmitChannel).
ContentFits ==
  \A c \in Channels : \A k \in DOMAIN queue[c] :
    /\ queue[c][k].len <= LOG_SIZE
    /\ queue[c][k].ready => queue[c][k].len < LOG_SIZE

\* The filters are written out three times.  Unless somebody changed a filter or
\* the category on the way, a record reaches exactly the devices whose options
\* ask for it, and a record that BlockInput turned away was wanted by none.
FiltersAgree == last.got = last.wanted

\* The hook runs before the push: a record that was transmitted is not ready in
\* its own channel until its copy is ready in the target or already delivered, unless
\* the target has been stopped.
CopyComesFirst ==
  \A c \in Channels : \A k \in DOMAIN queue[c] :
    LET r == queue[c][k] IN
    r.ready /\ r.heard =>
      \/ r.n \in delivered
      \/ \E j \in DOMAIN queue[Target] :
           LET s == queue[Target][j] IN
           s.copy /\ s.ready /\ s.n = r.n
      \/ ~Running(Target)

\* Nobody waits for ever, although a thread may wait for room in the target
\* while it blocks its own channel, and although either may be stopped meanwhile: in the
\* end every call has returned and a channel that still runs has dispatched every record.
Drains ==
  /\ <>[](\A p \in Producers : At(p, "idle"))
  /\ <>[](\A c \in Channels : Running(c) => queue[c] = <<>>)
=============================================================================
