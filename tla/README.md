# A formal model of fn-log

fn-log is a header-only C++ logging library (`src/include/*.h`; the single
header in `dist/` is generated from them). Threads write records into the ring
buffer of a *channel*, and the channel hands them to its *devices* (file,
screen, UDP, virtual). A *logger* owns a few channels, a configuration that can
be changed while it runs, and, optionally, shared memory from which a restarted
process recovers what a crashed one had not written.

This directory holds TLA+ modules of the parts whose correctness depends on the
order in which things happen, TLC instances of them, and proofs for TLAPS.

    tlc -config async.cfg MCChannel      # and so on, see "Runs"
    tlapm ChannelProofs.tla              # and each other module named *Proofs

Paths below are relative to the repository.

## Inventory

| Component | State | Operations | Interacts with | Modelled |
|---|---|---|---|---|
| Channel ring (`fn_channel.h`) | four wrapping indices, a mark and a record per slot, `channel_state_` | `HoldChannel`, `PushChannel`, `EnterProcChannel` | every logging thread, the channel's thread, start and stop | `Channel` |
| Lifecycle (`fn_core.h`) | `logger_state_`, `state_lock_`, `async_threads`, `channel_state_` | `ParseAndStartLogger`, `LoadAndStartLogger`, `StartLogger`, `StopLogger`, `StartChannels`, `StopChannels`, `CleanChannels` | creates and joins channel threads, empties rings, closes files | `Lifecycle`, `CleanChannels` in `Recovery` |
| Hot update (`fn_load.h`) | `yaml_mtime_`, `last_hot_check_`, the config fields of channels and devices | `HotUpdateLogger` at the end of every pass of `EnterProcChannel` | `state_lock_` shared with start and stop; fields read without lock by filters and devices | locking in `Lifecycle`, changing filters in `LogStream` |
| Shared memory (`fn_load.h`) | an `SHMLogger` that outlives the process | `LoadSharedMemory`, `UnloadSharedMemory` | rewrites marks and indices before the first start | `Recovery` |
| Filters (`fn_channel.h`) | priority, category, identify windows and masks of channel and devices | `BlockInput`, `DispatchLog` | decide before the claim and again at the dispatch | `LogStream` |
| Transmission (`fn_channel.h`, virtual device) | none of its own | `TransmitChannel`, `EnterProcOutVirtualDevice` | a logging thread holds a slot in two channels | `LogStream` |
| Stream (`fn_stream.h`, `fn_macro.h`) | the record being written | `LogStream`, its operators, `LOG_FORMAT` | claims in its constructor, pushes in its destructor | `LogStream`; claim and push in `Channel` |
| File device (`fn_out_file_device.h`, `fn_file.h`) | the open file, its size, creation day and hour, last failure | `EnterProcOutFileDevice`, `OpenFileDevice`, `rollback` | called by `DispatchLog`, closed by `StopLogger` | `FileDevice` |
| Parser (`fn_parse.h`) | `LexState`: position, line, `line_no_`, channels read so far | `Lex`, `ParseLogger`, `ParseChannel`, `ParseDevice`, `ParseBitArray` | fills the configuration for start and hot update | `Lexer`, `Parser` |
| UDP, screen and empty devices | sockets, a lock | output | | no |
| Formatting (`fn_fmt.h`) | the cached date of a thread | digits of numbers and dates | | no |

What makes each hard, and what correctness means:

* **Channel.** No locks: the four indices are advanced by compare-exchange on
  wrapped values, marks say who may touch a slot, any pusher publishes any
  ready slot, and on a sync channel any pusher processes. Right means: a slot has
  one owner at a time; only complete records are dispatched, each once, in
  claim order where one thread dispatches; nothing ready is stranded, no slot is
  lost; a stop drains what was published and ends.
* **Lifecycle.** Flags tested without the lock and again under it, a
  handshake by polling, a join under the lock. Right means: state goes round in
  order, *running* implies every channel is served, a stop or a failed start
  leaves no thread behind, calls return.
* **Hot update.** A thread that tested the state outside the lock copies a
  configuration under it, field by field under the eyes of the filters.
* **Shared memory.** A crash leaves indices and marks as any step of the channel
  left them. Right means: nothing half-written passes for a good record,
  nothing acknowledged is lost, what is dispatched twice is bounded, and the
  logger comes up again.
* **Log call.** The filters are written three times and looked at twice, the hook runs
  on a held slot and may wait for another channel, every operation of the
  stream tests the room in its own way.
* **File device.** Size, day and hour rules applied to records that arrive
  slightly out of order, failures retried by record time. Right means: files kept
  hold the newest records, each file respects its limit and its day.
* **Parser.** Three functions that call each other over one position and hand
  lines back, keys told apart by some of their characters. Right means: each line
  goes where its indentation puts it, errors name their line, and it ends.

The individual hazards, each at its line, are listed under `hazards` in
`PROJECT.json`.

## Modules

### Channel

One channel of a started logger. `Producers` run `LogStream` (claim, fill,
push) over and over; `Consumer` is the thread of an async channel; on a sync
channel every producer goes on from `PushChannel` into `EnterProcChannel`
(`Workers`). `pc` is a thread's place in these three functions; each action is
one access to a shared word, in program order:

| Actions | Code |
|---|---|
| `StartLog` | `LogStream`'s constructor past `BlockInput` (`fn_stream.h:123-133`) |
| `HoldState` .. `HoldMark` | `HoldChannel` (`fn_channel.h:429-474`) |
| `Fill` | `InitLogData` and the stream operators |
| `PushState` .. `PushExit` | `PushChannel` (`476-524`) |
| `ProcLoad` .. `ReadCas` | the inner loops of `EnterProcChannel` (`106-183`) |
| `Tick` .. `Finish` | the outer loop (`186-189`, `262-268`) |
| `Stop` | `StopLogger` / `StopChannels` up to the join (`fn_core.h:76-96`) |

`hold_idx`, `write_idx`, `proc_idx`, `read_idx` are the code's own wrapped
values in `0 .. BUFFER_LEN-1`, so the model has no unbounded counter and needs no
bound besides its constants. `old_idx[t]` is the local variable of that name:
`EnterProcChannel` reuses one for both of its loops, and so does the model.
`log[t]` is the slot a thread's `LogData&` refers to, `out` the record the devices
saw last.

Assumptions:

* *Sequential consistency.* The indices and marks are `std::atomic`;
  `channel_state_` and `logger_state_` are plain integers read and written by many
  threads. The model gives them single, ordered accesses. `Tick`, which tests and
  sets `channel_state_`, is one step: only a stopped sync channel has another
  writer between its two accesses, and its stores change nothing that
  storing a moment later would not.
* *Unlapped.* An exchange compares wrapped values. It can be fooled
  by a thread that sleeps between its load and its exchange while the ring goes
  once round (10^3 records by default). `Lapping = FALSE` rules out exactly that:
  an index does not move to a value that some thread has loaded and not compared
  yet. With `Lapping = TRUE` TLC finds a slot overwritten before it was taken.

### LogQueue, ChannelRefinement

`LogQueue` says what a channel promises, without ring, marks or threads. A cell is
reserved (`Reserve`) before its record exists and filled in any order (`Commit`); the
record of a filled cell that no unfilled one precedes is delivered once, unchanged
(`Deliver`), first-come first-served if one thread delivers (`Ordered`); room is given
back from the delivered cells at the front (`GiveBack`), and there are never more than
`Capacity` cells. `ChannelRefinement` maps a `Channel` to it: the cells are the slots
from `read_idx` to `hold_idx`, filled when the slot is marked ready, delivered when a
worker is past `DispatchLog` with it; `Capacity` is `BUFFER_LEN - 1`. So `HoldCas` is
`Reserve`, `PushReady` is `Commit`, `Dispatch` is `Deliver`, `ReadCas` is `GiveBack` and
all the rest stutters. `ImplementsQueue` is a property of the runs `async` and `sync`
and a theorem.

### Lifecycle

Any number of `Callers` start (`ParseAndStartLogger`) and stop (`StopLogger`) a
logger with the channels `1 .. ChannelSize`. `owner` is the holder of `state_lock_`
(recursive, but the depth never matters), `joinable[c]` that of `async_threads`,
`cursor[t]` the loop variable of `StartChannels` / `StopChannels`, `thread[c]` the
place of the thread inside channel `c`'s `EnterProcChannel`: the channel's own thread,
or, on a sync channel, a thread that logs and passes through. One visitor at a time
per sync channel is modelled; visitors interact only through `state_lock_` and
`channel_state_`.

`StartTry`, `StopTry` and `HotTry` are the tests without the lock, `StartInUse`,
`StopNotRunning` and the branch in `HotLock` those under it. `StartTimeout` may
happen whenever the thread has not come round: the hundred polls of 10 ms are not
counted. `Channel` and `Lifecycle` share `channel_state`; the ring's side of
a stop (draining) is checked in the first, the thread's side in the second.

### Recovery

One async channel's ring over several lives of the logger and of its process.
`phase` is what the process does: `down`, `create` and `recover` inside
`LoadSharedMemory`, `running`, `closing` (the thread drains), `clean_*` between
the stores of `CleanChannels`, `stopped`. `Crash` may happen at any of them and
leaves the ring as it is, if `shared`. The ring's functions take one step for each
effect a crash can fall behind; how the loads and exchanges inside such a step
interleave is `Channel`'s subject. `cell[s]` says which record a slot holds,
whether its producer finished it, and whether recovery tagged it with
`!!!core recover!!!`. What `RepeatsBounded` counts is kept in `sent`, the records that
were dispatched, and `repeats`, how often one of them was dispatched again without the tag.
`InFlightStop` says whether a stop may come while a
producer holds a slot: the code permits it, and the run `reboot` shows what comes of it.

### LogStream

A log call from the filters to the devices. Each channel is a queue of cells, the
promise of `LogQueue`, which `Channel` is checked to implement. `Log`
is `BlockInput`, `HoldChannel` the rest of the constructor, `Write` one stream
operation (its effect on the length), `Destroy` the hook with its filter,
`TransmitHold` and `TransmitPush` what `TransmitChannel` does inside the hook,
`PushChannel` the push, `Dispatch` the channel's thread with `DispatchLog`.
`StopLogger` and `StopChannel` begin a stop at any moment; a call that is under way
then fails at its next test of the channel's state (`HoldStopped`, `TransmitStopped`,
`PushStopped`) and leaves the cell it holds unready for good. What else a stop does, the
joins and the clearing of the rings, is in `Lifecycle` and `Recovery`.
`Configure` stores a field of a filter at any moment, as the hot update and
`SetChannelConfig` / `SetDeviceConfig` do. A record's numbers, masks and text
are reduced to priority, category and length; `identify` is filtered by
the same code as the category and is left out. The assumption on `Configs` says what the
model's hot updates do: filters differ between two configurations, devices do not
(those a hot update appends are left out, see "Not modelled").

### FileDevice

One step is the whole of `EnterProcOutFileDevice` for one record, under the
channel's lock or in its only thread. Files are sequences of record numbers, so
that what a roll loses can be compared with the set of what was `written` under a name.
The calendar is a constant, `DayStart`, the instants at which the local days begin. The
run's has a short, a long and a usual day in half hours: `create_day + 24 * 3600` is not
the end of the first two; the proofs hold for any. Opening may fail in both ways the code
tells apart, writes may fail, and `Restart` closes the file and keeps or clears the counters (shared memory or heap).

### Lexer, Parser

`Lexer` is `Lex` with one step per character; the text is chosen while it is
read. With nothing left to read it returns without counting a line (`Nothing`), so that an
empty text has none. `ParseBitArray` is an operator (`Round` is one round of its loop), compared with a
reference on every list value that occurs.

`Parser` is the three mutually recursive functions with one step per line;
`level` is the function that runs, `held` the line a function set the position
back to; `Ends` is the end of a device, on which `ParseChannel` looks whether it was
a virtual one, also when the text ended or went wrong inside it. `ParseReserve` is the
table of its tests in their order, applied to the keys of the manual. The values are
reduced to what the code looks at. `LoggerDefine` is `define` and `var` with their errors;
as the text is chosen line by line, what a replacement makes of the lines to come is any
text, unless the replacement does not end (`Replacing`). `PastZero` says whether there is
a zero before `end_`, at which `Lex` stands still (`fn_parse.h:1002-1007`): a text behind a
byte order mark always has one. `open` remembers the headers the next line may lie
under, by their indentation alone; `astray` becomes true when the function that takes a
line is not the one they put it under, or takes it for another key than the manual's
(`KeysReachTheirOwner`). `KeysTold` says that the tests of `ParseReserve` tell the keys
apart; `MCParser` assumes it of all keys of the manual, so that TLC evaluates it.

## Runs

| Run | Instance | Shows |
|---|---|---|
| `async` | 2 producers, 3 slots, 2 data, symmetry | safety of an async channel, refinement of `LogQueue` in order, that `IndInv` holds |
| `async_live` | 2 producers, 2 slots, fairness | dispatch, the join returns |
| `sync` | 2 producers that are also workers, 3 slots, fairness | nothing stranded, liveness with competing workers, refinement without order |
| `lifecycle` | 2 callers, 2 async channels and 1 sync, fairness | order of states, nothing left behind, calls return |
| `recovery` | 2 producers, 3 slots, 3 records, 2 crashes, 1 stop, fairness | crash recovery, at-least-once delivery, restarts |
| `parser` | all keys, 3 indentations, 6 lines, 2 channels and devices, no zero before `end_`, fairness | ownership of keys, line numbers, virtual device, an end but for a definition that replaces itself |
| `lexer` | 12 kinds of character, 7 characters | meaning of a line, line numbers, lists |
| `file_device` | 7 configurations, 4 records, 1 failure, 1 restart | rolling, limit, day, retry |
| `log_stream` | 2 producers, 2 channels of 1 cell, 2 calls, 1 change of a filter, a stop, fairness | filters, lengths, order of copy and original, no waiting for ever |
| `lifecycle_hotupdate`, `reboot`, `parser_bom` | small | expected violations, see "Findings" |

**Why the bounds are enough.** *Channel*: each window between a load and its
exchange involves two threads and the slots next to one index. Two producers give
every pair of producers at each of their steps, with the worker as third party. A
ring of three has empty, partial and full states, two claimed slots at a time (an
unready one before a ready one) and wraps constantly; in a ring of two the full
and the empty state are one step apart, which is the worst case for liveness. A sync
channel with three producers (5,983,226 states) shows nothing new.
*Lifecycle*: two async channels are needed for a start that fails
after one that succeeded, and two callers for every race on the lock.
*Recovery*: three records and three slots make the ring wrap; two crashes
put one inside the recovery of the other. *Parser*: six lines are the shortest text with
a channel, two devices, an option behind each, and a return to the top; limits of two
channels and two devices are reached and exceeded. *Lexer*: seven characters hold a
key, a separator, a quoted or bracketed value with a blank and a comment, or a range
between two numbers. *FileDevice*: four records fill a file of two, roll, and fill it
again; one failure and one restart fall between any two of them. *LogStream*: channels
of one cell are full as soon as a slot is held, which is the worst case for waiting;
records of three bytes put every test of the room at its edge. Two calls give each
producer one, or one producer two; three calls without a change of filters show nothing
new, and with one TLC takes too long. `MaxCalls` also ends the
competition for a cell, which the code decides by compare-exchange without fairness:
a producer that starves in `HoldChannel` is not what `Drains` is about.

**Deadlock** is not checked: a logger nobody uses is at rest, a stopped
channel with slots held for ever is a state the code reaches, and the texts and
records of the other models end.

**Fairness.** Weak fairness of every thread that is inside the library: the code never
blocks on anything but `state_lock_` and the sleeps of its polling loops, and the
operating system runs every runnable thread. `StartLog`, `StartTry`, `StopTry`, `Stop`,
`Enter`, `Log`, `Claim`, `StopAsk`, `StopLogger`, `StopChannel`, `Crash` and `Configure` have none: nobody has to
log, start, stop, crash or change a filter. `Load` is fair: a service manager starts a
process that is down. The lock is not assumed fair. What liveness asserts of a
channel ends when it is asked to stop (`Running`), because the code then gives up
held slots; what it asserts of a call excepts the two hangs described below.

## Findings

* `lifecycle_hotupdate`: `StopLogger` joins a thread that waits for the lock
  `StopLogger` holds (`fn_core.h:96`, `fn_load.h:326`).
* `reboot`: `CleanChannels` does not wait for producers that are inside `PushChannel`. A
  record is marked ready before the stop; its publication moves `write_idx_` after
  `CleanChannels` has zeroed it (`fn_core.h:163`) and before it zeroes `hold_idx_`
  (`fn_core.h:164`), which leaves `write_idx_` ahead. After the restart the first slot that
  is claimed counts as published, and is dispatched half-written.
* `parser_bom`: a configuration that begins with a byte order mark is parsed
  for ever (`fn_parse.h:1414`), as is any text with a zero in it.

Seen while modelling, and described rather than run:

* A thread that leaves `EnterProcChannel` on a sync channel stores `RUNNING` over the
  `NULL` of `StopChannels` (`fn_channel.h:186`).
* `PushChannel` reads the slot for its statistics after giving it away
  (`fn_channel.h:498-499`).
* A start that times out joins a thread it never asked to finish
  (`fn_core.h:56-60`, `90-96`), the exception `Abandoned` in `StartReturns`.
* The comment "this branch will not hit" (`fn_channel.h:119`) is right for an async
  channel (proved) and wrong for a sync one, where workers do lose the exchange, harmlessly.
* A crash between the stores of `CleanChannels` repeats up to a ring of old records
  without the tag (the second term of `RepeatsBounded`), and a crash before the segment
  is stamped leaves one that every start refuses (`fn_load.h:86`, the exception in
  `Restarts`). Recovery looks at the channels of the last configuration only (`fn_load.h:93`).
* With daily rolling, the first hour after a 23-hour day goes to the day before, and a
  25-hour day is rolled an hour early (`fn_out_file_device.h:216`). With `stuff_up` a file
  that is opened again is appended to before its size is looked at. A record whose write
  fails is counted all the same. `limit_size` without `rollback` never closes a file.
* Channels without a virtual device use device 0's filter and counters for the hook,
  since `virtual_device_id_` is zeroed (`fn_stream.h:230`); a disabled virtual device still
  hears (`README.md:283-285` says disabled devices are ignored).
* Two channels that transmit to each other can wait for each other: each thread holds a
  slot in one ring and waits for room in the other.
* A `define` or `var` whose value is what it replaces (`define: X X`, `var: a=$a`) is
  replaced by itself for ever if it occurs further on, in a comment even, since
  `PredefinedInplace` looks again where it has just written (`fn_parse.h:764-809`). C's
  `#define`, to which `README.md:225` likens it, does not. In `Parser` this is the step
  `Replacing`, and `Terminates` excepts it.
* For an undefined key the parser reports the next line's number; `udp_addr` before
  `disable: false` is neither checked nor resolved; a list that separates two numbers
  by a blank loses the second.

## Proofs

Every theorem holds for all values of the constants that the `ASSUME` of its module
allows. Those assumptions say what the constants are (a ring of at least two slots, a
calendar of increasing days, distinct names for threads) and what the code's own
constants guarantee (the prefix of a record fits into it). Some theorems have a further
hypothesis: `Lapping = FALSE` and `InFlightStop = FALSE` each single out a case in which the
property is false, and `KeysTold` is what TLC evaluates for the keys of the manual. A module
`M` is proved in `MProofs`, which has for each inductive invariant its conjuncts by name
and a lemma for each conjunct or each kind of step. Every invariant that a run checks is
proved, and so are the action properties and the refinement.

**Channel** (`ChannelProofs`). `TypeCorrect` holds with and without lapping; everything
else assumes `Lapping = FALSE`, without which TLC finds a slot overwritten.

* `Invariant` proves `IndInv`, and from it `Exclusion`, `Completeness`, `NoOverwrite` and
  `OrderedIndices`. `ExclusiveSlot` and `ClaimFree` say nothing of where a slot lies, so a
  step cannot be shown to keep them. `IndInv` adds where: with `Pos(i)` the distance of slot
  `i` from `read_idx`, the ring falls into the intervals read-to-proc (released, or in a
  worker's hands), proc-to-write (ready), write-to-hold (being written, or ready and
  unpublished) and hold-to-read (free): `SlotMarks`. `Writers` and `Readers` place each
  thread's slot in its interval, and `Windows` says that what a thread tested is still so
  if its exchange is going to succeed; this is where `Unlapped` is used. Most actions move
  only a thread's own `pc` and locals (`QuietStep`); four change one slot, four move an
  index, and each of these has its lemma.
* `AsyncSoleDispatcher`: on an async channel the exchange of `proc_idx` succeeds.
* `RecordNotStranded`, `SlotNotStranded`, `PublishedNotStranded`: a thread gives up only
  after it saw an index or a mark that was in its way, and whoever changes that later is
  watching itself. The invariants `RecordWatched`, `SlotWatched` and `PublishedWatched` say
  who that is: a thread at certain places, or at others with an index in hand that is
  not out of date. They need `FirstPass`: nobody logs before the channel is running.

**Refinement** (`ChannelRefinementProofs`). `ChannelImplementsQueue`: with
`Lapping = FALSE`, `Spec => Queue!Spec`, in order on an async channel, for any number
of competing workers without order on a sync one. `IndInv` puts each slot into its
interval, so that each of the four steps above changes the one cell that `LogQueue` says.

**Lifecycle** (`LifecycleProofs`). `LifecycleInvariant`, and from it `HotUpdateIsAlone`,
`RunningLoggerIsStarted`, `UninitLoggerIsQuiet` and the action property `LoggerCycles`,
for any callers and channels. The invariant says who holds the lock and what
`logger_state_` is then (`LockOwned`, `StateHeld`), what the channels of a logger at rest
look like (`Rest`), and how far the loops of `StartChannels` and `StopChannels` have come
(`Starting`, `Halting`): the channels before the cursor are up or down, those behind it
untouched.

**Recovery** (`RecoveryProofs`). `RecoveryInvariant`, `UntaggedRecordsAreWhole` and
`RepeatsAreBounded` assume `InFlightStop = FALSE`; with `TRUE` the second is false, which the
run `reboot` shows. The invariant keeps what survives a crash apart from what does not:
`Ordered`, `FreeUnmarked` and `HalfHidden` hold in every state a crash may leave (a half-written record lies
between `write_idx` and `hold_idx`, where the recovery looks); `Cleaning` follows
`CleanChannels` store by store; `Owned`, `Published` and `Working` hold of a process that runs.

* `RepeatsAreBounded`: the bound itself is not inductive, for a crash does not repeat
  anything yet, it only makes it possible. `Paid` therefore counts the repetitions to come
  with those that were: `repeats`, and the slots in `Again`, whose record was dispatched before
  and waits, untagged, to be dispatched once more. A dispatch moves one from the second to
  the first; a crash adds to the second at most the one slot that was dispatched and not given
  back, and a crash between the stores of `CleanChannels` at most a ring without one, which is
  what the right side grows by. `Numbers` (no record is in two slots) and `Unsent` (what is not
  published has not been dispatched, unless it is tagged) keep every other step from adding one.

**Log calls** (`LogStreamProofs`). `LogStreamInvariant`, and from it `RecordsFit`,
`FiltersConcur` and `CopyIsFirst`. The invariant says which cells a call has in hand
(`Holding`: one, or the original and its copy, and no other but those of a stopped channel
that it gave up, `Abandoned`), that no channel is stopped before the filters are closed
(`ClosedFirst`), that a record no filter change touched passes the filters and carries what
was wanted of it (`Fresh`), and that a record whose hook ran is not pushed before its copy
lies ready in the target or was delivered, or the target was stopped (`Heard`).

**Parser** (`ParserProofs`). `ParserInvariant`, and from it `ErrorLineIsRight` and
`VirtualDeviceIsLast`, for texts of any length, with and without a zero before `end_`. What
`ParseReserve` makes of a key plays no part. `Numbered` ties `line_no_` to the lines read and
the one handed back; `VirtualNamed` says which devices were looked at for being virtual.
`KeysReachOwner` is for any words, under the hypothesis `KeysTold`. Its invariant, `Placed`,
compares the function that runs with the headers that are open: `ParseDevice` runs under a
channel and a device that lies deeper, `ParseChannel` under a channel, or under both if it has
been handed a line that ends the device, `ParseLogger` under none, or holding a line that ends
them all (`Layout`).

**Lexer** (`LexerProofs`), for texts of any length over any characters.

* `LineNumbersCount`: `Counted` is the count (none for an empty text), `Paired` why it goes on being right: when a CR is
  behind and an LF ahead, Lex has passed an LF that no CR precedes, and the text does not write
  its line ends one way.
* `LineMeans`: the property speaks of a finished line, and takes its text apart with
  minima over positions; `MeaningInv` says the same by positions that exist (`Meant`: a colon
  with none before it, a quote with nothing but blanks before it, a closing one with none
  before it, blanks on either side of the value), and for an unfinished line what Lex knows so
  far, block by block (`InNone` .. `InClean`). `MeaningStep` has a lemma for each block and two
  for the ways a line ends; `StripIs`, `CodeIs`, `AfterIs`, `BlankIs` lead from the positions to
  the minima. That a nonempty set of positions has a least and a greatest member is the one
  induction (`SmallestExists`, by a minimal member of a well-founded relation).
* `ListsAreRead`: `ParseBitArray` is a recursive function of the position, so the first
  thing to show is that it exists (`SolExists`), going back from the end by a least
  counterexample, and that `atoi` does for one and two digits (`atoiIs`). `RoundNumber` and
  `RoundRange` say what a round of the loop reads and where it stops, `ItemRead` that the
  rounds between two commas set the bits of what stands there, and `AllRead` puts the items
  together, from the last to the first. The proof showed that an earlier form of the
  reference took nothing between two commas for an item, so that `BitList` spoke of lists
  without commas only.

**File device** (`FileDeviceProofs`). `FileDeviceInvariant`, and from it
`SkippedHasCause`, `FilesKeepTheDay` and the action property `RollsInTime`;
`RollingInvariant`, and from it `RollingLosesOldest` and `FilesRespectLimit`.

* The calendar is arbitrary, so that there is a day for every time, and one only, is a lemma
  (`DayOfIsLast`), as it is for hours (`HourIsUnique`). The first needs induction over the
  days, which is done with a least counterexample (`SmallestExists`).
* `OpenFile` and `InPeriod` say in which day or hour the open file was opened, and that the
  last record lies in it; `FilesFit` what files hold; `LastTry` that `last_try_timestamp_`
  is that of a failure which nothing but skipped records followed.
* `Keeps` is `RollingKeepsNewest`, which is inductive; each of `rollback`, `open`
  and the write has a lemma. A gap in the chain of names, which a failed open behind a roll
  leaves, stops the next roll early and loses nothing.
* A file exceeds the limit only if it is opened full, with `stuff_up`. That a file is left
  full and opened again without a roll takes a restart, a failed open, a failed write, or a
  return to the name of an earlier day; each is counted by `OpenedAgain`, and each allows one
  record more. But the count must rise *before* the record: `Reopenable` says which files
  could be opened without anything being counted (those of the last name and of later
  days), and for these `SizesFit` demands one record more of room.

**Only model-checked.** Liveness (`async_live`, `sync`, `lifecycle`, `recovery`, `parser`,
`log_stream`): out of this prover's reach, and so is everything that rests on `ENABLED`.

## Not modelled

* UDP, screen and empty devices: output without state of their own.
* The digits of numbers, dates and pointers (`fn_fmt.h`), the substitution of names and
  variables in file names, what `define` and `var` make of the lines to come: text
  processing whose results no other part depends on.
* Counters and statistics, the frequency limits of `fn_macro.h`.
* Devices that a hot update appends: what a reader sees depends on the order
  in which the compiler evaluates `fn_load.h:378`.
* The data race between `StopLogger` closing files and a sync channel's worker, and
  undefined behaviour that no order of steps brings about (shifts by 64 and more).

## Plan

Done: `Channel`, `LogQueue` and the refinement, `Lifecycle`, `Recovery`, `LogStream`,
`FileDevice`, `Lexer`, `Parser`, and proofs of all their invariants. Left are:

1. `Channel`: how many records a stop leaves behind (what `LoopDrain` guarantees), as a
   safety property.
2. `Recovery`: several channels, for recovery looks at those of the last configuration only
   (`fn_load.h:93`).
3. `Parser`: what `define` and `var` make of a text, once what they are to mean is written
   down.
