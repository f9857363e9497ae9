# TLA+ verification of the Team Attack plugin

The plugin is a Skyline module for one version of a console game. It places
hooks in the game's code, samples what the hooks see into lock-free stores,
writes the samples to a log from a thread of its own and, in one mode, changes
one byte of a rule proposal when every reviewed condition holds. It shares an
address space with a program it does not control: the game's threads call the
hooks at any time, and write the memory the hooks read. The models here are
about that: what the hooks, the installing thread, the writer thread, the game
and a power failure can do to each other.

Paths below are those of the repository as it is checked out under `src/`, so
the Rust sources are in `src/src/`.

## The system

| Component | Source | State | Operations |
|---|---|---|---|
| Capture store | `capture.rs` | `next`, and of each slot `state` and `value` | `try_capture` (any game thread), `take` (writer thread) |
| Application hooks | `application_probe.rs`, pure parts in `application.rs` | `EXPERIMENT`, `ACTIVE`, `ARMED_SESSION`, `CALLS`, `DROPPED`, 16 banks `EVENTS` | `observe` behind eight inline hooks, `mutate_if_guarded`, `install`, `start`, `stop_recording`, `drain` |
| Codec hooks | `codec_probe.rs`, layout in `codec.rs` | `ACTIVE`, two trampoline pointers, `CALLS`, `DROPPED`, `EVENTS` | `native_self_test`, `install`, `start`, `stop`, `observe`, `drain` |
| Installation and writer | `probe.rs`, `lib.rs` | `INSTALL_ATTEMPTED`, `WRITER_READY`, `ORIGINAL`, `CAPTURES`, `SERIALIZER_CALLS`, the writer's locals | `install`, the writer loop, `compact_serializer_observer` |
| Capture log | `capture_log.rs` | the session's file and a `BufWriter` | `create`, `event`, `status`, `watch`, `dump_written`, `append`, `flush` |
| Configuration | `config.rs` | none | `load`, `parse` and its value parsers |
| Validation | `validation.rs` | none | relations of the switches, signatures, branch targets, mapped regions |
| Global watcher | `watch.rs` | `WatchSchedule`: last observation and its time | `should_log`, `adrp_page`, `validate_mapping` |
| Log tools | `tools/*.py` | none | readers and reviews of finished logs |
| Release, binary and Ghidra tools | `tools/*.py`, `ghidra/*.py` | none | file processing |

How they interact:

- The game's main thread runs `lib.rs: main`, which loads the configuration and
  calls `install` once. `install` validates, creates the log, tests the codec,
  patches hooks one at a time while game threads already run through those that
  are in place, sets `WRITER_READY`, spawns the writer, patches the serializer
  and, if the writer is still there, starts recording.
- A hook samples into a store and never waits. The writer wakes every 250 ms,
  drains each store into the log, adds counts lines, and flushes. On the first
  failed write, or after twenty minutes, it clears `WRITER_READY` and both
  `ACTIVE` flags, and returns for good.
- The guarded write is in two of the eight application hooks. It reads game
  memory load by load, without a lock, and depends on `EXPERIMENT` only, not on
  recording.
- The log is read after the session, by tools that refuse what looks damaged.

What is hard here, and what makes each part correct:

- *Capture store.* Any number of producers and a scanning consumer share a slot
  array with non-atomic payloads. It is correct if no two threads are ever in
  one payload, and if what is accepted is delivered whole, once, under the
  number of its slot.
- *Guarded write.* The conditions are checked one by one while the game may
  change them, the local slot is put together from seventeen loads, and the
  session it arms is only an address. It is correct if no write is made by
  another hook, in another mode, or in a call in which a reviewed condition
  never held, if its events tell what it did, and if the experiment works at all,
  whatever has become of the recording.
- *Installation and writer.* Every step can fail with hooks in place, each hook
  has a moment when a caller can only abort, and the writer may end at any
  time, also before `install` has. It is correct if nothing is recorded
  without a writer, if nothing can abort the process once `install` has
  returned, if captures reach the log, and if recording ends.
- *Capture log.* A process may die, and power may go, at any time. It is correct
  if no session disturbs an earlier one, if what was flushed is there
  afterwards, and if the strict reader can read back what was written.

## The modules

### CaptureChannel and CaptureStore

`CaptureStore` has one action per atomic access of `try_capture` and `take`:
`Load`/`LoadFull` (the Relaxed load of `next`), `Reserve`/`LoseRace` (the weak
compare-exchange, which may also fail spuriously), `Sample`, `BeginWrite`,
`EndWrite` (the payload is `Torn` in between), `Publish`, and for a consumer
`Skip`, `Claim`, `Read`. The Relaxed load may return any value `next` has had
since the last one its thread knows. The Release store and Acquire
compare-exchange of a slot's state are sequentially consistent steps: they
order all that the model lets a consumer see. Consumers are as many as one
likes, although the plugin starts one: what two of them may not do is promised by
the API of the store. `ScanLength` is the number of slots that
a drain visits, which must cover the store's limit; `SizeAssumption` says so,
and it holds of the three drains of the plugin.

`CaptureChannel` is what the hooks and the writer count on: a bounded channel
that may refuse, numbers what it accepts, and delivers it once, in any order.
`ImplementsChannel` is the refinement, with publication as acceptance.

Run `capture_store` (two producers, two consumers, limit 3 of 4 slots, two
payloads) checks the invariants `TypeOK`, `ExclusiveSlots`, `IntactCaptures`,
`DeliveredOnce`, `ReservationsAccounted`, the action property
`SlotsAreSingleUse`, the liveness property `EveryReservationDelivered` and the
refinement with its fairness. Two of each kind of thread are what a race
needs; a limit below the capacity and at least two captures per producer let
an index run past both the limit and a lost race.

Fairness (`FairSpec`): a call that has begun ends, since it contains no loop and
no wait, and a consumer keeps scanning, since its loop only sleeps. Whether
the game calls a hook is not assumed.

### ProposalExperiment

The eight inline hooks share `observe`. A call of it here is a thread with a
program counter: `policy` (`Ignore`, `ReadPolicy`), `check` (`Check`, `Refuse`:
one load of one condition each, in the order of the code), `load` (`LoadWord`: one
of the loads of `local_slot`), `write` (`WriteProposal`, `WriteSource`), `readback`,
`arm`, `count`, `capture` (`Capture`, `Drop`), `return`. A condition on memory is
abstracted to whether it holds: `world` has those on the module's data, `session`
those on a session object. `table` and `localTeam` keep the values that are used
later: the words of a session that give the local slot (the identity and one per
entry, of which `LocalSlot` is `identity_slot`), and the local-copy source. The
arguments of `rule_submit` are a small record. Between any two steps the game may
`Change` any of it, one word at a time, or free a session whose address is used
again (`Reallocate`), and recording may start and stop.

The history variables `always` and `ever` keep, of each call, the conditions
that held throughout it and at some moment of it, `shown` the tables its session
had, `wrote` what the call has written and whether the game wrote over it. They
say what can and cannot be promised by code that reads without a lock:

- `WritesAreSanctioned`: every write is made in proposal mode, by the hook for
  it, in a call in which each other reviewed condition held at some moment, and
  for a slot that is the local one of a table of words each of which was in memory
  at some moment (`Loadable`).
- `EligibleProposalChanged`: a local proposal whose conditions hold throughout,
  its slot being the local one throughout (`HeldSlot`), leaves the hook changed,
  whether recording is on, off, or out of room (the defect of version 0.3.0). Other
  entries of the table may change meanwhile.
- `EventsTellTheTruth`: an event reports a changed proposal exactly if its call
  changed one, and shows Team Attack ON; it reports a mirrored source only if its
  call wrote that source, and must, and must show ON, unless the game wrote over it
  in between.
- `ArmedSourceMirrored`, `MirrorFollowsProposal`: with two threads and two
  sessions, the local copy is mirrored for the armed session, and only after a
  proposal of that session was changed, also when another session is armed between
  the comparison with `ARMED_SESSION` and the write.
- `CallsAccounted`: each counted call is stored, dropped, or about to be.

The conditions need not hold at the moment of the write: the game may change
what was loaded, which is why `WritesAreSanctioned` speaks of some moment of the
call. Of the local slot even that is not true. If the game gives the session another
identity after the first of the seventeen loads, and then writes the old identity to
an entry that is not yet loaded, the call computes the slot of that entry, which was
the local one at no moment. TLC refutes the stronger property, that the slot was the
local one at some moment of the call; the weaker one holds, and if the table does not
change during the call the two are the same. Whether the game ever
changes both words during a hook is not known from the plugin.

Likewise, an event of a mirrored source may show Team Attack OFF: the byte is
loaded anew for the event, after the read-back, and the game may have cleared it in
between. A reader of the log should take the reported action for what the hook did, and
the team byte for what was there a moment later.

One statement of the documents is stronger than the code, and a run that shows it
is expected to find a violation: `proposal_reused_session`. Nothing clears
`ARMED_SESSION`, so a session that is allocated at the address of an armed one is
mirrored with no changed proposal of its own. With `Reuse = FALSE` the same
property holds (`proposal_arming`).

Bounds. `proposal_guard`: one thread, two calls, two changes by the game, three
kinds of hook (the two that write and one that must not), five proposals (an
eligible one, and one per condition on the call that fails), `BankLimit` 1 so
that a second event finds its bank full. A table has two slots and two identities, and
begins with the local player's in either slot. Two changes let a condition go and come
back during a call, and are what it takes to tear the loads of the local slot: the
identity and an entry. `proposal_arming`: two threads, two sessions, three calls:
a proposal of each session and a copy, or a proposal and two copies.

Assumed of the game: a proposal buffer is the calling thread's own; the session
register of a hook is not null; the initialisation guard is only ever set.

### Observer

`Path(config)` is the list of steps of `install` for a configuration, in four
parts (`CodecHooks`, `ApplicationHooks`, `WriterThenHook`, `StartRecording`): one
step per call, store or load that another thread could see or that could fail.
`main` is the position in it. Which switches are refused is `SwitchesAgree` of
`Switches`, which `Configuration` uses for the same condition. `Proceed`, `Refuse` and `InstallAborts` are the outcomes
of checks; `Patch(h)` and `Publish(f)` are the two halves of replacing a
function: between them `EnterTooEarly` aborts, as the hook does when it finds
no original. The eight inline sites are one hook `application`. A game thread in
a hook goes through `original`, `count`, `capture`; the codec's hooks read
`ACTIVE` before and after the original. A store is a channel of `Room`
captures, which accepts or refuses and hands out each capture once: `Accept` or `Drop`,
then `Write`. That a store is such a channel under every interleaving of its atomic
accesses is what `ImplementsChannel` says of `CaptureStore`; the two are never in one
state space, and the step from one to the other is this description.

The writer's pass is `Wake`, `RecordInstalled`, `TestLimit`, then for each store
`Write` or `WriteFails` until the captures found at its start are taken
(`EndDrain`), `ReadCounts`, `LogCounts` or `SkipCounts`, then `Flush`. When
twenty minutes have passed is `Cadence`'s subject; here it happens at some time. Every
failure, and the limit, goes through `StopReady`, `StopCodec`, `StopApplication`
and ends the thread.

Run `observer_safety` (all sixteen configurations, two game threads, two calls,
room for one capture) checks:

- `CapturesHaveAWriter`: whatever is recorded, the writer was there first.
- `WriterGoneForGood`: `WRITER_READY` is never TRUE after the writer has ended,
  however early it failed.
- `NoAbortAfterInstall`: when `install` has returned, with whatever result, each
  patched function has its original.
- `CountsCoverTheLog`: a counts line never has fewer calls than the log has
  captures of that store before it.
- `LossesAreLast`: between two passes, where the limit is tested, the log has every
  capture that was accepted before the last pass (`atPass`), so that only later ones
  are lost to the limit; and a capture that is out of its slot and not in the log is one
  whose write failed, the only one of all stores, after which the writer takes no other.

Run `observer_liveness` checks `CapturesReachTheLog` and `RecordingEnds` for
three configurations that differ in what they record, one of them refused by
`validate_config`. Fairness: `install` runs on the main thread and waits for
nothing; the writer waits for a sleep only; a hook that was entered runs to its
end; time passes. That the game calls a hook is not assumed. A single call and
a single slot are enough for a capture to be late for a pass, for the limit and
for the start of recording.

Two runs find violations:

- `observer_stop_race`: the writer can fail between the test of `WRITER_READY`
  and `start`. Its own stop comes first, and recording then stays on with
  nobody to drain it, although "on write failure, observing stops".
- `observer_refused`: when the writer thread cannot be spawned the user is told
  that the experiment could not start, with the mutation already live.

`RecordingEnds` therefore speaks of recording that runs beside a writer.

Assumed: `INSTALL_ATTEMPTED` lets `install` run once, and a patch of one
instruction is seen by game threads at once or not at all.

### CaptureLog

A file is a sequence of lines; of their halves, the first `os` are in the file
and the first `synced` on the card. `TryNext` and `Reserve` are the loop over
file names with exclusive creation, `WriteHeader`, `Event`, `Status`, `Claim`
and `AppendDump` (`dump_written`, then `append`) format lines, of which any part
may reach the file at once; `FlushBuffer` and `Sync` are the two halves of
`flush`. `CreateFails`, `LineFails` and `Fails` are the error paths, with the
last flush of a dropped `BufWriter`. `ProcessDies` loses the buffer, `PowerLoss`
any part of what was not synced, from the end, `Archive` is the user who moves a
log away, and `Boot` begins the next process. `LastStatus` is the status of the
limit, whose result is ignored.

`Refused` is `read_log` of `tools/compare_dumps.py` on such a file. A line that is
cut in half is no dump line, but still a comment or a header.

Run `capture_log` (two file names, one header line, two captures, sessions of at
most five lines) checks:

- `EarlierSessionsPreserved`: no process changes a file that it did not create.
- `FlushedSurvives`: what a successful flush has covered survives everything.
- `LogsReadBack`: the reader refuses a file only for having no whole dump or
  ending in part of one, and an accepted file begins with every key of the
  header, in order, and has no other.

Five lines are a header, two statuses and a dump with its `dump_written`, or a
header and two dumps. Two names are one for the earlier session and one for the
next; a third process finds none left.

Assumed: a power failure takes the end of a file, never a middle part, and an
empty file that `CreateFile` made is there after it. The size limit of the
reader is the subject of `LogVolume`.

### Cadence

The clock of the writer's loop. `start` is the tick counter when the session
begins, `ticks` what has really passed since; `Elapsed` is the code's arithmetic:
the wrapping difference of two readings of the counter, then milliseconds. `Log`,
`Skip` and `Stop` are the three outcomes of a pass. They follow `WatchSchedule` of the
global watcher; the counts lines of the codec and of the application hooks repeat
its rule with locals of the loop. `sampled`, `lineAt`, `lines` and `changes` are
history.

Run `cadence` checks:

- `LogFollowsState`: every change that a pass sees is in the log, whichever part
  of the observation it is in.
- `HeartbeatKept`: after each pass, the last line is less than `HEARTBEAT_MS` old, so
  that the documents' "at least every five seconds" holds up to the pass that is
  due; and there are no more lines than changes and one for each `HEARTBEAT_MS`.
- `StopsOnTime`: the session ends in the first pass after the limit and in no
  earlier one.

Bounds: two ticks per millisecond, a counter of 128 values, a heartbeat of 7 ms, a
limit of 31 ms. The counter begins at both ends of its range and near its end, so
that it wraps around in the session or does not. Passes are 3, 3.5, 4.5 or 12 ms
apart: less than half a heartbeat, not whole milliseconds, and a sleep that is
longer than the heartbeat. The assumption that a session with one sleep more is
shorter than the counter's range holds of 64 bits at 19.2 MHz for 30,000 years. The
types are not checked by the run: `TypeCorrect` of CadenceProofs is about them.

### Inputs

What is checked before anything is hooked. The operators are in modules without
variables, one for each part of the code; `Inputs` has the states, which are the
inputs: its `kind`, and `input` itself, changed a step at a time by those that can
change it. Each property speaks of one or a few kinds.

| Module | Code | What it has |
|---|---|---|
| `ConfigValues` | value parsers of `config.rs` | the scan of `strip_comment`, the split into key and value, `ParseString`, `ParseUsize`, `DecodeHex`, and `from_str_radix` as the standard library defines it |
| `Configuration`, `Switches` | `load` and `parse` of `config.rs`, `validate_config`, the condition of `validate_source` on the configuration | from the lines of a file to the configurations that are `Admitted` |
| `Addresses` | `validation.rs`, `watch.rs`, `application.rs`, the queries of `probe.rs` | `BlTarget`, `AdrpPage`, `Region`, `Mapped`, `TableMapped`, `Row`, `ParticipantSlot`, `SignaturesValid` |
| `ReviewedSites` | constants of `application.rs`, `codec.rs`, `watch.rs` | patched sites, compared bodies, callers, globals |
| `Codec` | `codec.rs` | `self_test` and the codec it is for, with its wiring as a parameter |
| `LogVolume` | formats of `probe.rs`, `capture_log.rs`, `codec_probe.rs`, `application.rs` | `SessionBytes`: the longest log of a session |

A function of the code that may fail is an operator that returns a set of at most
one value.

*Texts* (`line`, `integer`, `hex`) grow by one character (`Type`), of those that the
parsers tell apart: six for a line, five for an integer, four for bytes, up to seven
characters; integers have eight bits. Seven characters are enough for a key, a
string with a hash or an escaped quote in it, and a comment.

- `LinesReadAsWritten`: the comment scan and the string parser, which treat
  backslashes differently, agree on each line with a definition of what such a
  line says.
- `IntegersReadAsWritten`: what is read is what the digits denote by their
  weights; single separators never matter; nothing wraps.
- `HexReadAsWritten`: the bytes spell the digits of the text again.

*Files* (`file`) are a sequence of lines that `ConfigValues` has read: a key and the
set of its value, empty when the text is refused. A signature or a label is its
length. Three files, two of `src/config` and one without the watcher, are edited
twice: a line is left out, rewritten, added at the end, misspelled, or a comment put
in front. The values are on both sides of every condition. `MaxConfigBytes` counts
lines here and is 18, one more than the longest of the files, so that two edits
cross it.

- `AdmittedAsWritten`: a configuration that is let through says what each line of
  the file says, in spite of repeated and unknown keys and of a file too long to
  be held; what the user must attest was written.
- `AdmittedIsUsable`: its captures fit the stores and the buffer, its two places
  in the code are different bytes, and what records has the watcher that ends it
  (`Usable`).

*Addresses* (`branch`, `page`, `region`, `mapping`, `row`) are words of five bits with
immediates of three, all of them. The code's shifts stay what they are (`imm * 64`
and `imm * 2048` of a signed field).

- `AddressesExact`: compared with unbounded integers, every address that is
  let through is right, none is refused that fits, and what may be read is inside
  its mapping. The permission and the type of a mapping are left out.

*Code* (`code`) is a text of six instructions with two signatures of two, apart from
each other; one instruction may differ from what was reviewed (`Patch`).

- `TargetIsTheOneCalled`: in code that is let through, the two signatures are
  where the configuration says and nowhere else, and the call site calls the
  prologue. Uniqueness is of aligned places, as in the code.

*Reviewed constants* (`site`) are those of the code, at full size.

- `ReviewedSitesAgree`: each patched instruction and its neighbours are in a body
  that is compared in full; the callers are direct calls of the hooked function and
  return where `submit_origin` says; the watched global is the one whose byte the
  serializer stores at the captured offset.

*The codec* (`codec`) is checked on the real buffers of the self-test, with all its
vectors, and with one wire crossed at a time (`Miswire`): another source byte or
bit, another byte changed, another distance of the cursor. The descriptor and the
returned register are left out.

- `SelfTestDetects`: the reviewed codec passes and no crossed one does. The
  Team Attack flag may come from any single bit of the rule: that the scalars of
  the vectors do not depend on it (`flags & !2`) is what tells those apart.

*The rate of calls* (`session`), the same for every hooked function and site.

- `LogFits`: the log of a session that fills every store and whose state changes
  at every pass stays below the two megabytes of the strict reader for up to 20
  calls between two passes, 80 in a second. It need not from 24 on; the reader
  would then refuse an undamaged log, but nothing in the documents rules that out.

Run `inputs` checks all ten. Run `config_signs` adds the plus sign to integers of
four characters and finds a violation: a sign after `0x` is accepted, since
`parse_usize` looks for one at the start of the value only.
`decode_hex` has the same gap: `+A` is read as the byte `0A`.

## What is proved

Seven modules have theorems, and an eighth, `Recursion`, the lemmas on recursive
functions they rest on: for every value of the constants, under the named
assumptions of the module they are about. TLC evaluates each assumption in the
runs. Every theorem about a state is `Spec => []Inv` by way of an inductive
invariant, with one lemma per action and one step per conjunct that the action can
disturb; the properties are then consequences of the invariant in one state or,
for action properties, in one step.

### CaptureStoreProofs

For every number of producers, consumers and slots, every limit and every set of
samples. Assumed (`CaptureStore`): sizes are natural numbers, a drain visits every
slot that can be filled and stays inside the array, and the markers `Uninit` and
`Torn` are no captures.

| Theorem | Says |
|---|---|
| `Invariance` | `Spec => []IInv` |
| `TypeCorrect` | `Spec => []TypeOK` |
| `Exclusion` | `Spec => []ExclusiveSlots` |
| `Intact` | `Spec => []IntactCaptures` |
| `AtMostOnce` | `Spec => []DeliveredOnce` |
| `Accounted` | `Spec => []ReservationsAccounted` |
| `SingleUse` | `Spec => SlotsAreSingleUse` |
| `Refinement` | the safety part of `CaptureChannel` is implemented |

None of the properties is inductive. That two producers never write one slot
rests on what each believes: `ViewInv` says that a view of `next` never overtakes
it and that a producer past its compare-exchange owns an unpublished slot below
it, `OneOwner` that nobody else owns it. That `take` returns a whole capture of
the right number rests on what a producer carries (`CarriedInv`) and on what a
slot of each state contains (`SlotInv`); that it returns it once, on `ReaderInv`
(a consumer past its compare-exchange is alone with a consumed slot not yet
delivered) and `DeliveredInv`. `IInv` is their conjunction with `TypeOK` and
`DeliveredOnce`.

### ProposalExperimentProofs

For any threads, sessions, identities and proposals, any number of slots, any size of
a bank, and any number of calls and of changes by the game. Assumed
(`ExperimentAssumption`): the kinds are those of the code, there is a slot, and the
markers for no slot, no session and no identity are none of these.

| Theorem | Says |
|---|---|
| `Invariance` | `Spec => []IInv` |
| `TypeCorrect` | `Spec => []TypeOK` |
| `EventsTrue` | `Spec => EventsTellTheTruth` |
| `EligibleChanged` | `Spec => []EligibleProposalChanged` |
| `ArmedMirrored` | `Spec => []ArmedSourceMirrored` |
| `WritesSanctioned` | `Spec => WritesAreSanctioned` |
| `Account` | `Spec => []CallsAccounted` |
| `MirrorFollows` | `Spec => MirrorFollowsProposal`, if `Reuse = FALSE` |

The invariant follows a call along its conditions, while the game changes them.
`HistoryOf` relates the history to the present: what held always holds now, what
holds now has held at some moment, the table that is there is one that was shown.
`TestedOf` says of each condition tested with success what that leaves behind
(`Met`): that it has held at some moment, and for a condition on the call's own copy,
which nobody else can change, that it holds.

The local slot is the delicate one. `SeenOf` says that each word the call has loaded
was in a table that was shown, which is all that is true in general and gives
`Loadable`. If one slot was the local one throughout, more is true, and it needs an
argument: the identity and that slot's entry are then the same word in every table
shown. The game changes one word at a time, so it can have changed neither of them, or
some table in between would have had another local slot, or none. So the identity never
changed (the last part of `HistoryOf`, from `Witnessed`), that entry is it, and no
entry before it ever was: the loaded words give this slot, whenever each was
loaded (`SeenSlot`).

`PlaceOf` says which hooks get how far, `OutcomeOf` that a call that is over without
a change was not eligible, and `ReportOf` that its action is what it has written. A
call that reaches its write has met every condition (`AllMet`), which is
`WritesAreSanctioned`; one that was refused has seen a condition fail, which
contradicts that it always held, and so gives the two properties of eligible
calls. `SourceOf`, that a source that was written and not written over is still ON,
adds to `ReportOf` what `EventsTellTheTruth` says of the team byte. For `Account` the counted calls are a set, `CountedCalls`, that grows by one
call at a time; that it is finite, as is the set of calls under way, is part of the
induction. `MirrorFollows` adds `MirrorInv`: the armed session is one with a
changed proposal, and a call past the comparison with it belongs to a changed
session. Its hypothesis is the one that the run `proposal_reused_session` shows to be
needed.

### ObserverProofs

For any finite set of threads, any set of configurations, any room in the stores and
any number of calls; the theorems are about `SafetySpec`, the specification without
fairness.

| Theorem | Says |
|---|---|
| `Invariance` | `SafetySpec => []IInv` |
| `TypeCorrect` | `SafetySpec => []TypeOK` |
| `WriterFirst` | `SafetySpec => []CapturesHaveAWriter` |
| `WriterEnds` | `SafetySpec => []WriterGoneForGood` |
| `HooksComplete` | `SafetySpec => []NoAbortAfterInstall` |
| `LogCovered` | `SafetySpec => []CountsCoverTheLog` |
| `LossesBounded` | `SafetySpec => []LossesAreLast` |

What is proved about `install` rests on the order of its steps only. `Ordered` says
what that order must be: a publication right after its patch, the writer ready and
then spawned before the serializer's hook and before any start of recording;
`PathOrdered` shows it of each configuration's path. `MainOf` relates the position
in the path to what is patched, published, active and spawned, `CallOf` says that a
call that may still capture has a writer, and `WriterOf` that a writer that stops
has ended `WRITER_READY`. For `CountsCoverTheLog`, and for the bound in `TypeOK` that
no capture is uncounted, `Counted` adds the calls that are counted but
have not yet captured: accepted, dropped and pending together never exceed
the count. Its proof is about the cardinality of `Pending`, one call at a time.

`LossesAreLast` is not inductive: it is about the moments between passes, and a pass
goes through up to three stores while hooks go on filling them. `PassOf` follows it. The
stores before the one that is being drained, in the order of `Rank`, have in the log
what was accepted when the pass began; the one being drained lacks at most the captures
that are still due; and a store that no pass visits never accepts anything, since what
records is drained (`MainOf`, `CallOf`). `Follows` says of the step from one store to the
next that it skips only stores of the last kind. `LossOf` is the second part of the
property: a capture is taken and not written only by a write that failed, and the writer
never comes back from that.

### CaptureLogProofs

For any number of file names, header keys, captures and lines, through any number of
crashes, power failures and restarts. Assumed (`LogAssumption`): `Absent` is no file,
and the header keys are distinct and fit into a session.

| Theorem | Says |
|---|---|
| `Invariance` | `Spec => []IInv` |
| `TypeCorrect` | `Spec => []TypeOK` |
| `AcknowledgedSurvives` | `Spec => []FlushedSurvives` |
| `ReadBack` | `Spec => []LogsReadBack` |
| `NeverTruncates` | `Spec => EarlierSessionsPreserved` |

`FileOf` is about every file, also those of earlier processes: what was acknowledged
is on the card, the header is first and nowhere else (`HeaderFirst`), no capture is
dumped twice (`DumpsOnce`), and all three survive the loss of an end of the file.
`SessionOf` is about the running process: it has a file of its own, the dumps in it
were taken from the store, and the dump that a `dump_written` announces is not yet there.
That last part is what makes `DumpsOnce` inductive, and so the reader's test
for duplicates a test that no session fails.

### CadenceProofs

For any rate of ticks, heartbeat and limit, any first value of the counter, and any
sleeps that do not outlive it (`CadenceAssumption`).

| Theorem | Says |
|---|---|
| `Invariance` | `Spec => []IInv` |
| `TypeCorrect` | `Spec => []TypeOK` |
| `ChangesLogged` | `Spec => []LogFollowsState` |
| `Heartbeats` | `Spec => []HeartbeatKept` |
| `LimitOnTime` | `Spec => StopsOnTime` |

`ElapsedTrue` is the arithmetic of the counter: as long as a session is shorter than
its range, the wrapping difference in milliseconds is the true one. The invariant
provides that: a running session is below the limit, and the assumption says that
one more sleep is not enough to leave the range. It also relates the time of the
last line in milliseconds, which the code keeps, with that in ticks, and bounds the
lines by what has changed and by the milliseconds at the last of them, not by those
that have passed, which would not be inductive.

### InputsProofs

For any even widths of words and immediates, any page size and layout of the
participants, any positive sizes of regions (`AddressesAssumption`,
`ConfigurationAssumption`, `InputsAssumption`).

| Theorem | Says |
|---|---|
| `Addressed` | `Spec => []AddressesExact` |
| `TargetCalled` | `Spec => []TargetIsTheOneCalled` |
| `ValidatedUsable` | what `validate_config` lets through is `Usable`, whatever file it came from |

The invariants are small here: an address is never edited (`AddressInputs`), and the
patched code is still code (`CodeInputs`). The work is in the lemmas about the operators.
`SignedIs`, `BlShift` and `AdrpShift` say that the shifts of the code extend the sign
and scale; on them rest `BlExact`, `AdrpExact` and their like for regions, mappings and
rows. `PresentExact` says that the search for a signature accepts it if and only if
it begins at one place, the one that was configured, and `CallExact` that the
branch of the call site ends there. `ValidatedUsable` speaks of the validation
alone: a configuration whose fields have their types.

### Recursion

The parsers are loops, and the models of the loops are recursive functions
over `0..n`. What such a function returns is proved by induction, from the fact that a
set of natural numbers that is not empty has a least member (`LeastNatural`), which
the library derives from the well-foundedness of `<`. The library's own induction
theorems have an operator for the formula and cannot be cited; here the formula is the
one that defines a set. `Induction` is the principle, `Recurrence` says that a recursive
definition has a solution, so that CHOOSE finds one, and `Values` that a property that
each value hands to the next is one of all.

### ConfigurationProofs

About the same specification as InputsProofs, the parser: for files of any number of
lines, any number of edits and any limit of their size, and for texts of any length,
words of any width and any characters typed. Assumed (`InputsAssumption`): what the
value parsers return for a line is one value of the type of its field, or none
(`IsLine`).

| Theorem | Says |
|---|---|
| `Consented` | `Spec => []AdmittedAsWritten` |
| `CanBeUsed` | `Spec => []AdmittedIsUsable` |
| `LinesRead` | `Spec => []LinesReadAsWritten` |
| `IntegerRead` | `Spec => []IntegersReadAsWritten`, if no plus sign is typed |
| `SignatureRead` | `Spec => []HexReadAsWritten`, if no plus sign is typed |

*Files.* The invariant of the loop of `parse`, over the lines read so far, is that
each key seen has the value of its line and each other key its default. A repeated
key ends the loop without a result, so the last line of a key is the only one. `Held`
keeps one line more than is allowed, which `parse` refuses: so that nothing is
accepted of which a part was not read. `CanBeUsed` adds the types of the fields and
`ValidatedUsable`.

*Lines.* `LineExact` is the equality of two sets: the values that are read, and the
strings that stand in the line. `StatesOf` follows the scan: before the string the state is
outside of quotes and unescaped, since a name has neither quotes nor backslashes;
within it, inside, since a string that is accepted has neither; after it, outside. So
a hash within the string is no comment and the first one after it is (`CommentOff`). In
the other direction, a line that is cut and has a value that `ParseString` accepts says
that string where it was read (`CutSays`). `TrimIs` and `PartOfPart` are the lemmas on
parts of parts of a text which both directions need.

*Integers.* `FromStrRadix` multiplies from the left, `Denoted` weighs from the right;
`WeighedNumber` is their equality (`Horner`'s rule) for every text, where digits and
separators stand in any order. `MisplacedIs` says that the separators refused at the
start of `parse_usize` are those without a character of the number on both sides, and
`AroundMark` that the prefix is found where the text has it, separators or not.

*Signatures.* `HexExact`: what is left without separators is an even number of
characters, and each two of them make the byte whose halves they are.

The hypothesis on the plus sign is the one that the run `config_signs` shows to be
needed: without it the run finds `0x+1`, and a signature could have `+A` in it.

## What is only model-checked

- Liveness (`EveryReservationDelivered`, `CapturesReachTheLog`, `RecordingEnds`) and the
  fairness of the refinement: the proof system has no rules for `ENABLED`.
- `ReviewedSitesAgree`, `SelfTestDetects`, `LogFits`: their data are the constants of the
  code, so that TLC's run covers all there is.

## What is not modelled

- *Bytes*: the comparison of live bodies with those of the manifest and of the
  instruction words in `validate_source` (equality of constants), the layout of an
  event in memory and its decoding.
- *Queries of the system*: `svcQueryMemory` itself and the version string of the
  game; `validate_receive_table` beyond the bounds of its mapping, and the dispatch
  pointers of the two received rules.
- *Text of log lines, the mask and bytes of a dump*: no property is about them.
- *Review tools except `read_log`*: offline scripts over finished logs.
- *Release, binary and Ghidra tools*: file processing without protocol state.
- *The bodies of the game's functions*: external.

## Plan

Done: the store, the guarded write, the installation and the writer, the log, the
clock, what is checked before installation, and the proofs of their safety, the
parsers' included. There remain, in the order of their importance:

1. `ApplicationRules`: the conditions of `proposal_guard` as values of memory, where
   ProposalExperiment has only whether they hold.
2. `LogReview`: the review of rule messages over what a session can have logged,
   undrained events at the limit included.
