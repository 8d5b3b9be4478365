# MoyBot in TLA+

MoyBot watches Solana tokens. A data source reports observations; an observation may declare
events; each event is put through a canonical pipeline, once per bot, and ends in an alert or in a
recorded reason why not. Phase 1, the code in `src/src/moybot`, replays observations from fixture
files and acts only by raising alerts. This directory holds a TLA+ model of that pipeline, the TLC
configurations that check it, and theorems about it that TLAPS checks.

Paths below are relative to `src/src/moybot`.

## 1. The system

```
 fixture file ──► ReplayDataSource.updates ──observe──► SourceTimeClock ◄──now_ms── everything
                   │        │                                 ▲
                   │        └─publish──► ReplayStateRefresher ─┘ observe
                   ▼                               ▲ refresh
 PipelineRunner.process ──apply──► InMemoryStateCache ◄──get── MaterialDeteriorationValidator
   │  │  └──capture──► SnapshotBuilder ◄──capture_state──────────────────┘
   │  └── detectors, differ, filters, heavy analysis, strategies
   └──append──► SnapshotStore, ProvenanceStore      └──emit──► ActionSink
```

One asyncio task drives everything: `run_source` takes an observation from the source, `process`
runs it to its end, and only then is the next one taken. There are no threads and no awaits inside
`process`. What makes the program hard is not scheduling but *which state is read when*: four
objects hold mutable state (cache, builder, clock, refresher), several stages read them at
different moments of one observation, observations and re-reads carry times and slots in any
order, and a run may stop between two effects and be repeated on the same data directory.

| component | state | operations | what makes it correct |
|---|---|---|---|
| continuous state (`core/state`) | per token: metrics, slot, time | `apply`, `get`, `merge_metrics` | only reported fields change; only observations write |
| snapshot builder (`core/snapshots/builder.py`) | the next number | `capture`, `capture_state` | unknown is no snapshot; numbers order snapshots that tie |
| delta analysis (`core/delta`) | none | `diff` | the change of this observation, nothing on a first one |
| event detection (`core/events`) | none | `detect` | exactly the declared events |
| filtering, heavy analysis, scoring (`core/filtering`, `analysis`, `scoring`) | none | `run`, `analyze`, `score` | first rejection ends; a missing feature is not zero |
| strategies (`core/strategy`) | none | `evaluate` | hard rules before any score; own scorer and threshold |
| validation (`core/validation`) | none | `validate` | passes only what is configured, available, fresh, known and not worse |
| clock (`core/clock.py`) | latest reported time | `observe`, `now_ms` | never rewinds, never guesses |
| replay (`adapters/replay`) | position, declared states | `updates`, `publish`, `refresh`, `open_replay` | a re-read during a stream is what the observation under evaluation declared |
| runner (`core/pipeline/runner.py`) | locals of one event | `run_source`, `run`, `process` | the canonical order, one record per stage, early returns end one strategy only |
| stores (`core/snapshots/file_store.py`) | `snapshots/<mint>/<date>.ndjson`, `provenance/<date>.ndjson`, latest snapshot per token in memory | `append`, `latest` | append-only, explains every alert, loses nothing that was appended |
| action sink (`core/action`) | none | `emit` | told only of what passed |
| composition, configuration, CLI (`app`) | none | `build_pipeline`, `main` | wires one builder, cache and clock into everything |

The hazards are listed, each at its line, in `PROJECT.json`. Those that shape the model:

* a declared state that outlives its observation (`refresher.publish`), a clock that follows a
  late observation back (`SourceTimeClock.observe`), a re-read that leaks into continuous state
  (`_snapshot_of`): each makes the freshness check pass on what it exists to refuse;
* the early returns of `_compare`, `validate`, `_process_event` and `_run_strategy`;
* one record counter shared by the bots of an event, one builder shared by runner and validator;
* a stop between the sink and the ACTION record, or between the two stores, and a rerun;
* a stop within a line (`_append_json_line`), which the rerun's first append continues, and
  `latest`, which answers from memory and in the order of appending;
* `run` over `batch`, which tells neither refresher nor clock what it processes, after or before
  the same session was streamed;
* quotients that decimal arithmetic rounds before they are compared with a limit.

## 2. The modules

| module | models | by |
|---|---|---|
| `Metrics` | reports, `to_patch_fields`, `merge_metrics`, `diff` | operators |
| `ContinuousState` | `InMemoryStateCache`, `SnapshotBuilder` | `cache`, `sequence`; `Apply`, `CaptureKnown`, `CaptureAt`, `ConsumeSequence` |
| `ReplaySession` | source, refresher, clock, `open_replay` | `fixture`, `pos`, `clock`, `published`; `Yield`, `Refresh`, `Reopen` |
| `Validation` | `MaterialDeteriorationValidator` | `Validate`: every early return in order |
| `Strategies` | filter chain, analysis registry, scorer, bots | operators over CONSTANT filters, rules and modules |
| `Pipeline` | `PipelineRunner` as `build_pipeline` wires it, stores, sink, command | one action per stage, `Crash`, `Boot` |
| `PipelineProperties` | what the pipeline promises | properties only |
| `DecisionProtocol` | abstract: what becomes of a candidacy | `approved`, `raised`, `concluded`; `Approve`, `Raise`, `Conclude` |
| `ReplayDrivers` | one process that streams or batches one session, pass after pass | `drivers`; `StreamObserve`, `BatchObserve`, `RaiseNotConfigured`, `Stage`, `NextPass` |
| `AppendLog` | abstract: logs that only grow and may be torn at the end | `log`, `torn`, `up`, `pending`, `returned`; `Add`, `Return`, `Stop`, `Start` |
| `FileStore` | `FileSnapshotStore`, `FileProvenanceStore` below the level of an append | `files`, `latest`, `returned`; `Write`, `Return`, `Crash`, `Boot` |
| `PreTradeGate` | the validator as a gate on its own | a question put to ever stricter validators |
| `DecimalGate` | the quotients of `_compare` as a decimal context rounds them | operators, over the gate's questions |
| `DocClaims`, `StoreClaims`, `DriverClaims` | sentences of the documentation, at their word | properties the code does not have |
| `MC*` | the small instances | constants |
| `*Proofs` | the theorems | proofs |

`Pipeline` composes the others: it `EXTENDS` `ContinuousState`, `ReplaySession`, `Validation` and
`Strategies`, and its actions use their actions (`Yield` and `Apply` inside `Observe`, `Reopen`
inside `Boot`). That it uses the session only as a reader may is itself a property,
`DrivesSession`: the pipeline implements `SessionSpec`, and what holds of the session alone holds
inside it. `ReplayDrivers` extends the pipeline once more: its passes reuse every stage and replace
`Observe`, `Crash` and `Boot` by what a caller of `run_source` and `run` does.

Two modules are abstract specifications, and a detailed one is shown to implement each.
`PipelineProperties` maps stores and sink to `DecisionProtocol`: approved is who has a passing
PRE_TRADE_VALIDATION record, raised the alerts, concluded who has a record that ends the strategy.
`FileStore` maps its files to `AppendLog`: the log of a path is what a reader makes of its lines,
and it is torn while something other than the append under way stands behind its last newline. An
entry is added when its newline is written (`pending` until the append returns, `returned` from then
on), so an append that returned before its newline was in the file would not be a step of
`AppendLog`, and neither would a file that tears while its process runs on: only `Stop` tears.
`FileStore` appends the plan of a run rather than what `Pipeline` computes, because a rerun appends
the same again, which is what `ReplayRepeats` says of the pipeline.

### State and actions of `Pipeline`

`pc` is the place in `_process_event` or `_run_strategy`, `frame` their locals (event, bot, record
count, previous and decision snapshot, features, score, passed verdict). An action runs from one
externally visible effect to the next:

| action | code | effect |
|---|---|---|
| `Observe` | `updates` up to its yield, `process` 97-132 | clock, publish, previous snapshot, apply; without an event nothing else |
| `Trigger` | `_process_event` 174-184 | record EVENT_TRIGGER |
| `Capture`, `RecordCaptured` | 186-203, 204-218 | snapshot stored; record CONTINUOUS_DATA |
| `AnalyzeDelta` | 220-244 | record DELTA_ANALYSIS; strategies start |
| `FilterCandidate`, `HeavyAnalysis`, `Scoring` | `_run_strategy` 267-356 | one record each; an early return moves on to the next bot |
| `PreTradeValidation` | 358-372 and all of `validate` | re-read, clock, snapshot number, record |
| `EmitAlert`, `RecordAction` | 374-383, 384-395 | the sink; record ACTION |
| `Finish` | `run_source` | the source is exhausted |
| `Crash` | the process stops, or a port raises | nothing else changes |
| `Boot` | `main` again | session, cache and builder start from nothing; stores stay |

The `no_state` branch (190-202) has no action: `TypeOK` states, and `PipelineTyping` proves, that
the cached state is there whenever a decision snapshot is captured.

### What is abstracted

* Decimals are integers, fractions and ratios are percentages compared by cross-multiplication.
  `Validation` compares exact quotients; `DecimalGate` says how far that is from the rounded ones.
  The exponent range of the decimal context (its overflow and underflow) is not modelled.
* A token's metrics are the eight fields validation reads and `volume`, for all the fields it does
  not read. An `LpState` keeps only its supply. A tuple of addresses is the set of them, so a mere
  reordering, which the differ would report, is not a change here; the validator compares sets.
* A record's identity is (observation, event, count, stage), the parts its id is formatted from;
  its detail keeps what the properties use. Durations and wording are left out.
* A `Candidate` is what filters, heavy analysis and the bots read of one: mint, decision snapshot and
  delta. Its `event`, `previous_snapshot` and `filter_trace` are left out: nothing reads them.
* `run`, `pos` and `event` in stored snapshots and `run` in records and alerts are annotations of who
  left them, read by properties only.
* In `Pipeline` a store is a sequence and an append is atomic; `FileStore` opens that up. There a
  line's text is `Parts` pieces, each naming the item it is of, so that a reader can tell a whole
  line from two pieces run together; that JSON has no proper prefix that parses is built in.
* Python buffers a line until the file is closed: how much of it a stop leaves is any number of
  pieces. Creating a file and its directory without writing to it is not told from doing nothing.
* The runs of the pipeline use a configured validator; one that is not configured is checked in
  `gate`, and the theorems about the pipeline cover both.

## 3. What is checked

Every run finishes within two minutes on two workers.

| run | module | states | question |
|---|---|---|---|
| `replay_wide` | `MCReplayWide` | 51,805 | one run over every fixture of up to three of eleven observations |
| `crash_restart` | `MCCrashRestart` | 87,706 | three runs on one data directory, the first two stopped anywhere |
| `declared_only` | `MCDeclaredOnly` | 3,798 | liveness, with an unimplemented category enabled |
| `gate` | `MCPreTradeGate` | 41,784 | the validator over boundary questions and gates |
| `session` | `MCReplaySession` | 23,867 | the session under any reader |
| `file_store` | `MCFileStore` | 44,900 | the files over three runs, two of them cut short anywhere |
| `drivers` | `MCReplayDrivers` | 162,332 | three passes over one session, streamed or batched |
| `claim_*` | `DocClaims`, `StoreClaims`, `DriverClaims` | - | documented sentences the code violates |

**`replay_wide`.** The eleven observations (`MCConfig`) are a first full report with and without
an event; falls within and beyond the limit; two events at once; an observation without declared
state, one that arrives late in slot and time, one whose re-read is behind; wallets that leave; a
price that becomes unknown; a developer who sells; and a second token. Three in a row is the least
that separates "the previous observation" from "the previous one of this token" and from "the
latest that reported this field", and that puts a late observation between two others. It shows:

* `ContinuousStateIsObserved`: each cached field is what the last observation that reported it
  said. No re-read enters, nothing unreported changes.
* `DeltaIsOfThisObservation`: a delta names exactly what its own observation changed.
* `AlertReadIsItsOwn`, `AlertIsFresh`, `AlertIsNotDeteriorated`: what an alert rests on.
* `TwinBotsAgree`: validating for one bot leaves nothing that changes the other's answer.
* `SnapshotNumbersOrder`: numbers are unique and in the order of capture over decision snapshots and
  re-reads together. The events of one observation share slot and time, and a re-read may declare
  the same, so only the number tells that a re-read comes after the decision snapshot of its own
  event and before the one of the observation's next event.
* `RecordTimesAreOrdered`: records are in order of time, though observations and re-reads carry times
  in any order.
* `ScoreIsOfRecordedFeatures`: a score never counts a missing feature for zero.
* `EveryBotConcluded`: every bot comes to exactly one recorded conclusion on every event.
* `NothingIsRevisited`: a run only goes forward; no outcome makes it retry a stage, a strategy, an
  event or an observation.
* `DrivesSession`: above. `TypeOK`: types, and the locals a stage reads are there.

**`crash_restart`.** Two crashes and three runs are enough for a rerun of a rerun; the fixtures
raise alerts for both bots, refuse one for want of a read and one for a read from behind, and have
re-reads ahead of later observations. `ReplayRepeats`: what a run left stands in one piece, and
whatever two runs both got to, they left identically in stores and sink. `AlertIsExplained`: snapshot, score and verdict of an alert are stored before it
goes out. `ActionsAreRecorded`: an alert lacks its record only at the very end of a run cut short.
`TrailIsCanonical`: an event's records are the canonical stages, numbered without gap over all bots.
`ImplementsDecisions`: through crashes and reruns, stores and sink together follow `DecisionProtocol`:
a candidacy (a bot's look at an event in a run) is concluded once, is raised at most once and only
when approved, one approved is settled before another is taken up unless the run is over, and
neither runs nor events are gone back to.

**`gate`.** `PassesIffAcceptable` compares the ordered early returns with one unordered condition
stated by what is left, not by what was lost. `TighteningNeverAdmits` is an action property: the
gate is replaced by ever stricter ones. The gates have no tolerance, a boundary the questions meet
exactly, full tolerance, negative limits and each part unconfigured. `RoundingIsHarmless`: rounding
a difference and then a quotient turns a comparison only when the limit is met to the last digit
kept, because the error is relative. `Digits` = 2 stands for the context's 28 and makes rounding
happen (two of three left against a limit of 33% is such a turn); a price of 300 that falls to 299
is a drop far below the limit beside a large operand. `MaxExponent` = 4 bounds the powers of ten
searched (`PowerOfTen`, a recursive function); by `RangeAssumption` no quotient of the run lies
below them.

**`session`.** A reader re-reads any token at any time; two tokens, three observations, two
times of observation around three of declared states, so that every order of the two occurs.

**`declared_only`.** `Terminates` assumes `WF_vars(Step)`: `asyncio.run` drives `run_source` until
it returns, and nothing in it waits for anything but itself. No fairness is assumed of `Crash` or
`Boot`, and the run allows neither. `UnimplementedRaisesNothing`: with a category that is only declared, or with
nothing enabled, as shipped, nothing is validated and no alert goes out.

**`file_store`.** The plans stay on one day, cross midnight, have an observation that arrives late
from the day before, and take two tokens in turn; a day is ten milliseconds (`DayMs`) and a line two
pieces and a newline (`Parts` = 2), the least in which a line can be torn in its text and between
text and newline. Three runs, two of them stopped, let a rerun be torn on top of a torn line.

* `ImplementsAppendLog`: the files are append-only logs; entries come in the order of appending, an
  append returns only after its entry was added and before the next begins, and a stop within an
  append spoils at most the next entry of that one file.
* `OnlyFirstOfRerunIsLost`: an append that returned is read back, unless it was the first of a rerun to
  reach its file.
* `LatestIsLastOfThisRun`: `latest` is the append that returned last in this run, not the newest
  capture, and knows nothing of earlier runs.
* `HistoryReadsInOrder`: provenance read by date is in the order one run appended it, across midnight.
* `StoreTypeOK`: types, and an append's file is closed before the next begins.

**`drivers`.** Fixtures of two or three observations out of seven, and every choice of stream or
batch over three passes: the least in which a batch comes before, after and between streams.

* `AlertReadWasStreamed`: a re-read during a batch answers with what the *stream* yielded last of
  the token, whichever observation is evaluated; during a stream with the observation's own. That
  is less than the refresher's docstring says, which `claim_refresh` shows (`RefreshIsOfEvaluated`).
* `AlertIsFresh`, `AlertIsNotDeteriorated`: still true of every alert, so what a batch re-reads
  wrongly is refused or harmless.
* `TimelessLeavesNoTrace`: a batch before any stream raises at its first event, with nothing in
  stores or sink, but with the observation already in continuous state.
* `NumbersAndTimesSpanPasses`, `DeltaSpansPasses`: builder, clock and cache outlive a pass, so numbers
  and times go on, and the first observation of a later pass has a predecessor in the earlier one.
* `EveryBotConcluded`: also over batches.

Deadlock is not checked where the program may stop: a finished (or stopped) last run, and a gate
for which no stricter one exists, have no successor. `session` checks it.

The bounds are `MaxRuns`, `MaxCrashes`, the length of fixtures, and the constants of `MCConfig`.

Every checked property has a mutant in `PROJECT.json`: a definition changed as a plausible bug in
that code would change it, under which TLC refutes the property. Mutated forms stand directly
before the definition they vary and are marked as such; nothing else uses them.

### Where documentation and code disagree

Each is a run TLC must find violated (`DocClaims`, `StoreClaims`, `DriverClaims`):

* `UnknownSupplyCancels`: an LP supply unknown on both sides passes the supply check.
* `NoFallbackToDecision`: a re-read that reports no field is completed from the state the decision
  was made on, and passes.
* `RefreshIsOfEvaluated`: a batch of a session that was streamed before re-reads what the stream
  declared last of the token. `refresher.py:27-28` says that a refresh can only return state of the
  observation under evaluation, which is so only where the observation comes from `updates`.
* `CachedStateIsNewest`: a late observation of an earlier slot replaces a later state.
* `EveryRecordReconstructible`: a run that stops within a line leaves a piece of it; the first append of
  the rerun to that file continues the piece (`_append_json_line`), and the rerun goes through to its end
  without an error although neither copy of the record can be read.

`AlertIsNotDeteriorated` (about known supplies), `AlertReadIsItsOwn` and `AlertReadWasStreamed` (a
stream's re-reads, and a batch's) and `OnlyFirstOfRerunIsLost` are the true statements next to these.
That a field the re-read does not report may be arbitrarily old is no disagreement:
`docs/PHASE2_SCOPE.md:45-46` says that it keeps its last observed value, and `AlertIsFresh` is about
the read as a whole.

## 4. What is proved

TLAPS checks the following for every value of the constants: any fixtures, tokens, wallets, bots,
filters, rules, modules, gate, number of runs and crashes; any plan of appends, length of a day and
number of pieces of a line; any choice of stream or batch, pass after pass.

| theorem | module | statement |
|---|---|---|
| `SessionTyping` | `ReplaySessionProofs` | `SessionSpec => []SessionTypeOK` |
| `ReadsAreOfLatestObservation` | " | `SessionSpec => []ReadIsOfLatestObservation` |
| `ClockCoversEveryObservation` | " | `SessionSpec => []ClockCoversObservations` |
| `ClockIsMonotone` | " | `SessionSpec => ClockNeverRewinds` |
| `ClockIsOfTheSource` | " | `SessionSpec => []ClockWasReported` |
| `PassesExactlyTheAcceptable` | `PreTradeGateProofs` | `GateSpec => []PassesIffAcceptable` |
| `TighteningOnlyRefuses` | " | `GateSpec => TighteningNeverAdmits` |
| `RoundingTurnsNothing` | " | `GateSpec => []RoundingIsHarmless` |
| `PipelineTyping` | `PipelineProofs` | `Spec => []TypeOK` |
| `PipelineDrivesSession` | " | `Spec => DrivesSession` |
| `PipelineKeepsSession` | " | the session's theorems, of `Spec` |
| `ContinuousStateIsOnlyObserved` | " | `Spec => []ContinuousStateIsObserved` |
| `ProvenanceIsInOrder` | " | `Spec => []RecordTimesAreOrdered` |
| `DeltasAreOfTheirObservation` | " | `Spec => []DeltaIsOfThisObservation` |
| `RunsGoForward` | " | `Spec => NothingIsRevisited` |
| `AlertsAreSafe` | `AlertProofs` | `Spec => [](AlertReadIsItsOwn /\ AlertIsFresh /\ AlertIsNotDeteriorated)` |
| `AlertsAreExplained` | " | `Spec => [](AlertIsExplained /\ ScoreIsOfRecordedFeatures)` |
| `NumbersOrderSnapshots` | " | `Spec => []SnapshotNumbersOrder` |
| `TwinsAreToldTheSame` | " | `Spec => []TwinBotsAgree` |
| `RunsRepeatEachOther` | " | `Spec => []ReplayRepeats` |
| `PipelineImplementsDecisions` | `DecisionProofs` | `Spec => ImplementsDecisions` |
| `UnimplementedIsQuiet` | " | `Spec => []UnimplementedRaisesNothing` |
| `TrailsAreCanonical` | " | `Spec => []TrailIsCanonical` |
| `EveryBotConcludes` | " | `Spec => []EveryBotConcluded` |
| `ActionsAreOnRecord` | " | `Spec => []ActionsAreRecorded` |
| `StoreTyping` | `FileStoreProofs` | `Spec => []StoreTypeOK` |
| `CrashesSpareReturned` | " | `Spec => []OnlyFirstOfRerunIsLost` |
| `StoresAreAppendLogs` | " | `Spec => ImplementsAppendLog` |
| `LatestIsLastAppended` | " | `Spec => []LatestIsLastOfThisRun` |
| `HistoryIsInOrder` | " | `Spec => []HistoryReadsInOrder` |
| `RefusedLeavesNoTrace` | `DriverProofs` | `DriverSpec => []TimelessLeavesNoTrace` |
| `OrderSpansPasses` | " | `DriverSpec => []NumbersAndTimesSpanPasses` |
| `DrivenAlertsAreSafe` | " | `DriverSpec => [](AlertReadWasStreamed /\ AlertIsFresh /\ AlertIsNotDeteriorated)` |
| `DriversImplementDecisions` | " | `DriverSpec => ImplementsDecisions` |
| `DrivenBotsConclude` | " | `DriverSpec => [](EveryBotConcluded /\ TrailIsCanonical)` |
| `DeltasSpanPasses` | " | `DriverSpec => []DeltaSpansPasses` |
| `DrivenAlertsAreExplained` | " | `DriverSpec => [](AlertIsExplained /\ ScoreIsOfRecordedFeatures)` |
| `DrivenTwinsAreToldTheSame` | " | `DriverSpec => []TwinBotsAgree` |
| `DrivenActionsAreOnRecord` | " | `DriverSpec => []ActionsAreRecorded` |
| `DrivenUnimplementedIsQuiet` | " | `DriverSpec => []UnimplementedRaisesNothing` |

Assumptions, all on constants and all evaluated by TLC: `None` is no integer, no cached token and
no snapshot; fixtures, the gate and the gate's questions are well formed; bots are a sequence and
have different names (`build_pipeline` builds each of the two at most once); at least one run is
allowed. Of the decimal context: it keeps at least one digit, and no price, liquidity or buy
volume is so large that a quotient by it underflows (`RangeAssumption`, with Python's exponents a
number beyond 10^999900; only `RoundingTurnsNothing` uses it). Of the stores: plans are finite sequences of items, a day has a positive length and a line
at least one piece, and the provenance of a plan is in order of time. The last is what
`ProvenanceIsInOrder` proves of the pipeline that writes it, and only `HistoryIsInOrder` uses it.
Not assumed of plans: any order of the snapshots' times, which observations carry in any order, or
of tokens or kinds.

* *Session.* `SessionTypeOK` is inductive. `ReadIsOfLatestObservation` is inductive with it: a
  yield makes its observation the last one of its token and leaves the others' last one alone.
* *Gate.* The core is `Validation` alone: a verdict is "pass" iff no check of the ordered list
  fails (`NoBreach`; the list names every check, `FirstOfComparisons`), and that is, by arithmetic on
  shares, what `Acceptable` says. Strictness is then compared limit by limit.
* *Rounding.* With P = 10^(`Digits` - 1), a rounded number is an integer of at least P shifted by a
  power of ten, so rounding to the nearest is off by at most one part in 2P + 1
  (`HalfEvenIsNear`, `RoundedIsNear`). A drop is rounded twice, and two such errors together stay
  below one part in P (`ErrorsAddUp`, `DropIsNear`). A comparison that turns has its limit between
  the exact quotient and the rounded one (`LimitIsBetween`), hence within a digit of the exact one
  (`TurnsWithinADigit`). What is needed of a power of ten, that it is a positive integer and the
  recursive definition indeed defines a function, is an induction. The library's induction theorems
  take an operator, so it is done over sets instead: the naturals are well founded, the least
  natural that is not reached leads to a contradiction (`ReachesEveryNatural`, `PowersOfTen`).
* *Pipeline typing.* One lemma per group of stages; `MoveOn` and `NextEvent`, used by all of them,
  are typed once (`MoveOnIsTyped`). The conjuncts about `pc` carry the induction: a stage reads
  locals an earlier stage set.
* *Refinement.* Every step of the pipeline is a `Yield`, a `Refresh`, a `Reopen` or a stutter of the
  session; `PipelineKeepsSession` then takes the session's invariants over.
* *Continuous state.* The invariant is inductive with `TypeOK`; the step that matters is `Observe`,
  where the last report of a field is the new one or the old one.
* *Alerts.* The three properties speak of alerts already raised, and are not inductive: an alert is
  raised one step after its verdict. `AlertsVouched` adds that a verdict waiting in `frame` at
  "alert" is already vouched for by its observation, with `TypeOK`, `ReadIsOfLatestObservation` and
  `ClockCoversObservations` as the facts a verdict is judged by.
* *Times.* `RecordsArePast`: no record of the run is later than the clock, which never rewinds, and none older
  than its observation. Order of the records then follows append by append.
* *Shape of a step.* What the theorems below have in common: a step writes one record of the stage
  `pc` names and goes on, moves on to the next bot, event or observation (`Writes`, `StepWrites`),
  or it takes up an observation (`TakesUp`), starts over (`StartsOver`), captures, raises or stops.
  `ReplayDrivers` has the same shapes, so the lemmas stated over them serve its passes as well.
* *Deltas.* `DeltaInv` adds to the property what the snapshots in `frame` hold between `Observe` and
  the stage that compares them: the previous one is what was known before the observation, and the
  decision's is what is known after, field by field.
* *Going forward.* By `TypeOK` alone. It is the half of `Terminates` that is a safety property: a
  run's steps lead forward through boundedly many places, so all it takes to end is its turns.
* *Explanations.* `ExplainedInv`: what the next stage will rely on (features, score, verdict,
  decision snapshot) is on record the moment the locals of that stage are set.
* *Numbers.* `NumbersInv`: nothing captured is numbered at or beyond `sequence`; nothing is in the
  stores of an event still to come, and no check of the current event is on record before its
  decision snapshot is taken (`BeforeSnapshot`). What is taken next is then behind all there is,
  whether it is of the next event of the same observation or of a later observation.
* *Twins.* `TwinInv`: a verdict on record about the current event is the one a check would come to
  now, number apart. A check moves the clock to the time of what it re-read, and a second check of
  the same state moves it nowhere.
* *Repetition.* `ReplayRepeats` compares two runs of one behaviour, so its invariant says where on
  *one* trace of an uninterrupted run each of them is. `Leads` states a step of the pipeline
  without variables, from one `Place` to the next with what is told on the way; a place leads to one
  place only (`LeadsOnce`) and every step of `Pipeline` goes where it leads (`StepAdvances`).
  `RepeatInv`: there is a trace on which every run has reached some moment, with exactly the told
  part of it in stores and sink, in one piece; a step of the current run follows the trace or
  lengthens it, a stop leaves it there, a boot is at its first moment again.
* *Decisions.* The mapped variables are sets computed from the stores, so each step needs to be
  known by what it adds (`AppendAdds`). `DecisionInv` is the strengthening: stores and sink tell only of
  candidacies that are over, and of the current one exactly as far as `pc` says it has come. An
  approval, an alert and a conclusion are then three different steps, and everything else stutters.
* *Trails, conclusions, actions.* `TrailInv`: the last record of the current event leads to the stage
  `pc` names, under the number `frame` counts. `ConclusionsInv`: no candidacy
  has two conclusions, and while a run goes on, all bots of earlier events and the bots before the
  current one have theirs.
  `ActionsInv`: alerts but the last have their record, and records and alerts tell of candidacies in
  the same order, which is the order `DecisionInv` gives them.
* *Nothing implemented.* `NothingRaised` carries "no features" from the analysis stage to scoring,
  where a score that misses a feature never advances.
* *Stores.* `StoreInv` adds to the types and to `OnlyFirstOfRerunIsLost`: what the append under way
  has written stands at the end of its file (`TailHoldsUnderway`); nothing is read back that was not
  appended yet, nor returned (`EntriesArePast`, `ReturnedArePast`); a file is torn only until the run
  first appends to it (`TornIsFresh`); a line just ended is the item's own or was torn
  (`EndedIsRecorded`). A whole text and a longer line are told apart by `ReadBack`.

* *Files.* `FilesInOrder` says of every two entries of one run that can be read back, in one file or
  in two, that they stand as they were appended; a day's file is older than the next day's because
  the plan's times are in order.
* *Drivers.* `DriverTypeOK` types the passes: a stage of a pass is a step of the pipeline once a time
  is known (`StageIsAStep`). `ClockInv`: without a time the stores are empty, and the clock covers
  every observation that was streamed; a batch that follows a stream is of the same fixture, so it
  is covered as well. `PublishedInv`: what is re-read is of the observation of its token that was
  streamed last. `DrivenAlertsVouched`, `OrderInv`,
  `DrivenDecisionInv` and `DrivenDeltaInv` are the pipeline's invariants with passes for runs, where
  cache, numbers and clock go on and a refused pass leaves nothing but what it applied. What a driver
  does between stages adds to neither stores nor sink (`BetweenStages`), so `ExplainedInv`,
  `TwinInv`, `ActionsInv` and `NothingRaised` hold of passes as they stand, a stage being a step of
  the pipeline.

Only model-checked: `Terminates`, because liveness is beyond the prover (`RunsGoForward` is what can
be proved of it). Every invariant and action property that a run checks is a theorem, and so are the
three refinements. What a bot's weighted sum (`WeightedScore`, a fold) comes to is
proved of nothing but missing features; which features it rests on, not its value, is what the
properties ask.

## 5. What is not modelled

* Wallet history (`record_wallet_history`, `wallet_history`): nothing calls it.
* Reading and rejecting fixture files, configuration and arguments: pure input; `IsFixture` and
  `Gates` say what gets through.
* `SystemClock` and `FixedClock`: a replay uses the source-time clock.
* Primitive parsing, serialization, logging and the stopwatch: no state, and no property is about
  their wording.
* Overflow and underflow of a decimal's exponent: fixtures would have to declare numbers beyond
  10^999999.
* A power failure that loses what the operating system had accepted: the code does not sync, and a
  stop here is one of the process.

## 6. Plan

Done, in this order: `Metrics`, `ContinuousState`, `ReplaySession`, `Validation`, `Strategies`,
`Pipeline`, their runs and properties, `PreTradeGate`, `DocClaims`; then `FileStore` over
`AppendLog`, `ReplayDrivers`, `DecisionProtocol` under the pipeline, `DecimalGate`, `StoreClaims`;
and the proofs above.

Left: that a batch repeats as well as a stream does, with the refresher's states as part of the
place; the wallet history, once something calls it.
