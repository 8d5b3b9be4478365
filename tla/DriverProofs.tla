----------------------------- MODULE DriverProofs ----------------------------
(****************************************************************************)
(* What one process that drives one session in several passes keeps to, for *)
(* every deployment and every choice of stream and batch.                   *)
(****************************************************************************)
EXTENDS ReplayDrivers, AlertProofs, DecisionProofs

Modes == {"stream", "batch"}

\* The types of a driven pipeline: as the pipeline's, but a pass may be refused
\* and an event may be taken up before any time is known.
DriverTypeOK ==
    /\ SessionTypeOK
    /\ cache \in [Mints -> Optional(CachedTokens)]
    /\ sequence \in Nat
    /\ run \in 1 .. MaxRuns
    /\ pc \in Pcs \cup {"raised"}
    /\ IsFrame(frame)
    /\ pc \in Processing \cup {"raised"} => /\ pos > 0
                                            /\ frame.event \in 1 .. Current.events
                                            /\ cache[Current.mint] # None
    /\ pc \in Processing \ {"trigger"} => clock # None
    /\ pc \in Processing \ {"trigger", "capture"} => frame.snapshot # None
    /\ pc \in BotStages => frame.bot > 0
    /\ IsStore(drivers) /\ Len(drivers) = run /\ ToSet(drivers) \subseteq Modes

\* While it is not refused, and once it has a time, it is a typed pipeline.
LEMMA DriverIsTyped ==
    ASSUME DriverTypeOK, pc # "raised", pc = "trigger" => clock # None
    PROVE  TypeOK
  BY DEF DriverTypeOK, TypeOK, Processing, BotStages

LEMMA TypedIsDriver ==
    ASSUME TypeOK, IsStore(drivers), Len(drivers) = run, ToSet(drivers) \subseteq Modes
    PROVE  DriverTypeOK
  BY DEF DriverTypeOK, TypeOK, Processing, BotStages, Pcs

\* A stage of a driven pipeline is a stage of the pipeline.
LEMMA StageIsAStep ==
    ASSUME DriverTypeOK, Stage
    PROVE  TypeOK /\ Next /\ TypeOK' /\ UNCHANGED drivers
  <1>1. Next /\ UNCHANGED drivers
    BY DEF Stage, Next, Step
  <1>2. pc # "raised" /\ (pc = "trigger" => clock # None)
    BY DEF Stage, TimeIsKnown, Trigger, Capture, RecordCaptured, AnalyzeDelta,
           FilterCandidate, HeavyAnalysis, Scoring, PreTradeValidation, EmitAlert,
           RecordAction, Finish
  <1>3. QED
    BY <1>1, <1>2, DriverIsTyped, StepIsTyped

LEMMA StreamIsAStep ==
    ASSUME DriverTypeOK, StreamObserve
    PROVE  TypeOK /\ Next /\ TypeOK' /\ UNCHANGED drivers
  <1>1. TypeOK /\ Next /\ UNCHANGED drivers
    BY DriverIsTyped DEF StreamObserve, Observe, Next, Step
  <1>2. QED
    BY <1>1, StepIsTyped

\* What a pass over a batch processes next, and what a next pass starts from.
LEMMA BatchIsTyped ==
    ASSUME DriverTypeOK, BatchObserve
    PROVE  DriverTypeOK'
  <1>1. TypeOK /\ UNCHANGED <<fixture, clock, published, run, storeVars, drivers>>
        /\ pos < Len(fixture) /\ pos' = pos + 1
    BY DriverIsTyped DEF BatchObserve
  <1>2. PICK entry : entry = fixture[pos + 1]
    OBVIOUS
  <1>3. /\ pos \in Nat /\ pos + 1 \in 1 .. Len(fixture) /\ IsEntry(entry)
        /\ Current' = entry
    BY <1>1, <1>2, NextEntry DEF TypeOK, Current
  <1>4. /\ sequence' \in Nat
        /\ cache' \in [Mints -> Optional(CachedTokens)]
        /\ cache'[entry.mint] # None
        /\ IsFrame(frame')
        /\ \/ pc' = "source"
           \/ pc' = "trigger" /\ frame'.event = 1 /\ 1 \in 1 .. entry.events
    BY <1>1, <1>2, <1>3, ProcessIsTyped DEF BatchObserve
  <1>5. SessionTypeOK'
    BY <1>1, <1>3 DEF TypeOK, SessionTypeOK, IsRefreshedState
  <1>6. (IsStore(drivers) /\ Len(drivers) = run /\ ToSet(drivers) \subseteq Modes
         /\ run \in 1 .. MaxRuns)'
    BY <1>1 DEF DriverTypeOK, IsStore
  <1>7. pc' \in Pcs /\ (pc' \in Processing => pc' = "trigger") /\ pc' \notin BotStages
        /\ pc' # "raised"
    BY <1>4 DEF Pcs, Processing, BotStages
  <1>8. pc' \in Processing => /\ pos' > 0
                              /\ frame'.event \in 1 .. Current'.events
                              /\ cache'[Current'.mint] # None
    BY <1>1, <1>3, <1>4, <1>7
  <1>9. QED
    BY <1>4, <1>5, <1>6, <1>7, <1>8 DEF DriverTypeOK

LEMMA NextPassIsTyped ==
    ASSUME DriverTypeOK, NextPass
    PROVE  /\ DriverTypeOK'
           /\ \A r \in 1 .. run : drivers'[r] = drivers[r]
  <1>1. PICK driver \in Modes : drivers' = Append(drivers, driver)
    BY DEF NextPass, Modes
  <1>2. /\ IsStore(drivers') /\ Len(drivers') = run + 1
        /\ \A r \in 1 .. run : drivers'[r] = drivers[r]
        /\ ToSet(drivers') = ToSet(drivers) \cup {driver}
    BY <1>1, AppendExtends, AppendAdds DEF DriverTypeOK
  <1>3. /\ UNCHANGED <<fixture, clock, published, cache, sequence>>
        /\ run < MaxRuns /\ run' = run + 1 /\ pos' = 0 /\ pc' = "source" /\ frame' = NoFrame
    BY DEF NextPass, Continue
  <1>4. IsFrame(frame') /\ run' \in 1 .. MaxRuns
    BY <1>3, NoFrameIsFrame, MaxRunsAssumption DEF DriverTypeOK
  <1>5. pos' \in 0 .. Len(fixture')
    BY <1>3 DEF DriverTypeOK, SessionTypeOK
  <1>6. SessionTypeOK'
    BY <1>3, <1>5 DEF DriverTypeOK, SessionTypeOK, IsRefreshedState
  <1>7. QED
    BY <1>2, <1>3, <1>4, <1>6
       DEF DriverTypeOK, Processing, BotStages, Pcs, IsFrame, IsStore

LEMMA DriverStepIsTyped == DriverTypeOK /\ [DriverNext]_driverVars => DriverTypeOK'
  <1> SUFFICES ASSUME DriverTypeOK, [DriverNext]_driverVars PROVE DriverTypeOK'
    OBVIOUS
  <1>1. CASE StreamObserve \/ Stage
    <2>1. TypeOK' /\ UNCHANGED drivers /\ run' = run
      <3>1. TypeOK' /\ UNCHANGED drivers
        BY <1>1, StreamIsAStep, StageIsAStep
      <3>2. run' = run
        BY <1>1 DEF StreamObserve, Observe, Stage, Trigger, Capture, RecordCaptured,
                    AnalyzeDelta, FilterCandidate, HeavyAnalysis, Scoring,
                    PreTradeValidation, EmitAlert, RecordAction, Finish
      <3>3. QED
        BY <3>1, <3>2
    <2>2. (IsStore(drivers) /\ Len(drivers) = run /\ ToSet(drivers) \subseteq Modes)'
      BY <2>1 DEF DriverTypeOK, IsStore
    <2>3. QED
      BY <2>1, <2>2 DEF DriverTypeOK, TypeOK, Processing, BotStages, Pcs
  <1>2. CASE BatchObserve
    BY <1>2, BatchIsTyped
  <1>3. CASE NextPass
    BY <1>3, NextPassIsTyped
  <1>4. CASE RaiseNotConfigured
    BY <1>4 DEF RaiseNotConfigured, DriverTypeOK, SessionTypeOK, sessionVars, processVars,
                Pcs, Processing, BotStages, Current, IsFrame, IsStore, IsRefreshedState
  <1>5. CASE UNCHANGED driverVars
    BY <1>5 DEF driverVars, vars, DriverTypeOK, SessionTypeOK, Current, IsFrame, IsStore,
                IsRefreshedState
  <1>6. QED
    BY <1>1, <1>2, <1>3, <1>4, <1>5 DEF DriverNext

LEMMA DriverStartsTyped == DriverInit => DriverTypeOK
  <1> SUFFICES ASSUME DriverInit PROVE DriverTypeOK
    OBVIOUS
  <1>1. TypeOK /\ run = 1
    BY StartsTyped DEF DriverInit, Init
  <1>2. IsStore(drivers) /\ Len(drivers) = 1 /\ ToSet(drivers) \subseteq Modes
    BY DEF DriverInit, IsStore, ToSet, Modes
  <1>3. QED
    BY <1>1, <1>2, TypedIsDriver

\* Whoever drives a session, and however often, finds it typed.
LEMMA DriverTyping == DriverSpec => []DriverTypeOK
  BY DriverStartsTyped, DriverStepIsTyped, PTL DEF DriverSpec
------------------------------------------------------------------------------
\* Some pass up to the r-th was over the stream.
Streamed(r) == \E q \in 1 .. r : drivers[q] = "stream"

\* The entries the clock was told of: all after a pass over the stream, those
\* of this pass during the first.
ToldOf ==
    IF Streamed(run - 1) THEN 1 .. Len(fixture)
    ELSE IF Driver = "stream" THEN 1 .. pos ELSE {}

\* The inductive invariant about time: the clock covers what it was told of,
\* is without a time only as long as nothing was streamed, and an event met
\* till then was refused.
ClockInv ==
    /\ \A i \in ToldOf : clock # None /\ fixture[i].observed_at_ms =< clock
    /\ clock # None => Streamed(run)
    /\ clock = None =>
          /\ records = <<>> /\ snapshots = <<>> /\ alerts = <<>>
          /\ \A i \in 1 .. pos :
                fixture[i].events > 0 => i = pos /\ pc \in {"trigger", "raised"}
    /\ pc = "raised" => clock = None
    /\ pc = "done" => pos = Len(fixture)
    /\ pc \in Processing \cup {"raised"} => cache[Current.mint].last_slot = Current.slot

\* A stage moves neither session nor cache, and the clock only forwards.
LEMMA StageStays ==
    ASSUME DriverTypeOK, Stage
    PROVE  /\ UNCHANGED <<fixture, pos, published, run, cache, drivers>>
           /\ pc' # "raised"
           /\ pc' = "done" => pos = Len(fixture)
           /\ \/ Finish
              \/ pc \in Processing /\ clock \in Int /\ clock' \in Int /\ clock' >= clock
  <1>1. TypeOK /\ Next /\ TypeOK' /\ UNCHANGED drivers
    BY StageIsAStep
  <1>2. UNCHANGED <<fixture, pos, published, run, cache>>
    BY DEF Stage, Trigger, Capture, RecordCaptured, AnalyzeDelta, FilterCandidate,
           HeavyAnalysis, Scoring, PreTradeValidation, ReadOnly, KeepDeclared, EmitAlert,
           RecordAction, Finish, sessionVars, processVars
  <1>3. pc' # "raised"
    BY <1>1 DEF TypeOK, Pcs
  <1>4. Finish \/ pc \in Processing
    BY DEF Stage, Trigger, Capture, RecordCaptured, AnalyzeDelta, FilterCandidate,
           HeavyAnalysis, Scoring, PreTradeValidation, EmitAlert, RecordAction, Processing
  <1>5. pc \in Processing => clock \in Int /\ clock' \in Int /\ clock' >= clock
    <2>1. pc \in Processing => ~Boot
      BY DEF Boot, Processing
    <2>2. QED
      BY <1>1, <2>1, ClockIsSet, StepKeepsTime
  <1>6. ASSUME pc' = "done" PROVE pos = Len(fixture)
    <2>1. \A fr : MoveOn(fr) => pc' # "done"
      BY DEF MoveOn, NextEvent, Continue
    <2>2. Finish
      <3>1. CASE AnalyzeDelta \/ RecordAction
        BY <1>6, <2>1, <3>1 DEF AnalyzeDelta, RecordAction
      <3>2. CASE FilterCandidate
        BY <1>6, <2>1, <3>2, Zenon DEF FilterCandidate, Continue
      <3>3. CASE HeavyAnalysis
        BY <1>6, <2>1, <3>3, Zenon DEF HeavyAnalysis, Continue
      <3>4. CASE Scoring
        BY <1>6, <2>1, <3>4, Zenon DEF Scoring, Continue
      <3>5. CASE PreTradeValidation
        BY <1>6, <2>1, <3>5, Zenon DEF PreTradeValidation, Continue
      <3>6. CASE Trigger \/ Capture \/ RecordCaptured \/ EmitAlert
        BY <1>6, <3>6 DEF Trigger, Capture, RecordCaptured, EmitAlert, Continue
      <3>7. QED
        BY <3>1, <3>2, <3>3, <3>4, <3>5, <3>6 DEF Stage
    <2>3. QED
      BY <2>2 DEF Finish
  <1>7. QED
    BY <1>1, <1>2, <1>3, <1>4, <1>5, <1>6

\* What both ways of handing over an observation have in common.
HandsOver ==
    /\ TakesUp
    /\ LET entry == fixture[pos + 1] IN
          /\ ConsumeSequence(CaptureKnown(entry.mint))
          /\ Apply(entry.mint, entry.slot, entry.observed_at_ms, Reported(entry))
    /\ UNCHANGED drivers

LEMMA BothHandOver == StreamObserve \/ BatchObserve => HandsOver
  <1>1. StreamObserve => HandsOver
    BY ObserveTakesUp DEF StreamObserve, Observe, HandsOver
  <1>2. BatchObserve => HandsOver
    BY DEF BatchObserve, HandsOver, TakesUp
  <1>3. QED
    BY <1>1, <1>2

\* What is handed over is an entry, and the cache is then of it.
LEMMA HandedOver ==
    ASSUME DriverTypeOK, HandsOver
    PROVE  /\ pos \in Nat /\ pos' = pos + 1 /\ pos + 1 \in 1 .. Len(fixture)
           /\ IsEntry(fixture[pos + 1]) /\ Current' = fixture[pos + 1]
           /\ cache'[Current'.mint].last_slot = Current'.slot
           /\ \A m : m # Current'.mint => cache'[m] = cache[m]
           /\ \/ pc' = "source" /\ Current'.events = 0
              \/ pc' = "trigger" /\ frame' = EventFrame(1, CaptureKnown(Current'.mint))
  <1>1. PICK entry : entry = fixture[pos + 1]
    OBVIOUS
  <1>2. /\ pos \in Nat /\ pos' = pos + 1 /\ pos + 1 \in 1 .. Len(fixture)
        /\ IsEntry(entry) /\ Current' = entry
    BY <1>1, NextEntry DEF HandsOver, TakesUp, DriverTypeOK, Current
  <1>3. PICK token : /\ token = [metrics         |-> MergeMetrics(KnownMetrics(entry.mint),
                                                                  Reported(entry)),
                                 last_slot       |-> entry.slot,
                                 last_updated_ms |-> entry.observed_at_ms]
                     /\ cache' = [cache EXCEPT ![entry.mint] = token]
    BY <1>1 DEF HandsOver, Apply
  <1>4. token.last_slot = entry.slot
    BY <1>3
  <1>5. /\ cache'[entry.mint] = token
        /\ \A m : m # entry.mint => cache'[m] = cache[m]
    BY <1>2, <1>3 DEF DriverTypeOK, IsEntry
  <1>6. \/ pc' = "source" /\ entry.events = 0
        \/ pc' = "trigger" /\ frame' = EventFrame(1, CaptureKnown(entry.mint))
    BY <1>1 DEF HandsOver, TakesUp, Continue
  <1>7. QED
    BY <1>1, <1>2, <1>4, <1>5, <1>6

\* A stream tells the clock of what it hands over, a batch does not.
LEMMA HandingOverCovers ==
    ASSUME DriverTypeOK, ClockInv, StreamObserve \/ BatchObserve
    PROVE  ClockInv'
  <1>1. HandsOver
    BY BothHandOver
  <1>2. /\ pos \in Nat /\ pos' = pos + 1 /\ pos + 1 \in 1 .. Len(fixture)
        /\ IsEntry(fixture[pos + 1]) /\ Current' = fixture[pos + 1]
        /\ cache'[Current'.mint].last_slot = Current'.slot
        /\ (pc' = "source" /\ Current'.events = 0) \/ pc' = "trigger"
    BY <1>1, HandedOver
  <1>3. UNCHANGED <<fixture, run, drivers, records, snapshots, alerts>> /\ pc = "source"
        /\ run \in Nat /\ run > 0
    BY <1>1, MaxRunsAssumption DEF HandsOver, TakesUp, storeVars, DriverTypeOK
  <1>4. Streamed(run)' = Streamed(run) /\ Streamed(run - 1)' = Streamed(run - 1)
    BY <1>3 DEF Streamed
  <1>5. \A i \in 1 .. Len(fixture) : fixture[i].observed_at_ms \in Int
    BY FixturesAssumption DEF DriverTypeOK, SessionTypeOK, IsFixture, IsEntry
  <1>6. CASE StreamObserve
    <2>1. /\ clock' = ObserveTime(clock, fixture[pos + 1].observed_at_ms)
          /\ clock \in Optional(Int)
          /\ drivers[run] = "stream"
      BY <1>6 DEF StreamObserve, Observe, Yield, Driver, DriverTypeOK, SessionTypeOK
    <2>2. /\ clock' \in Int /\ clock' >= fixture[pos + 1].observed_at_ms
          /\ clock \in Int => clock' >= clock
      BY <1>2, <1>5, <2>1, ObserveTimeIsLatest
    <2>3. Streamed(run)'
      BY <1>3, <1>4, <2>1 DEF Streamed
    <2>4. clock' # None
      BY <2>2, NoneAssumption
    <2>5. ASSUME NEW i \in ToldOf' PROVE fixture[i].observed_at_ms =< clock'
      <3>1. i \in ToldOf \/ i = pos + 1
        BY <1>2, <1>3, <1>4, <2>1 DEF ToldOf, Driver
      <3>2. ASSUME i \in ToldOf PROVE fixture[i].observed_at_ms =< clock'
        <4>1. clock \in Int /\ fixture[i].observed_at_ms =< clock
          BY <2>1, <3>2 DEF ClockInv, Optional
        <4>2. i \in 1 .. Len(fixture)
          BY <1>2, <1>3, <1>4, <2>5 DEF ToldOf, Driver
        <4>3. QED
          BY <1>5, <2>2, <4>1, <4>2
      <3>3. QED
        BY <2>2, <3>1, <3>2
    <2>6. QED
      BY <1>2, <1>3, <2>3, <2>4, <2>5 DEF ClockInv
  <1>7. CASE BatchObserve
    <2>1. clock' = clock /\ drivers[run] = "batch"
      BY <1>7 DEF BatchObserve, Driver
    <2>2. ToldOf' = ToldOf
      BY <1>3, <1>4, <2>1 DEF ToldOf, Driver
    <2>3. ASSUME clock = None, NEW i \in 1 .. pos', fixture[i].events > 0
          PROVE  i = pos' /\ pc' = "trigger"
      <3>1. ~(i \in 1 .. pos)
        BY <1>3, <2>3 DEF ClockInv
      <3>2. i = pos + 1
        BY <1>2, <3>1
      <3>3. QED
        BY <1>2, <2>3, <3>2
    <2>4. QED
      BY <1>2, <1>3, <1>4, <2>1, <2>2, <2>3 DEF ClockInv
  <1>8. QED
    BY <1>6, <1>7

LEMMA StageCovers ==
    ASSUME DriverTypeOK, ClockInv, Stage
    PROVE  ClockInv'
  <1>1. /\ UNCHANGED <<fixture, pos, run, cache, drivers>>
        /\ pc' # "raised"
        /\ pc' = "done" => pos = Len(fixture)
        /\ \/ Finish
           \/ pc \in Processing /\ clock \in Int /\ clock' \in Int /\ clock' >= clock
    BY StageStays
  <1>2. ToldOf' = ToldOf /\ Streamed(run)' = Streamed(run) /\ Current' = Current
    BY <1>1 DEF ToldOf, Driver, Streamed, Current
  <1>3. CASE Finish
    <2>1. UNCHANGED <<clock, records, snapshots, alerts>> /\ pc = "source" /\ pc' = "done"
      BY <1>3 DEF Finish, sessionVars, storeVars
    <2>2. QED
      BY <1>1, <1>2, <2>1 DEF ClockInv, Processing
  <1>4. CASE pc \in Processing /\ clock \in Int /\ clock' \in Int /\ clock' >= clock
    <2>1. clock' # None /\ clock # None
      BY <1>4, NoneAssumption
    <2>2. ToldOf \subseteq 1 .. Len(fixture)
      BY DEF DriverTypeOK, SessionTypeOK, ToldOf
    <2>3. \A i \in ToldOf : fixture[i].observed_at_ms \in Int
      BY <2>2, FixturesAssumption DEF DriverTypeOK, SessionTypeOK, IsFixture, IsEntry
    <2>4. \A i \in ToldOf' : fixture'[i].observed_at_ms =< clock'
      BY <1>1, <1>2, <1>4, <2>3 DEF ClockInv
    <2>5. QED
      BY <1>1, <1>2, <1>4, <2>1, <2>4 DEF ClockInv
  <1>5. QED
    BY <1>1, <1>3, <1>4

\* After a pass that went through, or was refused, the clock covers all that
\* was streamed.
LEMMA NextPassCovers ==
    ASSUME DriverTypeOK, ClockInv, NextPass
    PROVE  ClockInv' /\ (Streamed(run) => 1 .. Len(fixture) \subseteq ToldOf)
                     /\ (pc = "raised" => ~Streamed(run))
  <1>1. /\ UNCHANGED <<fixture, clock, cache, records, snapshots, alerts>>
        /\ pc \in {"done", "raised"} /\ run' = run + 1 /\ pos' = 0 /\ pc' = "source"
        /\ run \in Nat /\ run > 0 /\ pos \in 0 .. Len(fixture)
    BY MaxRunsAssumption DEF NextPass, Continue, storeVars, DriverTypeOK, SessionTypeOK
  <1>2. \A r \in 1 .. run : drivers'[r] = drivers[r]
    BY NextPassIsTyped
  <1>3. Streamed(run)' <=> \E q \in 1 .. run + 1 : drivers'[q] = "stream"
    BY <1>1 DEF Streamed
  <1>4. Streamed(run - 1)' <=> Streamed(run)
    BY <1>1, <1>2 DEF Streamed
  <1>5. Streamed(run) => Streamed(run - 1) \/ Driver = "stream"
    BY <1>1 DEF Streamed, Driver
  <1>6. ASSUME Streamed(run) PROVE pc = "done" /\ ToldOf = 1 .. Len(fixture)
    <2>1. CASE pc = "done"
      BY <1>1, <1>5, <1>6, <2>1 DEF ClockInv, ToldOf
    <2>2. CASE pc = "raised"
      <3>1. pos > 0 /\ clock = None
        BY <2>2 DEF DriverTypeOK, ClockInv
      <3>2. 1 \in ToldOf
        BY <1>1, <1>5, <1>6, <3>1 DEF ToldOf
      <3>3. QED
        BY <3>1, <3>2 DEF ClockInv
    <2>3. QED
      BY <1>1, <2>1, <2>2
  <1>7. ToldOf' \subseteq ToldOf
    BY <1>1, <1>4, <1>6 DEF ToldOf
  <1>8. Streamed(run) => Streamed(run)'
    BY <1>1, <1>2, <1>3 DEF Streamed
  <1>9. QED
    BY <1>1, <1>6, <1>7, <1>8 DEF ClockInv, Processing

LEMMA DriverStepCovers == DriverTypeOK /\ ClockInv /\ [DriverNext]_driverVars => ClockInv'
  <1> SUFFICES ASSUME DriverTypeOK, ClockInv, [DriverNext]_driverVars PROVE ClockInv'
    OBVIOUS
  <1>1. CASE RaiseNotConfigured
    <2>1. /\ UNCHANGED <<fixture, pos, clock, run, cache, drivers, records, snapshots, alerts>>
          /\ pc = "trigger" /\ pc' = "raised" /\ clock = None
      BY <1>1 DEF RaiseNotConfigured, TimeIsKnown, sessionVars, processVars, storeVars
    <2>2. UNCHANGED <<ToldOf, Streamed(run), Current>>
      BY <2>1 DEF ToldOf, Driver, Streamed, Current
    <2>3. QED
      BY <2>1, <2>2 DEF ClockInv, Processing
  <1>2. CASE UNCHANGED driverVars
    BY <1>2 DEF driverVars, vars, ClockInv, ToldOf, Driver, Streamed, Current
  <1>3. QED
    BY <1>1, <1>2, HandingOverCovers, StageCovers, NextPassCovers DEF DriverNext

LEMMA DriverStartsCovered == DriverInit => ClockInv
  BY DEF DriverInit, Init, SessionInit, Opened, ClockInv, ToldOf, Streamed, Driver, Processing

LEMMA ClockIsDriven == DriverSpec => []ClockInv
  BY DriverStartsCovered, DriverStepCovers, DriverTyping, PTL DEF DriverSpec

\* Whatever order a session is streamed and batched in, a batch that meets an
\* event before any time was reported is refused without a trace of it in
\* stores or sink, while continuous state already holds the observation.
THEOREM RefusedLeavesNoTrace == DriverSpec => []TimelessLeavesNoTrace
  <1>1. ClockInv => TimelessLeavesNoTrace
    BY DEF ClockInv, TimelessLeavesNoTrace
  <1>2. QED
    BY <1>1, ClockIsDriven, PTL
------------------------------------------------------------------------------
\* The inductive invariant about order: no snapshot has a number that is still
\* to come, no record a time the clock has not reached.
OrderInv ==
    /\ IsStore(snapshots) /\ IsStore(records)
    /\ \A i \in DOMAIN snapshots :
          snapshots[i].snapshot.sequence \in Int /\ snapshots[i].snapshot.sequence < sequence
    /\ \A i \in DOMAIN records :
          records[i].occurred_at_ms \in Int /\ clock \in Int /\ records[i].occurred_at_ms =< clock
    /\ NumbersAndTimesSpanPasses

\* A number given is the last so far, and so is the time of a record.
LEMMA StageKeepsOrder ==
    ASSUME DriverTypeOK, OrderInv, Stage
    PROVE  OrderInv'
  <1>1. /\ TypeOK /\ Next /\ sequence \in Nat
        /\ \/ Finish
           \/ pc \in Processing /\ clock \in Int /\ clock' \in Int /\ clock' >= clock
    BY StageIsAStep, StageStays DEF DriverTypeOK
  <1>2. /\ Len(records) \in Nat /\ DOMAIN records = 1 .. Len(records)
        /\ Len(snapshots) \in Nat /\ DOMAIN snapshots = 1 .. Len(snapshots)
    BY DEF OrderInv, IsStore
  <1>3. /\ IsStore(records')
        /\ \A i \in DOMAIN records' :
              records'[i].occurred_at_ms \in Int /\ clock' \in Int
              /\ records'[i].occurred_at_ms =< clock'
        /\ \A i \in DOMAIN records' : \A j \in i + 1 .. Len(records') :
              records'[i].occurred_at_ms =< records'[j].occurred_at_ms
    <2>1. CASE records' = records
      <3>1. Finish => clock' = clock
        BY DEF Finish, sessionVars
      <3>2. QED
        BY <1>1, <2>1, <3>1, SMTT(30) DEF OrderInv, NumbersAndTimesSpanPasses, IsStore
    <2>2. CASE records' # records
      <3>1. PICK r : records' = Append(records, r) /\ r.occurred_at_ms = clock'
        <4>1. PICK stage, strategy, outcome, detail :
                 records' = Append(records, Record(stage, strategy, outcome, clock', detail))
          BY <1>1, <2>2, StepRecords
        <4>2. QED
          BY <4>1 DEF Record
      <3>2. clock \in Int /\ clock' \in Int /\ clock' >= clock
        BY <1>1, <2>2 DEF Finish, storeVars
      <3>3. /\ IsStore(records') /\ Len(records') = Len(records) + 1
            /\ records'[Len(records) + 1] = r
            /\ \A i \in 1 .. Len(records) : records'[i] = records[i]
        BY <3>1, AppendExtends DEF OrderInv
      <3>4. DOMAIN records' = 1 .. Len(records) + 1
        BY <3>3 DEF IsStore
      <3>5. \A i \in 1 .. Len(records) + 1 :
               records'[i].occurred_at_ms \in Int /\ records'[i].occurred_at_ms =< clock'
        BY <1>2, <3>1, <3>2, <3>3 DEF OrderInv
      <3>6. ASSUME NEW i \in DOMAIN records', NEW j \in i + 1 .. Len(records')
            PROVE  records'[i].occurred_at_ms =< records'[j].occurred_at_ms
        <4>1. CASE j = Len(records) + 1
          BY <3>1, <3>3, <3>4, <3>5, <4>1
        <4>2. CASE j # Len(records) + 1
          <5>1. i \in 1 .. Len(records) /\ j \in i + 1 .. Len(records)
            BY <1>2, <3>3, <3>4, <4>2
          <5>2. j \in 1 .. Len(records)
            BY <1>2, <5>1
          <5>3. QED
            BY <1>2, <3>3, <5>1, <5>2 DEF OrderInv, NumbersAndTimesSpanPasses
        <4>3. QED
          BY <4>1, <4>2
      <3>7. QED
        BY <3>2, <3>3, <3>4, <3>5, <3>6
    <2>3. QED
      BY <2>1, <2>2
  <1>4. /\ IsStore(snapshots')
        /\ \A i \in DOMAIN snapshots' :
              snapshots'[i].snapshot.sequence \in Int
              /\ snapshots'[i].snapshot.sequence < sequence'
        /\ \A i \in DOMAIN snapshots' : \A j \in i + 1 .. Len(snapshots') :
              snapshots'[i].snapshot.sequence < snapshots'[j].snapshot.sequence
    <2>1. CASE Capture
      <3>1. PICK snapshot :
               snapshot = CaptureAt(Current.mint, Current.slot, Current.observed_at_ms)
        OBVIOUS
      <3>2. PICK s : s = [run |-> run, pos |-> pos, event |-> frame.event, snapshot |-> snapshot]
        OBVIOUS
      <3>3. s.snapshot.sequence = sequence /\ snapshot # None
        <4>1. snapshot \in Snapshots
          BY <1>1, <2>1, <3>1, CapturedIsSnapshot DEF Capture
        <4>2. snapshot.sequence = sequence
          BY <3>1 DEF CaptureAt
        <4>3. QED
          BY <3>2, <4>1, <4>2, AbsenceAssumption
      <3>4. snapshots' = Append(snapshots, s) /\ sequence' = sequence + 1
        BY <2>1, <3>1, <3>2, <3>3 DEF Capture, ConsumeSequence
      <3>5. /\ IsStore(snapshots') /\ Len(snapshots') = Len(snapshots) + 1
            /\ snapshots'[Len(snapshots) + 1] = s
            /\ \A i \in 1 .. Len(snapshots) : snapshots'[i] = snapshots[i]
        BY <3>4, AppendExtends DEF OrderInv
      <3>6. DOMAIN snapshots' = 1 .. Len(snapshots) + 1
        BY <3>5 DEF IsStore
      <3>7. ASSUME NEW i \in DOMAIN snapshots', NEW j \in i + 1 .. Len(snapshots')
            PROVE  snapshots'[i].snapshot.sequence < snapshots'[j].snapshot.sequence
        <4>0. i \in 1 .. Len(snapshots)
          BY <1>2, <3>5, <3>6
        <4>1. CASE j = Len(snapshots) + 1
          BY <1>2, <3>3, <3>5, <4>0, <4>1 DEF OrderInv
        <4>2. CASE j # Len(snapshots) + 1
          <5>1. j \in i + 1 .. Len(snapshots) /\ j \in 1 .. Len(snapshots)
            BY <1>2, <3>5, <4>0, <4>2
          <5>2. QED
            BY <1>2, <3>5, <4>0, <5>1 DEF OrderInv, NumbersAndTimesSpanPasses
        <4>3. QED
          BY <4>1, <4>2
      <3>8. \A i \in 1 .. Len(snapshots) + 1 :
               snapshots'[i].snapshot.sequence \in Int
               /\ snapshots'[i].snapshot.sequence < sequence'
        BY <1>1, <1>2, <3>3, <3>4, <3>5 DEF OrderInv
      <3>9. QED
        BY <3>5, <3>6, <3>7, <3>8
    <2>2. CASE ~Capture
      <3>1. snapshots' = snapshots /\ sequence' >= sequence
        <4>1. CASE PreTradeValidation
          BY <1>1, <4>1 DEF PreTradeValidation, ConsumeSequence
        <4>2. CASE ~PreTradeValidation
          BY <1>1, <2>2, <4>2
             DEF Stage, Trigger, RecordCaptured, AnalyzeDelta, FilterCandidate, HeavyAnalysis,
                 Scoring, EmitAlert, RecordAction, Finish, storeVars, processVars
        <4>3. QED
          BY <4>1, <4>2
      <3>2. sequence' \in Int
        BY <1>1, StageIsAStep DEF TypeOK
      <3>3. QED
        BY <1>1, <3>1, <3>2, SMTT(30) DEF OrderInv, NumbersAndTimesSpanPasses, IsStore
    <2>3. QED
      BY <2>1, <2>2
  <1>5. QED
    BY <1>3, <1>4 DEF OrderInv, NumbersAndTimesSpanPasses

LEMMA OtherStepsKeepOrder ==
    ASSUME DriverTypeOK, OrderInv,
           StreamObserve \/ BatchObserve \/ RaiseNotConfigured \/ NextPass \/ UNCHANGED driverVars
    PROVE  OrderInv'
  <1>1. UNCHANGED <<snapshots, records>>
    BY DEF StreamObserve, Observe, BatchObserve, RaiseNotConfigured, NextPass, driverVars, vars,
           storeVars
  <1>2. sequence' \in Int /\ sequence' >= sequence /\ sequence \in Int
    <2>1. sequence \in Nat
      BY DEF DriverTypeOK
    <2>2. CASE StreamObserve \/ BatchObserve
      BY <2>1, <2>2, BothHandOver DEF HandsOver, ConsumeSequence
    <2>3. CASE RaiseNotConfigured \/ NextPass \/ UNCHANGED driverVars
      BY <2>1, <2>3 DEF RaiseNotConfigured, NextPass, driverVars, vars, processVars
    <2>4. QED
      BY <2>2, <2>3
  <1>3. clock \in Int => clock' \in Int /\ clock' >= clock
    <2>1. CASE StreamObserve
      <3>1. TypeOK /\ Next /\ ~Boot
        BY <2>1, StreamIsAStep DEF StreamObserve, Observe, Boot
      <3>2. QED
        BY <3>1, StepKeepsTime
    <2>2. CASE BatchObserve \/ RaiseNotConfigured \/ NextPass \/ UNCHANGED driverVars
      BY <2>2 DEF BatchObserve, RaiseNotConfigured, NextPass, driverVars, vars, sessionVars
    <2>3. QED
      BY <2>1, <2>2
  <1>4. NumbersAndTimesSpanPasses'
    BY <1>1 DEF OrderInv, NumbersAndTimesSpanPasses
  <1>5. \A i \in DOMAIN snapshots' :
           snapshots'[i].snapshot.sequence \in Int /\ snapshots'[i].snapshot.sequence < sequence'
    BY <1>1, <1>2 DEF OrderInv
  <1>6. \A i \in DOMAIN records' :
           records'[i].occurred_at_ms \in Int /\ clock' \in Int /\ records'[i].occurred_at_ms =< clock'
    BY <1>1, <1>3 DEF OrderInv
  <1>7. IsStore(snapshots') /\ IsStore(records')
    BY <1>1 DEF OrderInv, IsStore
  <1>8. QED
    BY <1>4, <1>5, <1>6, <1>7 DEF OrderInv

\* Over all passes of a process, however they are driven, snapshot numbers
\* increase and the times of records do not go back.
THEOREM OrderSpansPasses == DriverSpec => []NumbersAndTimesSpanPasses
  <1>1. DriverInit => OrderInv
    BY DEF DriverInit, Init, OrderInv, NumbersAndTimesSpanPasses, IsStore
  <1>2. DriverTypeOK /\ OrderInv /\ [DriverNext]_driverVars => OrderInv'
    BY StageKeepsOrder, OtherStepsKeepOrder DEF DriverNext
  <1>3. OrderInv => NumbersAndTimesSpanPasses
    BY DEF OrderInv
  <1>4. QED
    BY <1>1, <1>2, <1>3, DriverTyping, PTL DEF DriverSpec
------------------------------------------------------------------------------
\* The observations of a token, and those of them it was streamed in last: in
\* this pass, or else in one before it.
OfToken(m) == {i \in DOMAIN fixture : fixture[i].mint = m}

LastStreamed(m) ==
    IF Driver = "stream" /\ Yielded(m) # {} THEN Yielded(m)
    ELSE IF Streamed(run - 1) THEN OfToken(m) ELSE {}

\* The inductive invariant about the refresher: its states are what the last
\* observations that were streamed declared.
PublishedInv ==
    \A m \in Mints :
        published[m] = IF LastStreamed(m) = {} THEN None
                       ELSE DeclaredBy(fixture[Max(LastStreamed(m))])

LEMMA StreamPublishes ==
    ASSUME DriverTypeOK, PublishedInv, StreamObserve
    PROVE  PublishedInv'
  <1>1. PICK e : e = fixture[pos + 1]
    OBVIOUS
  <1>2. /\ pos \in Nat /\ pos' = pos + 1 /\ UNCHANGED <<fixture, run, drivers>>
        /\ published' = [published EXCEPT ![e.mint] = DeclaredBy(e)]
        /\ DOMAIN published = Mints /\ Driver = "stream"
    BY <1>1, NextEntry DEF StreamObserve, Observe, Yield, Publish, DriverTypeOK, SessionTypeOK
  <1>3. Driver' = "stream" /\ Streamed(run - 1)' = Streamed(run - 1)
        /\ \A m : OfToken(m)' = OfToken(m)
    BY <1>2 DEF Driver, Streamed, OfToken
  <1>4. ASSUME NEW m \in Mints
        PROVE  published'[m] = IF LastStreamed(m)' = {} THEN None
                               ELSE DeclaredBy(fixture[Max(LastStreamed(m)')])
    <2>1. CASE m = e.mint
      <3>1. LastStreamed(m)' = Yielded(m)' /\ pos + 1 \in Yielded(m)'
        BY <1>1, <1>2, <1>3, <2>1 DEF LastStreamed, Yielded
      <3>2. Yielded(m)' \subseteq Int /\ \A j \in Yielded(m)' : j =< pos + 1
        BY <1>2 DEF Yielded
      <3>3. Max(Yielded(m)') = pos + 1
        BY <3>1, <3>2, LastIsMax
      <3>4. published'[m] = DeclaredBy(e)
        BY <1>2, <2>1
      <3>5. QED
        BY <1>1, <3>1, <3>3, <3>4
    <2>2. CASE m # e.mint
      <3>1. Yielded(m)' = Yielded(m)
        BY <1>1, <1>2, <2>2 DEF Yielded
      <3>2. LastStreamed(m)' = LastStreamed(m)
        BY <1>2, <1>3, <3>1 DEF LastStreamed
      <3>3. published'[m] = published[m]
        BY <1>2, <2>2
      <3>4. QED
        BY <3>2, <3>3 DEF PublishedInv
    <2>3. QED
      BY <2>1, <2>2
  <1>5. \A x : DeclaredBy(x)' = DeclaredBy(x)
    BY DEF DeclaredBy, RefreshedState
  <1>6. QED
    BY <1>2, <1>4, <1>5 DEF PublishedInv

LEMMA OtherStepsPublish ==
    ASSUME DriverTypeOK, ClockInv, PublishedInv,
           BatchObserve \/ RaiseNotConfigured \/ Stage \/ NextPass \/ UNCHANGED driverVars
    PROVE  PublishedInv'
  <1>1. UNCHANGED <<fixture, published>>
    BY StageStays DEF BatchObserve, RaiseNotConfigured, NextPass, driverVars, vars, sessionVars
  <1>2. ASSUME NEW m \in Mints PROVE LastStreamed(m)' = LastStreamed(m)
    <2>1. CASE BatchObserve
      BY <2>1 DEF BatchObserve, LastStreamed, Driver, Streamed, OfToken
    <2>2. CASE RaiseNotConfigured \/ Stage \/ UNCHANGED driverVars
      <3>1. UNCHANGED <<fixture, pos, run, drivers>>
        BY <2>2, StageStays DEF RaiseNotConfigured, driverVars, vars, sessionVars
      <3>2. QED
        BY <3>1 DEF LastStreamed, Driver, Streamed, OfToken, Yielded
    <2>3. CASE NextPass
      <3>1. /\ pos' = 0 /\ run' = run + 1 /\ run \in Nat /\ run > 0
            /\ pc \in {"done", "raised"}
            /\ pc = "done" => pos = Len(fixture)
            /\ DOMAIN fixture = 1 .. Len(fixture)
        BY <2>3, MaxRunsAssumption, FixturesAssumption
           DEF NextPass, DriverTypeOK, SessionTypeOK, ClockInv, IsFixture
      <3>2. Streamed(run - 1)' <=> Streamed(run)
        BY <2>3, <3>1, NextPassIsTyped DEF Streamed
      <3>3. Yielded(m)' = {} /\ OfToken(m)' = OfToken(m)
        BY <1>1, <3>1 DEF Yielded, OfToken
      <3>4. LastStreamed(m)' = IF Streamed(run) THEN OfToken(m) ELSE {}
        BY <3>2, <3>3 DEF LastStreamed
      <3>5. CASE Streamed(run)
        <4>1. pos = Len(fixture)
          BY <2>3, <3>1, <3>5, NextPassCovers
        <4>2. Yielded(m) = OfToken(m)
          BY <3>1, <4>1 DEF Yielded, OfToken
        <4>3. Streamed(run - 1) \/ Driver = "stream"
          BY <3>1, <3>5 DEF Streamed, Driver
        <4>4. QED
          BY <3>4, <3>5, <4>2, <4>3 DEF LastStreamed
      <3>6. CASE ~Streamed(run)
        <4>1. ~Streamed(run - 1) /\ Driver # "stream"
          BY <3>1, <3>6 DEF Streamed, Driver
        <4>2. QED
          BY <3>4, <3>6, <4>1 DEF LastStreamed
      <3>7. QED
        BY <3>5, <3>6
    <2>4. QED
      BY <2>1, <2>2, <2>3
  <1>3. \A x : DeclaredBy(x)' = DeclaredBy(x)
    BY DEF DeclaredBy, RefreshedState
  <1>4. QED
    BY <1>1, <1>2, <1>3 DEF PublishedInv

LEMMA RefresherIsDriven == DriverSpec => []PublishedInv
  <1>1. DriverInit => PublishedInv
    BY DEF DriverInit, Init, SessionInit, Opened, PublishedInv, LastStreamed, Yielded, Streamed
  <1>2. DriverTypeOK /\ ClockInv /\ PublishedInv /\ [DriverNext]_driverVars => PublishedInv'
    BY StreamPublishes, OtherStepsPublish DEF DriverNext
  <1>3. QED
    BY <1>1, <1>2, DriverTyping, ClockIsDriven, PTL DEF DriverSpec
------------------------------------------------------------------------------
\* What a verdict v on an event of entry p in the r-th pass is worth, of a
\* decision taken on the snapshot decided, when it is acted on at the time now.
ReadStreamed(r, p, v) ==
    LET declared == fixture[ReadSource([run |-> r, pos |-> p])].validation_state IN
    /\ Streamed(r)
    /\ declared # None
    /\ v.checked_snapshot.slot = declared.slot
    /\ v.checked_snapshot.captured_at_ms = declared.observed_at_ms

VouchedInPass(r, p, decided, v, now) ==
    ReadStreamed(r, p, v) /\ FreshRead(p, v, now) /\ NotDeteriorated(decided, v)

\* The inductive invariant about alerts, over all passes.
DrivenAlertsVouched ==
    /\ IsStore(alerts)
    /\ \A a \in ToSet(alerts) :
          /\ a.run \in 1 .. run
          /\ VouchedInPass(a.run, a.pos, a.snapshot, a.validation, a.raised_at_ms)
    /\ pc = "alert" => VouchedInPass(run, pos, frame.snapshot, frame.checked, clock)

\* A re-read answers with an observation of the token that was streamed, and
\* the clock covers the observation it is about.
LEMMA RereadWasStreamed ==
    ASSUME DriverTypeOK, TypeOK, ClockInv, PublishedInv, pc \in Processing,
           published[Current.mint] # None
    PROVE  LET source == ReadSource([run |-> run, pos |-> pos]) IN
           /\ source \in DOMAIN fixture
           /\ published[Current.mint] = DeclaredBy(fixture[source])
           /\ Streamed(run)
           /\ \A i \in 1 .. pos : fixture[i].observed_at_ms =< clock
  <1>1. PICK m : m = Current.mint
    OBVIOUS
  <1>2. /\ pos \in 1 .. Len(fixture) /\ m \in Mints
        /\ Len(fixture) \in Nat /\ DOMAIN fixture = 1 .. Len(fixture)
        /\ run \in Nat /\ run > 0
    BY <1>1, CurrentEntry, ClockIsSet, FixturesAssumption, MaxRunsAssumption
       DEF TypeOK, SessionTypeOK, IsFixture
  <1>3. LastStreamed(m) # {} /\ published[m] = DeclaredBy(fixture[Max(LastStreamed(m))])
    BY <1>1, <1>2 DEF PublishedInv
  <1>4. pos \in Yielded(m) /\ pos \in OfToken(m)
    BY <1>1, <1>2 DEF Yielded, OfToken, Current
  <1>5. CASE Driver = "stream"
    <2>1. LastStreamed(m) = Yielded(m)
      BY <1>4, <1>5 DEF LastStreamed
    <2>2. Yielded(m) \subseteq Int /\ \A j \in Yielded(m) : j =< pos
      BY <1>2 DEF Yielded
    <2>3. Max(LastStreamed(m)) = pos
      BY <1>4, <2>1, <2>2, LastIsMax
    <2>4. ReadSource([run |-> run, pos |-> pos]) = pos
      BY <1>5 DEF ReadSource, Driver
    <2>5. Streamed(run)
      BY <1>2, <1>5 DEF Streamed, Driver
    <2>6. 1 .. pos \subseteq ToldOf
      BY <1>2, <1>5 DEF ToldOf
    <2>7. QED
      BY <1>1, <1>2, <1>3, <2>3, <2>4, <2>5, <2>6 DEF ClockInv
  <1>6. CASE Driver # "stream"
    <2>1. LastStreamed(m) = OfToken(m) /\ Streamed(run - 1)
      BY <1>3, <1>6 DEF LastStreamed
    <2>2. OfToken(m) \subseteq 1 .. Len(fixture)
      BY <1>2 DEF OfToken
    <2>3. Max(OfToken(m)) \in OfToken(m)
      BY <1>2, <1>4, <2>2, MaxIsLast
    <2>4. OfToken(m) = {i \in DOMAIN fixture : fixture[i].mint = fixture[pos].mint}
      BY <1>1 DEF OfToken, Current
    <2>5. ReadSource([run |-> run, pos |-> pos]) = Max(OfToken(m))
      BY <1>6, <2>4 DEF ReadSource, Driver
    <2>6. Streamed(run)
      BY <1>2, <2>1 DEF Streamed
    <2>7. 1 .. pos \subseteq ToldOf
      BY <1>2, <2>1 DEF ToldOf
    <2>8. QED
      BY <1>1, <1>2, <1>3, <2>1, <2>2, <2>3, <2>5, <2>6, <2>7 DEF ClockInv
  <1>7. QED
    BY <1>5, <1>6

LEMMA PassIsVouchedInPass ==
    ASSUME DriverTypeOK, TypeOK, ClockInv, PublishedInv,
           PreTradeValidation, ValidateCurrent.outcome = "pass"
    PROVE  VouchedInPass(run, pos, frame.snapshot, ValidateCurrent, TimeOfCheck)
  <1>1. pc \in Processing /\ pos > 0
    <2>1. pc \in Processing
      BY DEF PreTradeValidation, Processing
    <2>2. QED
      BY <2>1, ClockIsSet
  <1>2. /\ ReadOf(published[Current.mint], ValidateCurrent, TimeOfCheck)
        /\ NotDeteriorated(frame.snapshot, ValidateCurrent)
    BY PassIsOnTheRead
  <1>3. PICK source : source = ReadSource([run |-> run, pos |-> pos])
    OBVIOUS
  <1>4. /\ source \in DOMAIN fixture
        /\ published[Current.mint] = DeclaredBy(fixture[source])
        /\ Streamed(run)
        /\ \A i \in 1 .. pos : fixture[i].observed_at_ms =< clock
    BY <1>1, <1>2, <1>3, RereadWasStreamed DEF ReadOf
  <1>5. IsEntry(fixture[source])
    BY <1>4, FixturesAssumption DEF TypeOK, SessionTypeOK, IsFixture
  <1>6. OwnRead(source, ValidateCurrent)
    BY <1>2, <1>4, <1>5, DeclaredIsOwn
  <1>7. FreshRead(pos, ValidateCurrent, TimeOfCheck)
    BY <1>1, <1>2, <1>4, CoveredIsFresh
  <1>8. QED
    BY <1>2, <1>3, <1>4, <1>6, <1>7 DEF VouchedInPass, ReadStreamed, OwnRead

\* A verdict keeps its worth, whatever passes follow.
LEMMA VouchedStays ==
    ASSUME DriverTypeOK, [DriverNext]_driverVars
    PROVE  /\ run' \in Int /\ run' >= run /\ run \in Int
           /\ \A r \in 1 .. run : \A p, decided, v, now :
                 VouchedInPass(r, p, decided, v, now)' <=> VouchedInPass(r, p, decided, v, now)
  <1>1. fixture' = fixture
    BY StageStays DEF DriverNext, StreamObserve, Observe, Yield, BatchObserve,
       RaiseNotConfigured, NextPass, driverVars, vars, sessionVars
  <1>2. run \in Int /\ run' \in Int /\ run' >= run /\ \A q \in 1 .. run : drivers'[q] = drivers[q]
    <2>1. run \in Int
      BY MaxRunsAssumption DEF DriverTypeOK
    <2>2. CASE NextPass
      <3>1. run' = run + 1
        BY <2>2 DEF NextPass
      <3>2. \A q \in 1 .. run : drivers'[q] = drivers[q]
        BY <2>2, NextPassIsTyped
      <3>3. QED
        BY <2>1, <3>1, <3>2
    <2>3. CASE ~NextPass
      BY <2>1, <2>3, StageStays DEF DriverNext, StreamObserve, Observe, BatchObserve,
         RaiseNotConfigured, driverVars, vars
    <2>4. QED
      BY <2>2, <2>3
  <1>3. ASSUME NEW r \in 1 .. run, NEW p, NEW v
        PROVE  ReadStreamed(r, p, v)' <=> ReadStreamed(r, p, v)
    <2>1. Streamed(r)' <=> Streamed(r)
      BY <1>2 DEF Streamed
    <2>2. ReadSource([run |-> r, pos |-> p])' = ReadSource([run |-> r, pos |-> p])
      BY <1>1, <1>2 DEF ReadSource
    <2>3. QED
      BY <1>1, <2>1, <2>2 DEF ReadStreamed
  <1>4. \A p, decided, v, now : /\ FreshRead(p, v, now)' <=> FreshRead(p, v, now)
                                /\ NotDeteriorated(decided, v)' <=> NotDeteriorated(decided, v)
    BY <1>1 DEF FreshRead, NotDeteriorated
  <1>5. QED
    BY <1>2, <1>3, <1>4 DEF VouchedInPass

LEMMA DriverStepIsVouched ==
    ASSUME DriverTypeOK, ClockInv, PublishedInv, DrivenAlertsVouched, [DriverNext]_driverVars
    PROVE  DrivenAlertsVouched'
  <1>1. /\ run' \in Int /\ run' >= run /\ run \in Int
        /\ \A r \in 1 .. run : \A p, decided, v, now :
              VouchedInPass(r, p, decided, v, now)' <=> VouchedInPass(r, p, decided, v, now)
    BY VouchedStays
  <1>2. run \in 1 .. run
    BY <1>1, MaxRunsAssumption DEF DriverTypeOK
  <1>3. IsStore(alerts') /\ \A a \in ToSet(alerts') :
           a \in ToSet(alerts) \/ (EmitAlert /\ a = Alert)
    <2>1. CASE EmitAlert
      <3>1. alerts' = Append(alerts, Alert) /\ IsStore(alerts)
        BY <2>1 DEF EmitAlert, DrivenAlertsVouched
      <3> HIDE DEF Alert
      <3>2. IsStore(alerts') /\ ToSet(alerts') = ToSet(alerts) \cup {Alert}
        BY <3>1, AppendAdds
      <3>3. QED
        BY <2>1, <3>2
    <2>2. CASE ~EmitAlert
      <3>1. alerts' = alerts
        BY <2>2 DEF DriverNext, Stage, StreamObserve, Observe, BatchObserve,
               RaiseNotConfigured, NextPass, Finish, Trigger, Capture, RecordCaptured,
               AnalyzeDelta, FilterCandidate, HeavyAnalysis, Scoring, PreTradeValidation,
               RecordAction, driverVars, vars, storeVars
      <3>2. QED
        BY <3>1 DEF DrivenAlertsVouched, IsStore
    <2>3. QED
      BY <2>1, <2>2
  <1>4. ASSUME NEW a \in ToSet(alerts')
        PROVE  a.run \in 1 .. run'
               /\ VouchedInPass(a.run, a.pos, a.snapshot, a.validation, a.raised_at_ms)'
    <2>1. a.run \in 1 .. run
          /\ VouchedInPass(a.run, a.pos, a.snapshot, a.validation, a.raised_at_ms)
      <3>1. CASE a \in ToSet(alerts)
        BY <3>1 DEF DrivenAlertsVouched
      <3>2. CASE EmitAlert /\ a = Alert
        BY <1>2, <3>2 DEF EmitAlert, DrivenAlertsVouched, Alert
      <3>3. QED
        BY <1>3, <3>1, <3>2
    <2>2. QED
      BY <1>1, <2>1
  <1>5. ASSUME pc' = "alert"
        PROVE  VouchedInPass(run, pos, frame.snapshot, frame.checked, clock)'
    <2>1. CASE UNCHANGED driverVars
      <3>1. UNCHANGED vars
        BY <2>1 DEF driverVars
      <3>2. VouchedInPass(run, pos, frame.snapshot, frame.checked, clock)
        BY <1>5, <3>1 DEF vars, DrivenAlertsVouched
      <3>3. VouchedInPass(run, pos, frame.snapshot, frame.checked, clock)'
            <=> VouchedInPass(run, pos, frame.snapshot, frame.checked, clock)
        BY <2>1, <3>1 DEF driverVars, vars, VouchedInPass, ReadStreamed, FreshRead,
               NotDeteriorated, Streamed, ReadSource
      <3>4. QED
        BY <3>2, <3>3
    <2>2. CASE ~UNCHANGED driverVars
      <3>1. Stage
        BY <1>5, <2>2, BothHandOver, HandedOver
           DEF DriverNext, RaiseNotConfigured, NextPass, Continue
      <3>2. /\ TypeOK /\ Next /\ UNCHANGED drivers
            /\ UNCHANGED <<fixture, pos, run>>
        BY <3>1, StageIsAStep, StageStays
      <3>3. ~UNCHANGED vars
        BY <2>2, <3>2 DEF driverVars
      <3>4. /\ PreTradeValidation /\ ValidateCurrent.outcome = "pass"
            /\ frame' = [Counted EXCEPT !.checked = ValidateCurrent]
        BY <1>5, <3>2, <3>3, AlertFollowsPass
      <3>5. VouchedInPass(run, pos, frame.snapshot, ValidateCurrent, TimeOfCheck)
        BY <3>2, <3>4, PassIsVouchedInPass
      <3>6. clock' = TimeOfCheck /\ pc \in Processing
        BY <3>4 DEF PreTradeValidation, Processing
      <3>7. IsFrame(Counted) /\ Counted.snapshot = frame.snapshot
        BY <3>2, <3>6, CountedStage
      <3> HIDE DEF Counted
      <3>8. frame'.snapshot = frame.snapshot /\ frame'.checked = ValidateCurrent
        BY <3>4, <3>7 DEF IsFrame
      <3>9. VouchedInPass(run, pos, frame'.snapshot, frame'.checked, clock')
        BY <3>5, <3>6, <3>8
      <3>10. QED
        BY <3>2, <3>9 DEF VouchedInPass, ReadStreamed, FreshRead, NotDeteriorated, Streamed,
               ReadSource
    <2>3. QED
      BY <2>1, <2>2
  <1>6. QED
    BY <1>3, <1>4, <1>5 DEF DrivenAlertsVouched

\* However a session is driven, an alert goes out only on a re-read that is
\* fresh by every time reported so far and not materially worse than the
\* decision; and what was re-read is what the stream declared last of the
\* token, during a stream the alert's own observation.
THEOREM DrivenAlertsAreSafe ==
    DriverSpec => [](AlertReadWasStreamed /\ AlertIsFresh /\ AlertIsNotDeteriorated)
  <1>1. DriverInit => DrivenAlertsVouched
    BY DEF DriverInit, Init, DrivenAlertsVouched, IsStore, ToSet
  <1>2. DrivenAlertsVouched => AlertReadWasStreamed /\ AlertIsFresh /\ AlertIsNotDeteriorated
    <2>1. ASSUME NEW a
          PROVE  ReadSource([run |-> a.run, pos |-> a.pos]) = ReadSource(a)
      BY DEF ReadSource
    <2>2. DrivenAlertsVouched => AlertReadWasStreamed
      BY <2>1 DEF DrivenAlertsVouched, VouchedInPass, ReadStreamed, Streamed, Checked,
             AlertReadWasStreamed
    <2>3. DrivenAlertsVouched => AlertIsFresh /\ AlertIsNotDeteriorated
      BY DEF DrivenAlertsVouched, VouchedInPass, FreshRead, NotDeteriorated, Checked,
             AlertIsFresh, AlertIsNotDeteriorated
    <2>4. QED
      BY <2>2, <2>3
  <1>3. QED
    BY <1>1, <1>2, DriverStepIsVouched, DriverTyping, ClockIsDriven, RefresherIsDriven, PTL
       DEF DriverSpec
------------------------------------------------------------------------------
\* The inductive invariant about what was decided, over all passes: the
\* pipeline's, but a pass that was refused concludes nothing.
DrivenDecisionInv ==
    /\ DecisionInv
    /\ TrailInv
    /\ pc # "raised" => ConclusionsInv

\* As long as nothing is on record, nothing is decided.
LEMMA NothingOnRecord ==
    records = <<>> /\ alerts = <<>> /\ pc \in {"source", "raised"}
    => /\ DecisionInv /\ TrailInv
       /\ Approved = {} /\ Raised = <<>> /\ Concluded = {}
       /\ pos = 0 => ConclusionsInv
  <1> SUFFICES ASSUME records = <<>>, alerts = <<>>, pc \in {"source", "raised"}
               PROVE  /\ DecisionInv /\ TrailInv
                      /\ Approved = {} /\ Raised = <<>> /\ Concluded = {}
                      /\ pos = 0 => ConclusionsInv
    OBVIOUS
  <1>1. ToSet(records) = {} /\ IsStore(records) /\ IsStore(alerts)
    BY DEF ToSet, IsStore
  <1>2. Approved = {} /\ Concluded = {}
    BY <1>1 DEF Approved, Concluded
  <1>3. Raised = <<>>
    BY DEF Raised
  <1>4. ToSet(Raised) = {}
    BY <1>3 DEF ToSet
  <1>5. QED
    BY <1>1, <1>2, <1>3, <1>4
       DEF DecisionInv, TrailInv, ConclusionsInv, Processing, BotStages

\* A step of a pass is the pipeline's, and decides as the pipeline does.
LEMMA PassDecides ==
    ASSUME DriverTypeOK, DrivenDecisionInv,
           Stage \/ StreamObserve \/ BatchObserve \/ (NextPass /\ pc = "done")
    PROVE  /\ DrivenDecisionInv'
           /\ [Decisions!DecisionNext]_<<Approved, Raised, Concluded>>
  <1>1. CASE Stage
    <2>1. TypeOK /\ Next /\ pc # "raised"
      BY <1>1, StageIsAStep DEF TypeOK, Pcs
    <2>2. ConclusionsInv' /\ TrailInv'
      BY <2>1, StepWrites, ObserveTakesUp, BootStartsOver, RecordKeepsTrails,
         OtherStepsKeepTrails, RecordConcludes, OtherStepsConclude DEF DrivenDecisionInv
    <2>3. QED
      BY <2>1, <2>2, StepDecides DEF DrivenDecisionInv
  <1>2. CASE ~Stage
    <2>1. TypeOK /\ pc # "raised"
      BY <1>2, DriverIsTyped DEF StreamObserve, Observe, BatchObserve, NextPass
    <2>2. TakesUp \/ StartsOver
      <3>1. StreamObserve \/ BatchObserve => TakesUp
        BY BothHandOver DEF HandsOver
      <3>2. NextPass /\ pc = "done" => StartsOver
        BY DEF NextPass, StartsOver, Processing
      <3>3. QED
        BY <1>2, <3>1, <3>2
    <2>3. DecisionInv' /\ UNCHANGED <<Approved, Raised, Concluded>>
      BY <2>1, <2>2, RunsDecideNothing DEF DrivenDecisionInv
    <2>4. TrailInv' /\ ConclusionsInv'
      BY <2>1, <2>2, OtherStepsKeepTrails, OtherStepsConclude DEF DrivenDecisionInv
    <2>5. QED
      BY <2>3, <2>4 DEF DrivenDecisionInv
  <1>3. QED
    BY <1>1, <1>2

\* A pass that is refused has decided nothing, nor has any before it.
LEMMA RefusalDecidesNothing ==
    ASSUME ClockInv, RaiseNotConfigured \/ (NextPass /\ pc = "raised")
    PROVE  /\ DrivenDecisionInv'
           /\ UNCHANGED <<Approved, Raised, Concluded>>
  <1>1. records = <<>> /\ alerts = <<>> /\ UNCHANGED <<records, alerts>>
    BY DEF ClockInv, RaiseNotConfigured, NextPass, TimeIsKnown, storeVars
  <1>2. pc' = "raised" \/ (pc' = "source" /\ pos' = 0)
    BY DEF RaiseNotConfigured, NextPass, Continue
  <1>3. (records = <<>> /\ alerts = <<>> /\ pc \in {"source", "raised"})'
        => (/\ DecisionInv /\ TrailInv
            /\ Approved = {} /\ Raised = <<>> /\ Concluded = {}
            /\ pos = 0 => ConclusionsInv)'
    BY NothingOnRecord, PTL
  <1>4. UNCHANGED <<Approved, Raised, Concluded>>
    BY <1>1 DEF Approved, Raised, Concluded
  <1>5. QED
    BY <1>1, <1>2, <1>3, <1>4 DEF DrivenDecisionInv

LEMMA DriverStepDecides ==
    ASSUME DriverTypeOK, ClockInv, DrivenDecisionInv, [DriverNext]_driverVars
    PROVE  /\ DrivenDecisionInv'
           /\ [Decisions!DecisionNext]_<<Approved, Raised, Concluded>>
  <1>1. CASE UNCHANGED driverVars
    <2>1. UNCHANGED vars
      BY <1>1 DEF driverVars
    <2>2. UNCHANGED <<Approved, Raised, Concluded>>
      BY <2>1 DEF vars, Approved, Raised, Concluded
    <2>3. DecisionInv'
      BY <2>1, <2>2 DEF vars, DrivenDecisionInv, DecisionInv, Settled, OfEarlierEvent,
                        OfEarlierBot, Candidacy, Strategy, IsCandidacy, IsStore
    <2>4. TrailInv' /\ (pc' # "raised" => ConclusionsInv')
      <3>1. TrailInv'
        <4>1. ASSUME NEW j PROVE CanonicalAt(j)' <=> CanonicalAt(j)
          <5>1. Before(j)' = Before(j)
            BY <2>1 DEF vars, Before, EventOf
          <5>2. QED
            BY <2>1, <5>1 DEF vars, CanonicalAt, Follows, EndsStrategy
        <4>2. \A j \in DOMAIN records : (OfEarlierEvent(records[j])' <=> OfEarlierEvent(records[j]))
                                        /\ (LeadsHere(records[j])' <=> LeadsHere(records[j]))
          BY <2>1 DEF vars, OfEarlierEvent, LeadsHere, Strategy, EndsStrategy
        <4>3. CurrentTrail' = CurrentTrail /\ CurrentTrail \subseteq DOMAIN records
          BY <2>1 DEF vars, CurrentTrail, EventOf
        <4>4. QED
          BY <2>1, <4>1, <4>2, <4>3 DEF vars, DrivenDecisionInv, TrailInv, IsCandidacy, EventOf,
                                        IsStore
      <3>2. pc' # "raised" => ConclusionsInv'
        BY <2>1, <2>2 DEF vars, DrivenDecisionInv, ConclusionsInv, Key, EndsStrategy,
                          CandidacyOf
      <3>3. QED
        BY <3>1, <3>2
    <2>5. QED
      BY <2>2, <2>3, <2>4 DEF DrivenDecisionInv
  <1>2. NextPass => pc \in {"done", "raised"}
    BY DEF NextPass
  <1>3. QED
    BY <1>1, <1>2, PassDecides, RefusalDecidesNothing DEF DriverNext

LEMMA DriverStartsUndecided == DriverInit => DrivenDecisionInv /\ Decisions!DecisionInit
  <1> SUFFICES ASSUME DriverInit PROVE DrivenDecisionInv /\ Decisions!DecisionInit
    OBVIOUS
  <1>1. records = <<>> /\ alerts = <<>> /\ pc = "source" /\ pos = 0
    BY DEF DriverInit, Init, SessionInit, Opened
  <1>2. QED
    BY <1>1, NothingOnRecord DEF DrivenDecisionInv, Decisions!DecisionInit

LEMMA DecisionsAreDriven == DriverSpec => []DrivenDecisionInv
  BY DriverStartsUndecided, DriverStepDecides, DriverTyping, ClockIsDriven, PTL DEF DriverSpec

\* However a session is driven, and however many of its passes are refused,
\* decisions are taken as the decision protocol has it.
THEOREM DriversImplementDecisions == DriverSpec => ImplementsDecisions
  BY DriverStartsUndecided, DriverStepDecides, DriverTyping, ClockIsDriven,
     DecisionsAreDriven, PTL
     DEF DriverSpec, ImplementsDecisions, Decisions!DecisionSpec, Decisions!protocolVars

\* A pass that comes to its end, over the stream or the batch, has brought
\* every bot to exactly one recorded conclusion about every event, and every
\* trail is canonical: a pass refused in between leaves nothing half concluded.
THEOREM DrivenBotsConclude == DriverSpec => [](EveryBotConcluded /\ TrailIsCanonical)
  <1>1. DrivenDecisionInv => EveryBotConcluded /\ TrailIsCanonical
    <2>1. DrivenDecisionInv => TrailIsCanonical
      BY CanonicalRecords DEF DrivenDecisionInv, TrailInv
    <2>2. DrivenDecisionInv => EveryBotConcluded
      <3>1. pc # "done" => EveryBotConcluded
        BY DEF EveryBotConcluded
      <3>2. QED
        BY <3>1, ConclusionsSuffice DEF DrivenDecisionInv
    <2>3. QED
      BY <2>1, <2>2
  <1>2. QED
    BY <1>1, DecisionsAreDriven, PTL
------------------------------------------------------------------------------
\* What was processed of a token before the p-th observation of the r-th pass.
FirstEvent == Min({i \in DOMAIN fixture : fixture[i].events > 0})

Processed(r, p, m) ==
    LET earlier == {i \in OfToken(m) : i < p} IN
    IF earlier # {} \/ r = 1 THEN earlier
    ELSE IF Streamed(r - 1) THEN OfToken(m)
    ELSE {i \in OfToken(m) : i =< FirstEvent}

StartsRight(r) ==
    LET before == Processed(r.run, r.pos, r.mint) IN
    r.detail.from_slot = IF before = {} THEN None ELSE fixture[Max(before)].slot

\* The inductive invariant about deltas: as soon as anything is recorded at
\* all, the cache is of the observations processed so far, of whatever pass,
\* and the pre-update snapshot of those before the current one.
HasEvents == \E i \in DOMAIN fixture : fixture[i].events > 0

CacheSpans ==
    \A m \in Mints :
        LET soFar == Processed(run, pos + 1, m) IN
        /\ cache[m] = None <=> soFar = {}
        /\ cache[m] # None => cache[m].last_slot = fixture[Max(soFar)].slot

PreviousSpans ==
    LET before == Processed(run, pos, Current.mint) IN
    /\ frame.previous = None <=> before = {}
    /\ frame.previous # None => frame.previous.slot = fixture[Max(before)].slot

DrivenDeltaInv ==
    /\ IsStore(records)
    /\ HasEvents => CacheSpans
    /\ pc \in Processing => PreviousSpans
    /\ \A r \in ToSet(records) :
          r.run \in 1 .. run /\ (r.stage = "DELTA_ANALYSIS" => StartsRight(r))

LEMMA ProcessedIsBefore ==
    /\ \A r : ProcessedBefore(r) = Processed(r.run, r.pos, r.mint)
    /\ DrivenDeltaInv => DeltaSpansPasses
  <1>1. ASSUME NEW r PROVE ProcessedBefore(r) = Processed(r.run, r.pos, r.mint)
    <2>1. {i \in DOMAIN fixture : fixture[i].mint = r.mint} = OfToken(r.mint)
      BY DEF OfToken
    <2>2. Streamed(r.run - 1) <=> \E q \in 1 .. r.run - 1 : drivers[q] = "stream"
      BY DEF Streamed
    <2>3. QED
      BY <2>1, <2>2, Zenon DEF ProcessedBefore, Processed, FirstEvent
  <1>2. DrivenDeltaInv => DeltaSpansPasses
    BY <1>1, Zenon DEF DrivenDeltaInv, StartsRight, DeltaSpansPasses
  <1>3. QED
    BY <1>1, <1>2

\* What was processed before an observation of a pass stays, whatever passes
\* follow.
LEMMA ProcessedStays ==
    ASSUME fixture' = fixture, NEW r, r \in 1 .. run, run \in Nat,
           \A q \in 1 .. run : drivers'[q] = drivers[q]
    PROVE  \A p, m : Processed(r, p, m)' = Processed(r, p, m)
  <1>1. \A m : OfToken(m)' = OfToken(m)
    BY DEF OfToken
  <1>2. Streamed(r - 1)' <=> Streamed(r - 1)
    BY DEF Streamed
  <1>3. FirstEvent' = FirstEvent
    BY DEF FirstEvent
  <1>4. QED
    BY <1>1, <1>2, <1>3, Zenon DEF Processed

\* So where a delta on record starts stays right.
LEMMA StartsStay ==
    ASSUME DriverTypeOK, fixture' = fixture, run' \in Nat, run' >= run,
           \A q \in 1 .. run : drivers'[q] = drivers[q],
           NEW r, r.run \in 1 .. run, r.stage = "DELTA_ANALYSIS" => StartsRight(r)
    PROVE  r.run \in 1 .. run' /\ (r.stage = "DELTA_ANALYSIS" => StartsRight(r)')
  <1>1. run \in Nat
    BY MaxRunsAssumption DEF DriverTypeOK
  <1>2. Processed(r.run, r.pos, r.mint)' = Processed(r.run, r.pos, r.mint)
    BY <1>1, ProcessedStays
  <1>3. StartsRight(r)' <=> StartsRight(r)
    BY <1>2 DEF StartsRight
  <1>4. QED
    BY <1>1, <1>3

\* An observation that is handed over was preceded by what the cache is of.
LEMMA HandingOverSpans ==
    ASSUME DriverTypeOK, DrivenDeltaInv, HandsOver, DriverTypeOK'
    PROVE  DrivenDeltaInv'
  <1>1. PICK e : e = fixture[pos + 1]
    OBVIOUS
  <1>2. /\ pos \in Nat /\ pos' = pos + 1 /\ pos + 1 \in 1 .. Len(fixture)
        /\ IsEntry(e) /\ Current' = e
        /\ cache'[e.mint].last_slot = e.slot
        /\ \A m : m # e.mint => cache'[m] = cache[m]
        /\ \/ pc' = "source" /\ e.events = 0
           \/ pc' = "trigger" /\ frame' = EventFrame(1, CaptureKnown(e.mint))
    BY <1>1, HandedOver
  <1>3. /\ UNCHANGED <<fixture, run, drivers, records>>
        /\ run \in Nat /\ run > 0 /\ DOMAIN fixture = 1 .. Len(fixture)
    BY MaxRunsAssumption, FixturesAssumption
       DEF HandsOver, TakesUp, storeVars, DriverTypeOK, SessionTypeOK, IsFixture
  <1>4. e.mint \in Mints /\ e.events \in Nat
    BY <1>2 DEF IsEntry
  <1>5. cache'[e.mint] # None
    <2>1. TypeOK
      BY DriverIsTyped DEF HandsOver, TakesUp
    <2>2. QED
      BY <1>1, <1>2, <2>1, ProcessIsTyped DEF HandsOver, TakesUp
  <1>6. HasEvents' <=> HasEvents
    BY <1>3 DEF HasEvents
  <1>7. run \in 1 .. run /\ \A q \in 1 .. run : drivers'[q] = drivers[q]
    BY <1>3
  <1>8. \A p, m : Processed(run, p, m)' = Processed(run, p, m)
    BY <1>3, <1>7 DEF Processed, OfToken, Streamed, FirstEvent
  <1>9. ASSUME HasEvents, NEW m \in Mints
        PROVE  /\ cache'[m] = None <=> Processed(run, pos + 2, m) = {}
               /\ cache'[m] # None =>
                     cache'[m].last_slot = fixture[Max(Processed(run, pos + 2, m))].slot
    <2>1. CASE m = e.mint
      <3>1. PICK S : S = {i \in OfToken(m) : i < pos + 2}
        OBVIOUS
      <3>2. pos + 1 \in S /\ S \subseteq Int /\ \A j \in S : j =< pos + 1
        BY <1>1, <1>2, <1>3, <2>1, <3>1 DEF OfToken
      <3>3. Max(S) = pos + 1
        BY <1>2, <3>2, LastIsMax
      <3>4. Processed(run, pos + 2, m) = S
        BY <3>1, <3>2 DEF Processed
      <3>5. QED
        BY <1>1, <1>2, <1>5, <2>1, <3>2, <3>3, <3>4
    <2>2. CASE m # e.mint
      <3>1. {i \in OfToken(m) : i < pos + 2} = {i \in OfToken(m) : i < pos + 1}
        BY <1>1, <1>2, <1>3, <2>2 DEF OfToken
      <3>2. Processed(run, pos + 2, m) = Processed(run, pos + 1, m)
        BY <3>1 DEF Processed
      <3>3. QED
        BY <1>2, <1>9, <2>2, <3>2 DEF DrivenDeltaInv, CacheSpans
    <2>3. QED
      BY <2>1, <2>2
  <1>10. pos' + 1 = pos + 2
    BY <1>2
  <1>11. HasEvents' => CacheSpans'
    BY <1>3, <1>6, <1>8, <1>9, <1>10 DEF CacheSpans
  <1>12. ASSUME pc' \in Processing PROVE PreviousSpans'
    <2>1. PICK before : before = Processed(run, pos + 1, e.mint)
      OBVIOUS
    <2>2. before = Processed(run, pos, Current.mint)'
      BY <1>2, <1>8, <2>1
    <2>3. HasEvents
      <3>1. frame'.event \in 1 .. e.events
        BY <1>2, <1>12 DEF DriverTypeOK
      <3>2. e.events > 0
        BY <1>4, <3>1
      <3>3. QED
        BY <1>1, <1>2, <1>3, <3>2 DEF HasEvents
    <2>4. /\ cache[e.mint] = None <=> before = {}
          /\ cache[e.mint] # None => cache[e.mint].last_slot = fixture[Max(before)].slot
      BY <1>4, <2>1, <2>3 DEF DrivenDeltaInv, CacheSpans
    <2>5. PICK previous : previous = CaptureKnown(e.mint)
      OBVIOUS
    <2>6. frame'.previous = previous
      BY <1>2, <1>12, <2>5 DEF Processing, EventFrame
    <2>7. /\ previous = None <=> cache[e.mint] = None
          /\ previous # None => previous.slot = cache[e.mint].last_slot
      <3>1. CASE cache[e.mint] = None
        BY <2>5, <3>1 DEF CaptureKnown
      <3>2. CASE cache[e.mint] # None
        <4>1. cache[e.mint] \in CachedTokens /\ sequence \in Nat
          BY <1>4, <3>2 DEF DriverTypeOK, Optional
        <4>2. /\ previous = [mint           |-> e.mint,
                             slot           |-> cache[e.mint].last_slot,
                             captured_at_ms |-> cache[e.mint].last_updated_ms,
                             sequence       |-> sequence,
                             metrics        |-> cache[e.mint].metrics]
          BY <2>5, <3>2 DEF CaptureKnown
        <4>3. previous \in Snapshots /\ previous.slot = cache[e.mint].last_slot
          BY <1>4, <4>1, <4>2 DEF CachedTokens, Snapshots
        <4>4. QED
          BY <3>2, <4>3, AbsenceAssumption
      <3>3. QED
        BY <3>1, <3>2
    <2>8. QED
      BY <1>3, <2>2, <2>4, <2>6, <2>7 DEF PreviousSpans
  <1>13. ASSUME NEW r \in ToSet(records)
         PROVE  r.run \in 1 .. run' /\ (r.stage = "DELTA_ANALYSIS" => StartsRight(r)')
    <2>1. r.run \in 1 .. run /\ (r.stage = "DELTA_ANALYSIS" => StartsRight(r))
      BY DEF DrivenDeltaInv
    <2>2. run' \in Nat /\ run' >= run
      BY <1>3
    <2>3. QED
      BY <1>3, <1>7, <2>1, <2>2, StartsStay
  <1>14. QED
    BY <1>3, <1>11, <1>12, <1>13 DEF DrivenDeltaInv, IsStore

\* The stages leave cache and pre-update snapshot as they are, and the delta
\* they record starts at it.
LEMMA StageSpans ==
    ASSUME DriverTypeOK, DrivenDeltaInv, Stage
    PROVE  DrivenDeltaInv'
  <1>1. /\ TypeOK /\ Next
        /\ UNCHANGED <<fixture, pos, run, cache, drivers>>
        /\ run \in Nat /\ run > 0
    BY StageIsAStep, StageStays, MaxRunsAssumption DEF DriverTypeOK
  <1>2. /\ HasEvents' <=> HasEvents
        /\ CacheSpans' <=> CacheSpans
        /\ Current' = Current
        /\ \A p, m : Processed(run, p, m)' = Processed(run, p, m)
    BY <1>1 DEF HasEvents, CacheSpans, Processed, OfToken, Streamed, FirstEvent, Current
  <1>3. /\ IsStore(records')
        /\ \A r \in ToSet(records') :
              r.run \in 1 .. run /\ (r.stage = "DELTA_ANALYSIS" => StartsRight(r))
        /\ pc' \in Processing => pc \in Processing /\ frame'.previous = frame.previous
    <2>1. CASE \E r : Writes(r)
      <3>1. PICK r : Writes(r) /\ (r.stage = "DELTA_ANALYSIS" =>
                                      r.detail = Diff(frame.previous, frame.snapshot))
        <4>1. CASE AnalyzeDelta
          <5>1. PICK delta : delta = Diff(frame.previous, frame.snapshot)
            OBVIOUS
          <5>2. PICK outcome : Writes(Record("DELTA_ANALYSIS", None, outcome, clock, delta))
            BY <1>1, <4>1, <5>1, DeltaWrites
          <5>3. PICK r : r = Record("DELTA_ANALYSIS", None, outcome, clock, delta)
            OBVIOUS
          <5>4. r.detail = delta
            BY <5>3 DEF Record
          <5>5. QED
            BY <5>1, <5>2, <5>3, <5>4
        <4>2. CASE ~AnalyzeDelta
          <5>1. PICK r : Writes(r)
            BY <2>1
          <5>2. pc # "delta"
            BY <4>2, <5>1 DEF Stage, Trigger, Capture, RecordCaptured, FilterCandidate,
                   HeavyAnalysis, Scoring, PreTradeValidation, EmitAlert, RecordAction, Finish
          <5>3. r.stage # "DELTA_ANALYSIS"
            BY <5>1, <5>2 DEF Writes, Recorded
          <5>4. QED
            BY <5>1, <5>3
        <4>3. QED
          BY <4>1, <4>2
      <3>2. /\ pc \in Processing /\ r.run = run /\ r.pos = pos /\ r.mint = Current.mint
            /\ IsStore(records') /\ ToSet(records') = ToSet(records) \cup {r}
        BY <3>1, WritesAdds DEF Writes, Recorded, Processing, DrivenDeltaInv
      <3>3. pc' \in Processing => frame'.previous = frame.previous
        BY <3>1 DEF Writes, MovesOn, GoesOn, NextBot, EventAfter, EventsOver, EventFrame,
                    Processing
      <3>4. r.stage = "DELTA_ANALYSIS" => StartsRight(r)
        <4>1. SUFFICES ASSUME r.stage = "DELTA_ANALYSIS" PROVE StartsRight(r)
          OBVIOUS
        <4>2. r.detail.from_slot = IF frame.previous = None THEN None ELSE frame.previous.slot
          BY <3>1, <4>1 DEF Diff
        <4>3. PreviousSpans
          BY <3>2 DEF DrivenDeltaInv
        <4>4. QED
          BY <3>2, <4>2, <4>3 DEF PreviousSpans, StartsRight
      <3>5. ASSUME NEW q \in ToSet(records')
            PROVE  q.run \in 1 .. run /\ (q.stage = "DELTA_ANALYSIS" => StartsRight(q))
        <4>1. CASE q = r
          BY <1>1, <3>2, <3>4, <4>1
        <4>2. CASE q \in ToSet(records)
          BY <4>2 DEF DrivenDeltaInv
        <4>3. QED
          BY <3>2, <4>1, <4>2
      <3>6. QED
        BY <3>2, <3>3, <3>5
    <2>2. CASE ~\E r : Writes(r)
      <3>1. Finish \/ Capture \/ EmitAlert
        BY <1>1, <2>2, TriggerWrites, CaptureWrites, DeltaWrites, FilterWrites,
           AnalysisWrites, ScoringWrites, ValidationWrites, ActionWrites, Zenon DEF Stage
      <3>2. records' = records
        BY <3>1 DEF Finish, Capture, EmitAlert, storeVars
      <3>3. pc' \in Processing => pc \in Processing /\ frame'.previous = frame.previous
        <4>1. CASE Capture
          <5>1. PICK s : frame' = [frame EXCEPT !.snapshot = s]
            BY <4>1 DEF Capture, Continue
          <5>2. QED
            BY <4>1, <5>1 DEF Capture, Processing, DriverTypeOK, IsFrame
        <4>2. CASE Finish \/ EmitAlert
          BY <4>2 DEF Finish, EmitAlert, Continue, Processing
        <4>3. QED
          BY <3>1, <4>1, <4>2
      <3>4. QED
        BY <3>2, <3>3 DEF DrivenDeltaInv, IsStore
    <2>3. QED
      BY <2>1, <2>2
  <1>4. ASSUME NEW r \in ToSet(records')
        PROVE  r.run \in 1 .. run' /\ (r.stage = "DELTA_ANALYSIS" => StartsRight(r)')
    <2>1. r.run \in 1 .. run /\ (r.stage = "DELTA_ANALYSIS" => StartsRight(r))
      BY <1>3
    <2>2. run' \in Nat /\ run' >= run /\ \A q \in 1 .. run : drivers'[q] = drivers[q]
      BY <1>1
    <2>3. QED
      BY <1>1, <2>1, <2>2, StartsStay
  <1>5. pc' \in Processing => PreviousSpans'
    BY <1>1, <1>2, <1>3 DEF DrivenDeltaInv, PreviousSpans
  <1>6. QED
    BY <1>2, <1>3, <1>4, <1>5 DEF DrivenDeltaInv

\* A pass that follows finds the cache of all that was processed: everything,
\* if a pass was streamed, and else what the refused ones took up.
LEMMA NextPassSpans ==
    ASSUME DriverTypeOK, ClockInv, DrivenDeltaInv, NextPass
    PROVE  DrivenDeltaInv'
  <1>1. /\ UNCHANGED <<fixture, cache, records>>
        /\ pc \in {"done", "raised"} /\ run' = run + 1 /\ pos' = 0 /\ pc' = "source"
        /\ run \in Nat /\ run > 0 /\ pos \in 0 .. Len(fixture)
        /\ DOMAIN fixture = 1 .. Len(fixture) /\ Len(fixture) \in Nat
    BY MaxRunsAssumption, FixturesAssumption
       DEF NextPass, Continue, storeVars, DriverTypeOK, SessionTypeOK, IsFixture
  <1>2. \A r \in 1 .. run : drivers'[r] = drivers[r]
    BY NextPassIsTyped
  <1>3. HasEvents' <=> HasEvents
    BY <1>1 DEF HasEvents
  <1>4. Streamed(run - 1)' <=> Streamed(run)
    BY <1>1, <1>2 DEF Streamed
  <1>5. ASSUME HasEvents, NEW m
        PROVE  Processed(run, pos + 1, m)' = Processed(run, pos + 1, m)
    <2>1. PICK S : S = OfToken(m)
      OBVIOUS
    <2>2. S \subseteq 1 .. Len(fixture) /\ OfToken(m)' = S /\ FirstEvent' = FirstEvent
      BY <1>1, <2>1 DEF OfToken, FirstEvent
    <2>3. {i \in OfToken(m)' : i < pos' + 1} = {}
      <3>1. \A i \in S : ~(i < 1)
        BY <1>1, <2>2
      <3>2. pos' + 1 = 1
        BY <1>1
      <3>3. QED
        BY <2>2, <3>1, <3>2
    <2>4. Processed(run, pos + 1, m)' =
             IF Streamed(run) THEN S ELSE {i \in S : i =< FirstEvent}
      BY <1>1, <1>4, <2>2, <2>3 DEF Processed
    <2>5. Processed(run, pos + 1, m) =
             IF Streamed(run) THEN S ELSE {i \in S : i =< FirstEvent}
      <3>1. Streamed(run - 1) => Streamed(run)
        BY <1>1 DEF Streamed
      <3>2. CASE Streamed(run)
        <4>1. pos = Len(fixture)
          BY <1>1, <3>2, NextPassCovers DEF ClockInv
        <4>2. {i \in OfToken(m) : i < pos + 1} = S
          BY <1>1, <2>1, <2>2, <4>1
        <4>3. QED
          BY <2>1, <3>2, <4>2 DEF Processed
      <3>3. CASE ~Streamed(run)
        <4>1. clock = None /\ \A i \in 1 .. pos :
                 fixture[i].events > 0 => i = pos /\ pc = "raised"
          BY <1>1, <3>3 DEF ClockInv
        <4>2. pc = "raised"
          BY <1>1, <1>5, <4>1 DEF HasEvents, ClockInv
        <4>3. pos \in 1 .. Len(fixture) /\ fixture[pos].events > 0
          <5>1. pos > 0 /\ frame.event \in 1 .. fixture[pos].events
            BY <4>2 DEF DriverTypeOK, Current
          <5>2. fixture[pos].events \in Nat
            BY <1>1, <5>1, FixturesAssumption
               DEF DriverTypeOK, SessionTypeOK, IsFixture, IsEntry
          <5>3. QED
            BY <1>1, <5>1, <5>2
        <4>4. FirstEvent = pos
          <5>1. PICK E : E = {i \in DOMAIN fixture : fixture[i].events > 0}
            OBVIOUS
          <5>2. pos \in E /\ E \subseteq Int /\ \A j \in E : pos =< j
            BY <1>1, <4>1, <4>3, <5>1
          <5>3. Min(E) = pos
            BY <5>2, FirstIsMin
          <5>4. QED
            BY <5>1, <5>3 DEF FirstEvent
        <4>5. {i \in OfToken(m) : i < pos + 1} = {i \in S : i =< FirstEvent}
          BY <1>1, <2>1, <2>2, <4>3, <4>4
        <4>6. QED
          BY <2>1, <3>1, <3>3, <4>5 DEF Processed
      <3>4. QED
        BY <3>2, <3>3
    <2>6. QED
      BY <2>4, <2>5
  <1>6. HasEvents' => CacheSpans'
    BY <1>1, <1>3, <1>5 DEF DrivenDeltaInv, CacheSpans
  <1>7. ASSUME NEW r \in ToSet(records)
        PROVE  r.run \in 1 .. run' /\ (r.stage = "DELTA_ANALYSIS" => StartsRight(r)')
    <2>1. r.run \in 1 .. run /\ (r.stage = "DELTA_ANALYSIS" => StartsRight(r))
      BY DEF DrivenDeltaInv
    <2>2. run' \in Nat /\ run' >= run
      BY <1>1
    <2>3. QED
      BY <1>1, <1>2, <2>1, <2>2, StartsStay
  <1>8. QED
    BY <1>1, <1>6, <1>7 DEF DrivenDeltaInv, IsStore, Processing

\* Over all passes, streamed, batched or refused, a delta starts where its
\* token was processed last: the cache outlives a pass.
THEOREM DeltasSpanPasses == DriverSpec => []DeltaSpansPasses
  <1>1. DriverInit => DrivenDeltaInv
    <2>1. ASSUME DriverInit, NEW m \in Mints PROVE Processed(run, pos + 1, m) = {}
      <3>1. run = 1 /\ pos = 0 /\ OfToken(m) \subseteq 1 .. Len(fixture)
        BY <2>1, FixturesAssumption
           DEF DriverInit, Init, SessionInit, Opened, OfToken, IsFixture
      <3>2. QED
        BY <3>1 DEF Processed
    <2>2. QED
      BY <2>1 DEF DriverInit, Init, DrivenDeltaInv, CacheSpans, EmptyCache, IsStore, ToSet,
                  Processing
  <1>2. ASSUME DriverTypeOK, ClockInv, DrivenDeltaInv, [DriverNext]_driverVars
        PROVE  DrivenDeltaInv'
    <2>1. CASE StreamObserve \/ BatchObserve
      BY <1>2, <2>1, BothHandOver, HandingOverSpans, DriverStepIsTyped
    <2>2. CASE RaiseNotConfigured \/ UNCHANGED driverVars
      <3>1. /\ UNCHANGED <<fixture, pos, run, cache, frame, drivers, records>>
            /\ pc' \in Processing => pc \in Processing
        BY <2>2 DEF RaiseNotConfigured, driverVars, vars, sessionVars, processVars, storeVars,
                    Processing
      <3>2. /\ HasEvents' <=> HasEvents
            /\ CacheSpans' <=> CacheSpans
            /\ PreviousSpans' <=> PreviousSpans
            /\ \A r : StartsRight(r)' <=> StartsRight(r)
        BY <3>1 DEF HasEvents, CacheSpans, PreviousSpans, StartsRight, Processed, OfToken,
                    Streamed, FirstEvent, Current
      <3>3. \A r \in ToSet(records') :
               r.run \in 1 .. run' /\ (r.stage = "DELTA_ANALYSIS" => StartsRight(r)')
        BY <1>2, <3>1, <3>2 DEF DrivenDeltaInv
      <3>4. IsStore(records')
        BY <1>2, <3>1 DEF DrivenDeltaInv, IsStore
      <3>5. QED
        BY <1>2, <3>1, <3>2, <3>3, <3>4 DEF DrivenDeltaInv
    <2>3. QED
      BY <1>2, <2>1, <2>2, StageSpans, NextPassSpans DEF DriverNext
  <1>3. QED
    BY <1>1, <1>2, ProcessedIsBefore, DriverTyping, ClockIsDriven, PTL DEF DriverSpec
------------------------------------------------------------------------------
\* What a driver does between stages: it hands over, refuses or starts a pass,
\* and adds to neither store nor sink.
LEMMA BetweenStages ==
    ASSUME [DriverNext]_driverVars, ~Stage
    PROVE  /\ UNCHANGED storeVars
           /\ \/ HandsOver
              \/ pc' = "raised" /\ UNCHANGED <<run, pos>>
              \/ NextPass
              \/ UNCHANGED vars
  <1>1. CASE StreamObserve \/ BatchObserve
    BY <1>1, BothHandOver DEF StreamObserve, Observe, BatchObserve
  <1>2. CASE RaiseNotConfigured
    BY <1>2 DEF RaiseNotConfigured, sessionVars
  <1>3. CASE NextPass
    BY <1>3 DEF NextPass
  <1>4. CASE UNCHANGED driverVars
    BY <1>4 DEF driverVars, vars, storeVars
  <1>5. QED
    BY <1>1, <1>2, <1>3, <1>4 DEF DriverNext

LEMMA BetweenStagesExplained ==
    ASSUME ExplainedInv, [DriverNext]_driverVars, ~Stage
    PROVE  ExplainedInv'
  <1>1. UNCHANGED <<snapshots, records, alerts>>
    BY BetweenStages DEF storeVars
  <1>2. /\ \A a \in ToSet(alerts') : Explained(a)'
        /\ \A r \in ToSet(records') :
              r.stage = "SCORING" /\ r.detail # None => RestsOnFeatures(r)'
        /\ StoresKept'
    BY <1>1, ExplainedStays DEF ExplainedInv, StoresKept, IsStore
  <1>3. CASE UNCHANGED vars
    <2>1. Candidacy' = Candidacy
      BY <1>3 DEF vars, Candidacy, Strategy
    <2>2. QED
      BY <1>2, <1>3, <2>1 DEF vars, ExplainedInv, OnRecord, FeaturesOnRecord, CandidacyOf
  <1>4. CASE pc' \in {"source", "trigger", "raised"}
    BY <1>2, <1>4 DEF ExplainedInv, Processing
  <1>5. QED
    BY <1>3, <1>4, BetweenStages DEF HandsOver, TakesUp, NextPass, Continue

\* However a session is driven, an alert can be reconstructed from the stores,
\* and no score rests on a feature nobody produced.
THEOREM DrivenAlertsAreExplained ==
    DriverSpec => [](AlertIsExplained /\ ScoreIsOfRecordedFeatures)
  <1>1. DriverInit => ExplainedInv
    BY DEF DriverInit, Init, ExplainedInv, StoresKept, IsStore, ToSet, Processing
  <1>2. ASSUME DriverTypeOK, ExplainedInv, [DriverNext]_driverVars
        PROVE  ExplainedInv'
    <2>1. CASE Stage
      <3>1. TypeOK /\ [Next]_vars
        BY <1>2, <2>1, StageIsAStep
      <3>2. QED
        BY <1>2, <2>1, <3>1, StagesExplain, OtherStepsExplain DEF Stage
    <2>2. QED
      BY <1>2, <2>1, BetweenStagesExplained
  <1>3. QED
    BY <1>1, <1>2, ExplainedSuffices, DriverTyping, PTL DEF DriverSpec

LEMMA BetweenStagesTwins ==
    ASSUME DriverTypeOK, TwinInv, [DriverNext]_driverVars, ~Stage
    PROVE  TwinInv'
  <1>1. UNCHANGED records /\ Verdicts' = Verdicts
    BY BetweenStages DEF storeVars, Verdicts
  <1>2. run \in Int /\ pos \in Int
    BY MaxRunsAssumption DEF DriverTypeOK, SessionTypeOK
  <1>3. CASE HandsOver
    <2>1. pos' = pos + 1 /\ run' = run
      BY <1>3 DEF HandsOver, TakesUp
    <2>2. \A r \in Verdicts : r.run = run => r.pos \in Int /\ r.pos =< pos' /\ r.pos # pos'
      BY <1>2, <2>1 DEF TwinInv
    <2>3. QED
      BY <1>1, <2>1, <2>2 DEF TwinInv, IsStore
  <1>4. CASE pc' = "raised" /\ UNCHANGED <<run, pos>>
    BY <1>1, <1>4 DEF TwinInv, IsStore, Processing
  <1>5. CASE NextPass
    <2>1. run' = run + 1
      BY <1>5 DEF NextPass
    <2>2. \A r \in Verdicts : r.run \in Int /\ r.run =< run' /\ r.run # run'
      BY <1>2, <2>1 DEF TwinInv
    <2>3. QED
      BY <1>1, <2>1, <2>2 DEF TwinInv, IsStore
  <1>6. CASE UNCHANGED vars
    <2>1. ValidateCurrent' = ValidateCurrent
      BY <1>6 DEF vars, ValidateCurrent, Current, Reread, KnownMetrics, TimeOfCheck,
                  TimeAfterRefresh
    <2>2. QED
      BY <1>1, <1>6, <2>1 DEF vars, TwinInv, IsStore
  <1>7. QED
    BY <1>3, <1>4, <1>5, <1>6, BetweenStages

\* However a session is driven, the bots that validate one event are told the
\* same, be it on the state the stream declared or on what a batch is left.
THEOREM DrivenTwinsAreToldTheSame == DriverSpec => []TwinBotsAgree
  <1>1. DriverInit => TwinInv
    BY DEF DriverInit, Init, TwinInv, Verdicts, IsStore, ToSet
  <1>2. ASSUME DriverTypeOK, TwinInv, [DriverNext]_driverVars
        PROVE  TwinInv'
    <2>1. CASE Stage
      BY <1>2, <2>1, StageIsAStep, ValidationKeepsTwins, OtherStepsKeepTwins
    <2>2. QED
      BY <1>2, <2>1, BetweenStagesTwins
  <1>3. QED
    BY <1>1, <1>2, TwinInvSuffices, DriverTyping, PTL DEF DriverSpec

LEMMA BetweenStagesActions ==
    ASSUME DriverTypeOK, DecisionInv, ActionsInv, [DriverNext]_driverVars, ~Stage
    PROVE  ActionsInv'
  <1>1. UNCHANGED <<records, alerts>>
    BY BetweenStages DEF storeVars
  <1>2. /\ Actions' = Actions
        /\ \A k, m : Tells(k, m)' <=> Tells(k, m)
        /\ \A m : Unrecorded(m)' <=> Unrecorded(m)
    BY <1>1 DEF Actions, Tells, Unrecorded, CandidacyOf
  <1>3. run \in Nat
    BY MaxRunsAssumption DEF DriverTypeOK
  <1>4. \A m \in DOMAIN alerts : alerts[m].run \in Nat /\ alerts[m].run =< run
    <2>1. \A m \in DOMAIN alerts : CandidacyOf(alerts[m]) \in ToSet(Raised)
      BY RaisedKeys DEF ToSet, DecisionInv
    <2>2. \A k \in ToSet(Raised) : k.run \in Nat /\ k.run =< run
      BY <1>3 DEF DecisionInv, IsCandidacy, Settled, OfEarlierEvent, OfEarlierBot, Candidacy
    <2>3. QED
      BY <2>1, <2>2 DEF CandidacyOf
  <1>5. ASSUME NEW m \in DOMAIN alerts, Unrecorded(m), alerts[m].run = run'
        PROVE  pc' \in {"action", "down"}
    <2>1. run' = run /\ pc \in {"action", "down"}
      <3>1. CASE NextPass
        BY <1>3, <1>4, <1>5, <3>1 DEF NextPass
      <3>2. CASE ~NextPass
        BY <1>5, <3>2, BetweenStages DEF ActionsInv, HandsOver, TakesUp, vars
      <3>3. QED
        BY <3>1, <3>2
    <2>2. pc # "source" /\ pc # "trigger"
      BY <2>1
    <2>3. QED
      BY <2>1, <2>2 DEF DriverNext, StreamObserve, Observe, BatchObserve, RaiseNotConfigured,
                        NextPass, driverVars, vars
  <1>6. pc' = "action" => pc = "action" /\ Candidacy' = Candidacy
    BY BetweenStages DEF HandsOver, TakesUp, NextPass, Continue, vars, Candidacy, Strategy
  <1>7. (pc = "action" => Len(alerts) > 0 /\ CandidacyOf(alerts[Len(alerts)]) = Candidacy)'
    BY <1>1, <1>6 DEF ActionsInv, CandidacyOf
  <1>8. (\A n \in DOMAIN alerts : Unrecorded(n) =>
            /\ \A m \in n + 1 .. Len(alerts) : alerts[m].run # alerts[n].run
            /\ alerts[n].run = run => pc \in {"action", "down"})'
    BY <1>1, <1>2, <1>5 DEF ActionsInv
  <1>9. QED
    BY <1>1, <1>2, <1>7, <1>8 DEF ActionsInv, CandidacyOf

\* However a session is driven, the ACTION records say what went out, in that
\* order over all passes, and nothing that went out is left off for good.
THEOREM DrivenActionsAreOnRecord == DriverSpec => []ActionsAreRecorded
  <1>1. DriverInit => ActionsInv
    BY DEF DriverInit, Init, ActionsInv, Actions
  <1>2. ASSUME DriverTypeOK, DecisionInv, ActionsInv, [DriverNext]_driverVars
        PROVE  ActionsInv'
    <2>1. CASE Stage
      BY <1>2, <2>1, StageIsAStep, StepWrites, OtherRecordsKeepActions, ActionRecordTells,
         EmitKeepsActions, OtherStepsKeepActions DEF DecisionInv
    <2>2. QED
      BY <1>2, <2>1, BetweenStagesActions
  <1>3. DrivenDecisionInv => DecisionInv
    BY DEF DrivenDecisionInv
  <1>4. QED
    BY <1>1, <1>2, <1>3, ActionsInvSuffices, DriverTyping, DecisionsAreDriven, PTL
       DEF DriverSpec
\* However a session is driven, a deployment with nothing enabled, or with a
\* module that is only declared, validates and raises nothing.
THEOREM DrivenUnimplementedIsQuiet == DriverSpec => []UnimplementedRaisesNothing
  <1> DEFINE Quiet == NothingImplemented => NothingRaised
  <1>1. DriverInit => Quiet
    BY DEF DriverInit, Init, NothingRaised, IsStore, ToSet
  <1>2. ASSUME DriverTypeOK, Quiet, [DriverNext]_driverVars
        PROVE  Quiet'
    <2>1. SUFFICES ASSUME NothingImplemented
                   PROVE  NothingRaised'
      BY DEF NothingImplemented
    <2>2. NothingRaised
      BY <1>2, <2>1
    <2>3. CASE Stage
      BY <2>1, <2>2, <2>3, <1>2, StageIsAStep, StepRaisesNothing
    <2>4. CASE ~Stage
      <3>1. UNCHANGED <<records, alerts>>
        BY <1>2, <2>4, BetweenStages DEF storeVars
      <3>2. \/ pc' \in {"source", "trigger", "raised"}
            \/ UNCHANGED <<pc, frame>>
        BY <1>2, <2>4, BetweenStages DEF HandsOver, TakesUp, NextPass, Continue, vars
      <3>3. QED
        BY <2>2, <3>1, <3>2 DEF NothingRaised, IsStore
    <2>5. QED
      BY <2>3, <2>4
  <1>3. Quiet => UnimplementedRaisesNothing
    BY DEF NothingImplemented, NothingRaised, UnimplementedRaisesNothing
  <1>4. QED
    BY <1>1, <1>2, <1>3, DriverTyping, PTL DEF DriverSpec
=============================================================================
