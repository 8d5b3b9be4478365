--------------------------- MODULE PipelineProofs ----------------------------
(****************************************************************************)
(* What the pipeline keeps to for every deployment: any fixtures, filters,  *)
(* rules, modules, bots and gate. In this order: the types; the replay      *)
(* session the pipeline drives; what the cache knows; the times on record;  *)
(* the shape of a step that writes a record; what a delta says.             *)
(****************************************************************************)
EXTENDS PipelineProperties, ReplaySessionProofs, ValidationProofs, WellFoundedInduction

\* While an event is processed, its observation is an entry of the fixture.
LEMMA CurrentEntry ==
    ASSUME TypeOK, pos > 0
    PROVE  /\ pos \in 1 .. Len(fixture)
           /\ IsEntry(Current)
           /\ Current.mint \in Mints /\ Current.slot \in Int
           /\ Current.observed_at_ms \in Int /\ Current.events \in Nat
  BY YieldedEntries DEF TypeOK, SessionTypeOK, Current, IsEntry

\* Counting a record changes nothing else of the locals.
LEMMA CountedFrame ==
    ASSUME NEW fr, IsFrame(fr)
    PROVE  LET counted == [fr EXCEPT !.count = @ + 1] IN
           /\ IsFrame(counted)
           /\ counted.event = fr.event /\ counted.bot = fr.bot
           /\ counted.previous = fr.previous /\ counted.snapshot = fr.snapshot
  BY DEF IsFrame

\* The locals an event starts with.
LEMMA EventFrameIsFrame ==
    ASSUME NEW e \in Nat, NEW previous \in Optional(Snapshots)
    PROVE  IsFrame(EventFrame(e, previous)) /\ EventFrame(e, previous).event = e
  BY BotsAssumption DEF EventFrame, IsFrame, Optional

LEMMA NoFrameIsFrame == IsFrame(NoFrame)
  BY EventFrameIsFrame DEF NoFrame, Optional

\* The pipeline starts with variables of their types.
LEMMA StartsTyped == Init => TypeOK
  <1> SUFFICES ASSUME Init PROVE TypeOK
    OBVIOUS
  <1>1. SessionTypeOK
    BY SessionOpensTyped DEF Init
  <1>2. IsFrame(frame)
    BY NoFrameIsFrame DEF Init
  <1>3. cache \in [Mints -> Optional(CachedTokens)]
    BY DEF Init, EmptyCache, Optional
  <1>4. QED
    BY <1>1, <1>2, <1>3, MaxRunsAssumption DEF Init, TypeOK, Pcs, Processing

BotStages == {"filter", "analysis", "scoring", "validate", "alert", "action"}

\* The locals a stage of the current event may find.
StageFrame(stage, fr) ==
    /\ IsFrame(fr)
    /\ stage = "source" \/ (stage \in Processing /\ fr.event \in 1 .. Current.events)
    /\ stage \in Processing \ {"trigger", "capture"} => fr.snapshot # None
    /\ stage \in BotStages => fr.bot > 0

\* Whatever ends a strategy, the next stage finds the locals it needs.
LEMMA MoveOnIsTyped ==
    ASSUME TypeOK, pc \in Processing, NEW fr, IsFrame(fr),
           fr.event = frame.event, fr.snapshot # None, MoveOn(fr)
    PROVE  StageFrame(pc', frame')
  <1>0. /\ fr.event \in 1 .. Current.events /\ Current.events \in Nat
        /\ fr.previous \in Optional(Snapshots)
    BY CurrentEntry DEF TypeOK, IsFrame
  <1>1. CASE fr.bot < Len(Bots)
    <2>1. /\ pc' = "filter"
          /\ frame' = [event |-> fr.event, bot |-> fr.bot + 1, count |-> fr.count,
                       previous |-> fr.previous, snapshot |-> fr.snapshot,
                       features |-> <<>>, score |-> None, checked |-> None]
      BY <1>1 DEF MoveOn, Continue, IsFrame
    <2>2. fr.bot + 1 \in 0 .. Len(Bots) /\ fr.bot + 1 > 0
      BY <1>1, BotsAssumption DEF IsFrame
    <2>3. IsFrame(frame') /\ frame'.bot > 0 /\ frame'.snapshot # None
          /\ frame'.event = fr.event
      BY <2>1, <2>2 DEF IsFrame
    <2>4. QED
      BY <1>0, <2>1, <2>3 DEF StageFrame, Processing
  <1>2. CASE ~(fr.bot < Len(Bots)) /\ fr.event < Current.events
    <2>1. pc' = "trigger" /\ frame' = EventFrame(fr.event + 1, fr.previous)
      BY <1>2 DEF MoveOn, NextEvent, Continue
    <2>2. fr.event + 1 \in 1 .. Current.events /\ fr.event + 1 \in Nat
      BY <1>0, <1>2
    <2>3. IsFrame(frame') /\ frame'.event = fr.event + 1
      BY <1>0, <2>1, <2>2, EventFrameIsFrame
    <2>4. QED
      BY <2>1, <2>2, <2>3 DEF StageFrame, Processing, BotStages
  <1>3. CASE ~(fr.bot < Len(Bots)) /\ ~(fr.event < Current.events)
    <2>1. pc' = "source" /\ frame' = NoFrame
      BY <1>3 DEF MoveOn, NextEvent, Continue
    <2>2. QED
      BY <2>1, NoFrameIsFrame DEF StageFrame, Processing, BotStages
  <1>4. QED
    BY <1>1, <1>2, <1>3

\* A stage of the current event leaves everything typed: it touches neither
\* the observations nor the cache.
LEMMA StageIsTyped ==
    ASSUME TypeOK, pc \in Processing, StageFrame(pc', frame'),
           UNCHANGED <<fixture, pos, published, cache, run>>,
           clock' \in Int, sequence' \in Nat
    PROVE  TypeOK'
  <1>1. SessionTypeOK'
    BY DEF TypeOK, SessionTypeOK, Optional
  <1>2. Current' = Current /\ pos > 0 /\ cache[Current.mint] # None
    BY DEF Current, TypeOK
  <1>3. IsFrame(frame')
    BY DEF StageFrame
  <1>4. pc' \in Pcs
    BY DEF StageFrame, Processing, Pcs
  <1>5. clock' # None
    BY NoneAssumption
  <1>6. CASE pc' = "source"
    BY <1>1, <1>3, <1>4, <1>6 DEF TypeOK, Processing, IsFrame
  <1>7. CASE pc' \in Processing
    <2>1. frame'.event \in 1 .. Current.events
      BY <1>7 DEF StageFrame, Processing
    <2>2. /\ pc' \in Processing \ {"trigger", "capture"} => frame'.snapshot # None
          /\ pc' \in BotStages => frame'.bot > 0
      BY DEF StageFrame
    <2>3. QED
      BY <1>1, <1>2, <1>3, <1>4, <1>5, <2>1, <2>2 DEF TypeOK, BotStages, IsFrame
  <1>8. QED
    BY <1>6, <1>7 DEF StageFrame
------------------------------------------------------------------------------
\* The clock has a time while an event is processed.
LEMMA ClockIsSet ==
    ASSUME TypeOK, pc \in Processing
    PROVE  clock \in Int /\ pos > 0 /\ IsFrame(frame) /\ sequence \in Nat
  BY DEF TypeOK, SessionTypeOK, Optional

\* The validator reads its session, if it is configured to, and no more.
LEMMA ValidationReads ==
    ASSUME TypeOK, PreTradeValidation
    PROVE  /\ Refresh(Current.mint) \/ UNCHANGED sessionVars
           /\ clock' \in Int
  <1>1. pc \in Processing /\ clock \in Int
    BY ClockIsSet DEF PreTradeValidation, Processing
  <1>2. Current.mint \in Mints
    BY <1>1, CurrentEntry, ClockIsSet
  <1>3. published[Current.mint] = None \/ IsRefreshedState(published[Current.mint])
    BY <1>2 DEF TypeOK, SessionTypeOK
  <1>4. TimeAfterRefresh(clock, published, Current.mint) \in Int
    BY <1>1, <1>3, ObserveTimeIsLatest DEF TimeAfterRefresh, IsRefreshedState, Optional
  <1>5. /\ UNCHANGED <<fixture, pos, published>>
        /\ clock' = clock \/ clock' = TimeAfterRefresh(clock, published, Current.mint)
    BY DEF PreTradeValidation, TimeOfCheck, KeepDeclared
  <1>6. QED
    BY <1>1, <1>4, <1>5 DEF Refresh, sessionVars

\* A snapshot captured of a typed cache is a snapshot.
LEMMA CapturedIsSnapshot ==
    ASSUME TypeOK, pc = "capture"
    PROVE  CaptureAt(Current.mint, Current.slot, Current.observed_at_ms) \in Snapshots
  <1>1. pc \in Processing /\ pos > 0 /\ cache[Current.mint] # None /\ sequence \in Nat
    BY DEF TypeOK, Processing
  <1>2. /\ Current.mint \in Mints /\ Current.slot \in Int
        /\ Current.observed_at_ms \in Int
    BY <1>1, CurrentEntry
  <1>3. cache[Current.mint].metrics \in TokenMetrics
    BY <1>1, <1>2 DEF TypeOK, Optional, CachedTokens
  <1>4. QED
    BY <1>1, <1>2, <1>3 DEF CaptureAt, Snapshots

\* The stages that only record and move on.
LEMMA RecordingStageIsTyped ==
    ASSUME TypeOK, pc \in Processing,
           UNCHANGED <<fixture, pos, published, clock, cache, sequence, run>>,
           StageFrame(pc', frame')
    PROVE  TypeOK'
  BY StageIsTyped, ClockIsSet

\* What every stage after the capture hands on: its locals, one record later.
LEMMA CountedStage ==
    ASSUME TypeOK, pc \in Processing
    PROVE  /\ IsFrame(Counted) /\ Counted.event = frame.event
           /\ Counted.bot = frame.bot /\ Counted.snapshot = frame.snapshot
           /\ frame.event \in 1 .. Current.events
           /\ pc \in Processing \ {"trigger", "capture"} => frame.snapshot # None
           /\ pc \in BotStages => frame.bot > 0
  BY ClockIsSet, CountedFrame DEF Counted, TypeOK, BotStages

\* Another value for a local nobody else types.
LEMMA UntypedLocals ==
    ASSUME NEW fr, IsFrame(fr), NEW v
    PROVE  /\ IsFrame([fr EXCEPT !.features = v])
           /\ [fr EXCEPT !.features = v].event = fr.event
           /\ [fr EXCEPT !.features = v].bot = fr.bot
           /\ [fr EXCEPT !.features = v].snapshot = fr.snapshot
           /\ IsFrame([fr EXCEPT !.score = v])
           /\ [fr EXCEPT !.score = v].event = fr.event
           /\ [fr EXCEPT !.score = v].bot = fr.bot
           /\ [fr EXCEPT !.score = v].snapshot = fr.snapshot
           /\ IsFrame([fr EXCEPT !.checked = v])
           /\ [fr EXCEPT !.checked = v].event = fr.event
           /\ [fr EXCEPT !.checked = v].bot = fr.bot
           /\ [fr EXCEPT !.checked = v].snapshot = fr.snapshot
  BY DEF IsFrame

\* The stages from the trigger to the start of the strategies.
LEMMA EventStagesAreTyped ==
    ASSUME TypeOK, Trigger \/ Capture \/ RecordCaptured \/ AnalyzeDelta
    PROVE  TypeOK'
  <1>1. CASE Trigger
    <2>1. pc \in Processing
      BY <1>1 DEF Trigger, Processing
    <2>2. pc' = "capture" /\ frame' = Counted
      BY <1>1 DEF Trigger, Continue
    <2>3. StageFrame(pc', frame')
      BY <2>1, <2>2, CountedStage DEF StageFrame, Processing, BotStages
    <2>4. QED
      BY <1>1, <2>1, <2>3, RecordingStageIsTyped DEF Trigger, sessionVars
  <1>2. CASE Capture
    <2> DEFINE snapshot == CaptureAt(Current.mint, Current.slot, Current.observed_at_ms)
    <2>1. pc \in Processing /\ pc = "capture"
      BY <1>2 DEF Capture, Processing
    <2>2. snapshot \in Snapshots /\ snapshot # None
      BY <2>1, CapturedIsSnapshot, AbsenceAssumption
    <2>3. /\ pc' = "captured" /\ frame' = [frame EXCEPT !.snapshot = snapshot]
          /\ ConsumeSequence(snapshot)
      BY <1>2 DEF Capture, Continue
    <2> HIDE DEF snapshot
    <2>4. IsFrame(frame') /\ frame'.event = frame.event /\ frame'.snapshot = snapshot
      BY <2>1, <2>2, <2>3, ClockIsSet DEF IsFrame, Optional
    <2>5. StageFrame(pc', frame')
      BY <2>1, <2>2, <2>3, <2>4, CountedStage DEF StageFrame, Processing, BotStages
    <2>6. sequence' \in Nat
      BY <2>1, <2>3, ClockIsSet DEF ConsumeSequence
    <2>7. QED
      BY <1>2, <2>1, <2>5, <2>6, ClockIsSet, StageIsTyped DEF Capture, sessionVars
  <1>3. CASE RecordCaptured
    <2>1. pc \in Processing \ {"trigger", "capture"}
      BY <1>3 DEF RecordCaptured, Processing
    <2>2. pc' = "delta" /\ frame' = Counted
      BY <1>3 DEF RecordCaptured, Continue
    <2>3. StageFrame(pc', frame')
      BY <2>1, <2>2, CountedStage DEF StageFrame, Processing, BotStages
    <2>4. QED
      BY <1>3, <2>1, <2>3, RecordingStageIsTyped DEF RecordCaptured, sessionVars
  <1>4. CASE AnalyzeDelta
    <2>1. pc \in Processing \ {"trigger", "capture"} /\ MoveOn(Counted)
      BY <1>4 DEF AnalyzeDelta, Processing
    <2>2. StageFrame(pc', frame')
      BY <2>1, CountedStage, MoveOnIsTyped
    <2>3. QED
      BY <1>4, <2>1, <2>2, RecordingStageIsTyped DEF AnalyzeDelta, sessionVars
  <1>5. QED
    BY <1>1, <1>2, <1>3, <1>4

\* The next stage of the same strategy, and the end of the strategy.
LEMMA BotStageGoesOn ==
    ASSUME TypeOK, pc \in BotStages, NEW fr, IsFrame(fr),
           fr.event = frame.event, fr.bot = frame.bot, fr.snapshot = frame.snapshot,
           NEW stage \in BotStages,
           Continue(stage, fr) \/ MoveOn(fr)
    PROVE  StageFrame(pc', frame')
  <1>1. pc \in Processing \ {"trigger", "capture"}
    BY DEF BotStages, Processing
  <1>2. /\ frame.event \in 1 .. Current.events
        /\ fr.snapshot # None /\ fr.bot > 0
    BY <1>1, CountedStage
  <1>3. CASE Continue(stage, fr)
    BY <1>2, <1>3 DEF Continue, StageFrame, Processing, BotStages
  <1>4. CASE MoveOn(fr)
    BY <1>1, <1>2, <1>4, MoveOnIsTyped
  <1>5. QED
    BY <1>3, <1>4

\* The stages of a strategy.
LEMMA BotStagesAreTyped ==
    ASSUME TypeOK,
           \/ FilterCandidate \/ HeavyAnalysis \/ Scoring
           \/ PreTradeValidation \/ EmitAlert \/ RecordAction
    PROVE  TypeOK'
  <1>0. pc \in BotStages /\ pc \in Processing
    BY DEF FilterCandidate, HeavyAnalysis, Scoring, PreTradeValidation, EmitAlert,
           RecordAction, BotStages, Processing
  <1>c. /\ IsFrame(Counted) /\ Counted.event = frame.event
        /\ Counted.bot = frame.bot /\ Counted.snapshot = frame.snapshot
    BY <1>0, CountedStage
  <1> HIDE DEF Counted
  <1>1. CASE FilterCandidate
    <2>1. Continue("analysis", Counted) \/ MoveOn(Counted)
      BY <1>1 DEF FilterCandidate
    <2>2. StageFrame(pc', frame')
      BY <1>0, <1>c, <2>1, BotStageGoesOn DEF BotStages
    <2>3. QED
      BY <1>0, <1>1, <2>2, RecordingStageIsTyped DEF FilterCandidate, sessionVars
  <1>2. CASE HeavyAnalysis
    <2>1. \/ MoveOn(Counted)
          \/ Continue("scoring",
                      [Counted EXCEPT !.features = Analyze(EnabledModules, Candidate)])
      BY <1>2, Zenon DEF HeavyAnalysis
    <2> DEFINE fr == [Counted EXCEPT !.features = Analyze(EnabledModules, Candidate)]
    <2>2. IsFrame(fr) /\ fr.event = frame.event /\ fr.bot = frame.bot
          /\ fr.snapshot = frame.snapshot
      BY <1>c, UntypedLocals, ZenonT(30)
    <2> HIDE DEF fr
    <2>3. StageFrame(pc', frame')
      <3>1. CASE MoveOn(Counted)
        BY <1>0, <1>c, <3>1, BotStageGoesOn DEF BotStages
      <3>2. CASE Continue("scoring", fr)
        BY <1>0, <2>2, <3>2, BotStageGoesOn DEF BotStages
      <3>3. QED
        BY <2>1, <3>1, <3>2 DEF fr
    <2>4. QED
      BY <1>0, <1>2, <2>3, RecordingStageIsTyped DEF HeavyAnalysis, sessionVars
  <1>3. CASE Scoring
    <2>1. PICK score : \/ MoveOn(Counted)
                       \/ Continue("validate", [Counted EXCEPT !.score = score])
      BY <1>3, Zenon DEF Scoring
    <2> DEFINE fr == [Counted EXCEPT !.score = score]
    <2>2. IsFrame(fr) /\ fr.event = frame.event /\ fr.bot = frame.bot
          /\ fr.snapshot = frame.snapshot
      BY <1>c, UntypedLocals, ZenonT(30)
    <2> HIDE DEF fr
    <2>3. StageFrame(pc', frame')
      <3>1. CASE MoveOn(Counted)
        BY <1>0, <1>c, <3>1, BotStageGoesOn DEF BotStages
      <3>2. CASE Continue("validate", fr)
        BY <1>0, <2>2, <3>2, BotStageGoesOn DEF BotStages
      <3>3. QED
        BY <2>1, <3>1, <3>2 DEF fr
    <2>4. QED
      BY <1>0, <1>3, <2>3, RecordingStageIsTyped DEF Scoring, sessionVars
  <1>4. CASE PreTradeValidation
    <2>1. PICK checked : \/ MoveOn(Counted)
                         \/ Continue("alert", [Counted EXCEPT !.checked = checked])
      BY <1>4, Zenon DEF PreTradeValidation
    <2> DEFINE fr == [Counted EXCEPT !.checked = checked]
    <2>2. IsFrame(fr) /\ fr.event = frame.event /\ fr.bot = frame.bot
          /\ fr.snapshot = frame.snapshot
      BY <1>c, UntypedLocals, ZenonT(30)
    <2> HIDE DEF fr
    <2>3. StageFrame(pc', frame')
      <3>1. CASE MoveOn(Counted)
        BY <1>0, <1>c, <3>1, BotStageGoesOn DEF BotStages
      <3>2. CASE Continue("alert", fr)
        BY <1>0, <2>2, <3>2, BotStageGoesOn DEF BotStages
      <3>3. QED
        BY <2>1, <3>1, <3>2 DEF fr
    <2>4. clock' \in Int /\ sequence' \in Nat
      BY <1>0, <1>4, ValidationReads, ClockIsSet DEF PreTradeValidation, ConsumeSequence
    <2>5. QED
      BY <1>0, <1>4, <2>3, <2>4, StageIsTyped DEF PreTradeValidation, ReadOnly, KeepDeclared
  <1>5. CASE EmitAlert
    <2>1. Continue("action", frame) /\ IsFrame(frame)
      BY <1>0, <1>5, ClockIsSet DEF EmitAlert
    <2>2. StageFrame(pc', frame')
      BY <1>0, <2>1, BotStageGoesOn DEF BotStages
    <2>3. QED
      BY <1>0, <1>5, <2>2, RecordingStageIsTyped DEF EmitAlert, sessionVars
  <1>6. CASE RecordAction
    <2>1. MoveOn(Counted)
      BY <1>6 DEF RecordAction
    <2>2. StageFrame(pc', frame')
      BY <1>0, <1>c, <2>1, BotStageGoesOn DEF BotStages
    <2>3. QED
      BY <1>0, <1>6, <2>2, RecordingStageIsTyped DEF RecordAction, sessionVars
  <1>7. QED
    BY <1>1, <1>2, <1>3, <1>4, <1>5, <1>6
------------------------------------------------------------------------------
\* What to_patch_fields makes of an entry is a report.
LEMMA ReportedIsAReport ==
    ASSUME NEW e, IsEntry(e)
    PROVE  IsReport(Reported(e))
  BY PatchFieldsAreAReport DEF IsEntry, Reported

\* What is known of a token is metrics, whether it was ever observed or not.
LEMMA KnownIsMetrics ==
    ASSUME TypeOK, NEW m \in Mints
    PROVE  KnownMetrics(m) \in TokenMetrics
  <1>1. NoMetrics \in TokenMetrics
    BY DEF NoMetrics, TokenMetrics, LpState, Optional
  <1>2. QED
    BY <1>1 DEF KnownMetrics, TypeOK, CachedTokens, Optional

\* What process does with an observation, up to its first event, is typed.
LEMMA ProcessIsTyped ==
    ASSUME TypeOK, NEW entry, IsEntry(entry),
           ConsumeSequence(CaptureKnown(entry.mint)),
           Apply(entry.mint, entry.slot, entry.observed_at_ms, Reported(entry)),
           IF entry.events = 0 THEN Continue("source", NoFrame)
           ELSE Continue("trigger", EventFrame(1, CaptureKnown(entry.mint)))
    PROVE  /\ sequence' \in Nat
           /\ cache' \in [Mints -> Optional(CachedTokens)]
           /\ cache'[entry.mint] # None
           /\ IsFrame(frame')
           /\ \/ pc' = "source"
              \/ pc' = "trigger" /\ frame'.event = 1 /\ 1 \in 1 .. entry.events
  <1>1. entry.mint \in Mints /\ entry.slot \in Int
        /\ entry.observed_at_ms \in Int /\ entry.events \in Nat
    BY DEF IsEntry
  <1>2. PICK previous : previous = CaptureKnown(entry.mint)
    OBVIOUS
  <1>3. previous \in Optional(Snapshots)
    BY <1>1, <1>2 DEF CaptureKnown, TypeOK, CachedTokens, Snapshots, Optional
  <1>4. sequence' \in Nat
    BY <1>2 DEF ConsumeSequence, TypeOK
  <1>5. /\ cache' \in [Mints -> Optional(CachedTokens)]
        /\ cache'[entry.mint] # None
    <2> DEFINE merged == MergeMetrics(KnownMetrics(entry.mint), Reported(entry))
               token  == [metrics |-> merged, last_slot |-> entry.slot,
                          last_updated_ms |-> entry.observed_at_ms]
    <2>1. merged \in TokenMetrics
      BY <1>1, KnownIsMetrics, ReportedIsAReport, MergedIsMetrics
    <2> HIDE DEF merged
    <2>2. token \in CachedTokens /\ token # None
      BY <1>1, <2>1, AbsenceAssumption DEF CachedTokens
    <2>3. cache' = [cache EXCEPT ![entry.mint] = token]
      BY DEF Apply, merged
    <2> HIDE DEF token
    <2>4. QED
      BY <1>1, <2>2, <2>3 DEF TypeOK, Optional
  <1>6. CASE entry.events = 0
    BY <1>4, <1>5, <1>6, NoFrameIsFrame DEF Continue
  <1>7. CASE entry.events # 0
    <2>1. pc' = "trigger" /\ frame' = EventFrame(1, previous)
      BY <1>2, <1>7 DEF Continue
    <2>2. IsFrame(frame') /\ frame'.event = 1
      BY <1>3, <2>1, EventFrameIsFrame
    <2>3. QED
      BY <1>1, <1>4, <1>5, <1>7, <2>1, <2>2
  <1>8. QED
    BY <1>6, <1>7

\* An observation leaves everything typed.
LEMMA ObserveIsTyped ==
    ASSUME TypeOK, Observe
    PROVE  TypeOK'
  <1>1. PICK entry : entry = fixture[pos + 1]
    OBVIOUS
  <1>2. SessionTypeOK'
    BY SessionStepIsTyped DEF Observe, TypeOK, SessionNext
  <1>3. IsEntry(entry) /\ pos' = pos + 1 /\ pos' > 0 /\ Current' = entry /\ run' = run
    <2>1. pos \in Nat /\ IsEntry(fixture[pos + 1])
      BY NextEntry DEF Observe, Yield, TypeOK
    <2>2. QED
      BY <1>1, <2>1 DEF Observe, Yield, Current
  <1>4. clock' \in Int /\ clock' # None
    BY <1>1, <1>3, ObserveTimeIsLatest, NoneAssumption
       DEF Observe, Yield, TypeOK, SessionTypeOK, IsEntry
  <1>5. /\ sequence' \in Nat
        /\ cache' \in [Mints -> Optional(CachedTokens)]
        /\ cache'[entry.mint] # None
        /\ IsFrame(frame')
        /\ \/ pc' = "source"
           \/ pc' = "trigger" /\ frame'.event = 1 /\ 1 \in 1 .. entry.events
    BY <1>1, <1>3, ProcessIsTyped DEF Observe
  <1>6. QED
    BY <1>2, <1>3, <1>4, <1>5 DEF TypeOK, Pcs, Processing, IsFrame

\* Stopping and starting over leave everything typed.
LEMMA RunsAreTyped ==
    ASSUME TypeOK, Finish \/ Crash \/ Boot
    PROVE  TypeOK'
  <1>1. CASE Finish
    BY <1>1 DEF Finish, TypeOK, SessionTypeOK, sessionVars, processVars, Pcs, Processing,
                Current, IsFrame
  <1>2. CASE Crash
    BY <1>2 DEF Crash, TypeOK, SessionTypeOK, sessionVars, processVars, Pcs, Processing,
                Current, IsFrame
  <1>3. CASE Boot
    <2>1. SessionTypeOK'
      BY <1>3, SessionStepIsTyped DEF Boot, TypeOK, SessionNext
    <2>2. cache' \in [Mints -> Optional(CachedTokens)]
      BY <1>3 DEF Boot, EmptyCache, Optional
    <2>3. IsFrame(frame')
      BY <1>3, NoFrameIsFrame DEF Boot
    <2>4. run' \in 1 .. MaxRuns
      BY <1>3, MaxRunsAssumption DEF Boot, TypeOK
    <2>5. QED
      BY <1>3, <2>1, <2>2, <2>3, <2>4 DEF Boot, TypeOK, Pcs, Processing, IsFrame
  <1>4. QED
    BY <1>1, <1>2, <1>3

LEMMA StepIsTyped == TypeOK /\ [Next]_vars => TypeOK'
  <1> SUFFICES ASSUME TypeOK, [Next]_vars PROVE TypeOK'
    OBVIOUS
  <1>1. CASE UNCHANGED vars
    BY <1>1 DEF vars, TypeOK, SessionTypeOK, Current, IsFrame
  <1>2. CASE Next
    BY <1>2, ObserveIsTyped, EventStagesAreTyped, BotStagesAreTyped, RunsAreTyped
       DEF Next, Step
  <1>3. QED
    BY <1>1, <1>2

\* For every deployment the variables always have their types, and a stage
\* finds the locals it reads: the "no_state" branch of _process_event is never
\* reached, and the clock is never asked before the source has told it a time.
THEOREM PipelineTyping == Spec => []TypeOK
  BY StartsTyped, StepIsTyped, PTL DEF Spec

\* Every step of the pipeline is a step of its session, or none.
LEMMA StepDrivesSession == TypeOK /\ [Next]_vars => [SessionNext]_sessionVars
  <1> SUFFICES ASSUME TypeOK, [Next]_vars PROVE [SessionNext]_sessionVars
    OBVIOUS
  <1>1. CASE Observe
    BY <1>1 DEF Observe, SessionNext
  <1>2. CASE Boot
    BY <1>2 DEF Boot, SessionNext
  <1>3. CASE PreTradeValidation
    <2>1. Current.mint \in Mints
      BY <1>3, CurrentEntry, ClockIsSet DEF PreTradeValidation, Processing
    <2>2. QED
      BY <1>3, <2>1, ValidationReads DEF SessionNext
  <1>4. CASE \/ Finish \/ Trigger \/ Capture \/ RecordCaptured \/ AnalyzeDelta
             \/ FilterCandidate \/ HeavyAnalysis \/ Scoring \/ EmitAlert
             \/ RecordAction \/ Crash \/ UNCHANGED vars
    BY <1>4 DEF Finish, Trigger, Capture, RecordCaptured, AnalyzeDelta, FilterCandidate,
                HeavyAnalysis, Scoring, EmitAlert, RecordAction, Crash, vars, sessionVars
  <1>5. QED
    BY <1>1, <1>2, <1>3, <1>4 DEF Next, Step

\* The pipeline implements its session: whatever it does to source, refresher
\* and clock is what a reader of a session may do.
THEOREM PipelineDrivesSession == Spec => DrivesSession
  <1>1. Init => SessionInit
    BY DEF Init
  <1>2. QED
    BY <1>1, StepDrivesSession, PipelineTyping, PTL DEF Spec, DrivesSession

\* So what holds of every session holds of the pipeline's: what it re-reads is
\* what the observation it is about declared, and its clock covers every
\* observation and never rewinds.
THEOREM PipelineKeepsSession ==
    Spec => /\ []ReadIsOfLatestObservation
            /\ []ClockCoversObservations
            /\ []ClockWasReported
            /\ ClockNeverRewinds
  <1>1. DrivesSession => SessionSpec
    BY DEF DrivesSession, SessionSpec
  <1>2. QED
    BY <1>1, PipelineDrivesSession, ReadsAreOfLatestObservation,
       ClockCoversEveryObservation, ClockIsOfTheSource, ClockIsMonotone, PTL
------------------------------------------------------------------------------
\* What the invariant says of one token.
TokenIsObserved(m) ==
    /\ cache[m] = None <=> Yielded(m) = {}
    /\ cache[m] # None => \A f \in MetricFields :
          /\ ReportsOf(m, f) = {} => cache[m].metrics[f] = NoMetrics[f]
          /\ \A i \in ReportsOf(m, f) :
                (\A j \in ReportsOf(m, f) : j =< i) =>
                    cache[m].metrics[f] = Reported(fixture[i])[f]

LEMMA ObservedByToken ==
    ContinuousStateIsObserved <=> \A m \in Mints : TokenIsObserved(m)
  BY DEF ContinuousStateIsObserved, TokenIsObserved

\* What an observation adds to the entries yielded, and to the reports among
\* them.
LEMMA YieldAdds ==
    ASSUME TypeOK, Yield, NEW m, NEW f
    PROVE  /\ fixture[pos + 1].mint # m =>
                 Yielded(m)' = Yielded(m) /\ ReportsOf(m, f)' = ReportsOf(m, f)
           /\ fixture[pos + 1].mint = m =>
                 /\ pos + 1 \in Yielded(m)'
                 /\ IF f \in DOMAIN Reported(fixture[pos + 1])
                    THEN ReportsOf(m, f)' = ReportsOf(m, f) \cup {pos + 1}
                    ELSE ReportsOf(m, f)' = ReportsOf(m, f)
           /\ \A i \in ReportsOf(m, f) : i \in 1 .. pos
  <1>1. pos \in Nat /\ pos' = pos + 1 /\ fixture' = fixture
    BY NextEntry DEF Yield, TypeOK
  <1>2. Yielded(m)' = Yielded(m) \cup (IF fixture[pos + 1].mint = m THEN {pos + 1} ELSE {})
    BY <1>1 DEF Yielded
  <1>3. ReportsOf(m, f)' = {i \in Yielded(m)' : f \in DOMAIN Reported(fixture[i])}
    BY <1>1 DEF ReportsOf, Reported
  <1>4. \A i \in ReportsOf(m, f) : i \in 1 .. pos
    BY DEF ReportsOf, Yielded
  <1>5. QED
    BY <1>2, <1>3, <1>4 DEF ReportsOf

\* An observation leaves the other tokens as they were...
LEMMA OthersStayObserved ==
    ASSUME TypeOK, Observe, NEW m \in Mints, TokenIsObserved(m),
           fixture[pos + 1].mint # m
    PROVE  TokenIsObserved(m)'
  <1>1. cache'[m] = cache[m] /\ fixture' = fixture
    BY DEF Observe, Yield, Apply, TypeOK
  <1>2. /\ Yielded(m)' = Yielded(m)
        /\ \A f : ReportsOf(m, f)' = ReportsOf(m, f)
    <2>1. Yield
      BY DEF Observe
    <2>2. QED
      BY <2>1, YieldAdds
  <1>3. \A i : Reported(fixture[i])' = Reported(fixture[i])
    BY <1>1 DEF Reported
  <1>4. QED
    BY <1>1, <1>2, <1>3 DEF TokenIsObserved

\* ... and its own token with what it reported, where it reported anything.
LEMMA OwnIsObserved ==
    ASSUME TypeOK, Observe, NEW m \in Mints, TokenIsObserved(m),
           fixture[pos + 1].mint = m
    PROVE  TokenIsObserved(m)'
  <1> DEFINE e == fixture[pos + 1]
             merged == MergeMetrics(KnownMetrics(m), Reported(e))
  <1>1. fixture' = fixture /\ pos \in Nat
    BY NextEntry DEF Observe, Yield, TypeOK
  <1>2. cache'[m] = [metrics |-> merged, last_slot |-> e.slot,
                     last_updated_ms |-> e.observed_at_ms]
    BY DEF Observe, Apply, TypeOK
  <1>3. cache'[m] # None
    <2>1. TypeOK'
      BY ObserveIsTyped
    <2>2. CASE e.events = 0
      <3>1. merged \in TokenMetrics /\ e.slot \in Int /\ e.observed_at_ms \in Int
        BY NextEntry, KnownIsMetrics, ReportedIsAReport, MergedIsMetrics
           DEF Observe, Yield, TypeOK, IsEntry
      <3> HIDE DEF merged, e
      <3>2. QED
        BY <1>2, <3>1, AbsenceAssumption DEF CachedTokens
    <2>3. CASE e.events # 0
      <3>1. pc' = "trigger" /\ pos' = pos + 1
        BY <2>3 DEF Observe, Continue, Yield
      <3>2. QED
        BY <1>1, <2>1, <3>1 DEF TypeOK, Processing, Current
    <2>4. QED
      BY <2>2, <2>3
  <1>4. cache'[m].metrics = merged
    <2> HIDE DEF merged, e
    <2>1. QED
      BY <1>2
  <1>5. \A i : Reported(fixture[i])' = Reported(fixture[i])
    BY <1>1 DEF Reported
  <1>6. pos + 1 \in Yielded(m)'
    BY YieldAdds DEF Observe
  <1>7. ASSUME NEW f \in MetricFields
        PROVE  /\ ReportsOf(m, f)' = {} => merged[f] = NoMetrics[f]
               /\ \A i \in ReportsOf(m, f)' :
                     (\A j \in ReportsOf(m, f)' : j =< i) =>
                         merged[f] = Reported(fixture[i])[f]
    <2>1. merged[f] = IF f \in DOMAIN Reported(e) THEN Reported(e)[f]
                      ELSE KnownMetrics(m)[f]
      BY MergeByField
    <2>2. CASE f \in DOMAIN Reported(e)
      <3>1. ReportsOf(m, f)' = ReportsOf(m, f) \cup {pos + 1}
            /\ \A i \in ReportsOf(m, f) : i \in 1 .. pos
        BY <2>2, YieldAdds DEF Observe
      <3>2. ASSUME NEW i \in ReportsOf(m, f)', \A j \in ReportsOf(m, f)' : j =< i
            PROVE  i = pos + 1
        <4>1. pos + 1 \in ReportsOf(m, f)' /\ (i \in 1 .. pos \/ i = pos + 1)
          BY <3>1
        <4>2. pos + 1 =< i
          BY <3>2, <4>1
        <4>3. QED
          BY <1>1, <4>1, <4>2
      <3>3. QED
        BY <2>1, <2>2, <3>1, <3>2
    <2>3. CASE f \notin DOMAIN Reported(e)
      <3>1. ReportsOf(m, f)' = ReportsOf(m, f)
        BY <2>3, YieldAdds DEF Observe
      <3>2. CASE cache[m] = None
        <4>1. ReportsOf(m, f) = {}
          BY <3>2 DEF TokenIsObserved, ReportsOf
        <4>2. QED
          BY <2>1, <2>3, <3>1, <3>2, <4>1 DEF KnownMetrics
      <3>3. CASE cache[m] # None
        BY <2>1, <2>3, <3>1, <3>3 DEF KnownMetrics, TokenIsObserved
      <3>4. QED
        BY <3>2, <3>3
    <2>4. QED
      BY <2>2, <2>3
  <1> HIDE DEF merged
  <1>8. QED
    BY <1>3, <1>4, <1>5, <1>6, <1>7 DEF TokenIsObserved

\* Continuous state is what the source observed and nothing else: each field
\* holds what the last entry that reported it said, and no re-read made for
\* validation ever enters it.
THEOREM ContinuousStateIsOnlyObserved == Spec => []ContinuousStateIsObserved
  <1>1. Init => ContinuousStateIsObserved
    BY DEF Init, SessionInit, Opened, EmptyCache, ContinuousStateIsObserved, Yielded
  <1>2. TypeOK /\ ContinuousStateIsObserved /\ [Next]_vars => ContinuousStateIsObserved'
    <2> SUFFICES ASSUME TypeOK, ContinuousStateIsObserved, [Next]_vars
                 PROVE  ContinuousStateIsObserved'
      OBVIOUS
    <2>1. CASE Observe
      <3>1. \A m \in Mints : TokenIsObserved(m)'
        BY <2>1, ObservedByToken, OthersStayObserved, OwnIsObserved
      <3>2. QED
        BY <3>1 DEF ContinuousStateIsObserved, TokenIsObserved
    <2>2. CASE Boot
      BY <2>2 DEF Boot, Reopen, EmptyCache, ContinuousStateIsObserved, Yielded
    <2>3. CASE UNCHANGED <<fixture, pos, cache>>
      BY <2>3 DEF ContinuousStateIsObserved, Yielded, ReportsOf
    <2>4. [Next]_vars => Observe \/ Boot \/ UNCHANGED <<fixture, pos, cache>>
      BY DEF Next, Step, Finish, Trigger, Capture, RecordCaptured, AnalyzeDelta,
             FilterCandidate, HeavyAnalysis, Scoring, PreTradeValidation, ReadOnly,
             EmitAlert, RecordAction, Crash, vars, sessionVars, processVars
    <2>5. QED
      BY <2>1, <2>2, <2>3, <2>4
  <1>3. QED
    BY <1>1, <1>2, PipelineTyping, PTL DEF Spec
------------------------------------------------------------------------------
\* Appending to a store adds one element to what it holds.
IsStore(s) == Len(s) \in Nat /\ s \in [1 .. Len(s) -> {s[i] : i \in 1 .. Len(s)}]

LEMMA AppendExtends ==
    ASSUME NEW s, IsStore(s), NEW x
    PROVE  /\ IsStore(Append(s, x))
           /\ Len(Append(s, x)) = Len(s) + 1
           /\ Append(s, x)[Len(s) + 1] = x
           /\ \A i \in 1 .. Len(s) : Append(s, x)[i] = s[i]
  <1> DEFINE S == {s[i] : i \in 1 .. Len(s)} \cup {x}
             t == Append(s, x)
  <1>1. s \in Seq(S)
    BY DEF IsStore
  <1>2. /\ t \in Seq(S)
        /\ Len(t) = Len(s) + 1
        /\ \A i \in 1 .. Len(s) : t[i] = s[i]
        /\ t[Len(s) + 1] = x
    BY <1>1
  <1> HIDE DEF t
  <1>3. Len(t) \in Nat /\ t \in [1 .. Len(t) -> S]
    BY <1>2
  <1>4. QED
    BY <1>2, <1>3 DEF t, IsStore

LEMMA AppendAdds ==
    ASSUME NEW s, IsStore(s), NEW x
    PROVE  IsStore(Append(s, x)) /\ ToSet(Append(s, x)) = ToSet(s) \cup {x}
  <1> DEFINE t == Append(s, x)
  <1>1. /\ IsStore(t) /\ Len(t) = Len(s) + 1 /\ t[Len(s) + 1] = x
        /\ \A i \in 1 .. Len(s) : t[i] = s[i]
    BY AppendExtends
  <1> HIDE DEF t
  <1>2. /\ Len(s) \in Nat /\ DOMAIN s = 1 .. Len(s)
        /\ DOMAIN t = 1 .. Len(s) + 1
    BY <1>1 DEF IsStore
  <1>3. \A i \in DOMAIN t : t[i] \in ToSet(s) \cup {x}
    BY <1>1, <1>2 DEF ToSet
  <1>4. \A i \in DOMAIN s : i \in DOMAIN t /\ s[i] = t[i]
    BY <1>1, <1>2
  <1>5. Len(s) + 1 \in DOMAIN t
    BY <1>2
  <1>6. ToSet(t) = ToSet(s) \cup {x}
    BY <1>1, <1>3, <1>4, <1>5 DEF ToSet
  <1>7. QED
    BY <1>1, <1>6 DEF t
------------------------------------------------------------------------------
\* A step leaves the provenance as it is, or adds one record, of the time the
\* clock then has.
LEMMA StepRecords ==
    ASSUME TypeOK, [Next]_vars
    PROVE  \/ records' = records
           \/ /\ pc \in Processing /\ UNCHANGED <<fixture, pos, run>>
              /\ \E stage, strategy, outcome, detail :
                    records' = Append(records, Record(stage, strategy, outcome, clock', detail))
  <1>1. CASE PreTradeValidation
    BY <1>1, Zenon DEF PreTradeValidation, Processing
  <1>2. CASE HeavyAnalysis
    <2>1. pc \in Processing /\ UNCHANGED <<fixture, pos, run, clock>>
      BY <1>2 DEF HeavyAnalysis, Processing, sessionVars
    <2>2. \E stage, strategy, outcome, detail :
             records' = Append(records, Record(stage, strategy, outcome, clock, detail))
      BY <1>2, Zenon DEF HeavyAnalysis
    <2>3. QED
      BY <2>1, <2>2
  <1>3. CASE Trigger \/ RecordCaptured \/ AnalyzeDelta \/ FilterCandidate \/ Scoring \/ RecordAction
    <2>1. pc \in Processing /\ UNCHANGED <<fixture, pos, run, clock>>
      BY <1>3 DEF Trigger, RecordCaptured, AnalyzeDelta, FilterCandidate, Scoring,
                  RecordAction, Processing, sessionVars
    <2>2. \E stage, strategy, outcome, detail :
             records' = Append(records, Record(stage, strategy, outcome, clock, detail))
      BY <1>3, Zenon DEF Trigger, RecordCaptured, AnalyzeDelta, FilterCandidate, Scoring,
                         RecordAction
    <2>3. QED
      BY <2>1, <2>2
  <1>4. CASE Observe \/ Finish \/ Capture \/ EmitAlert \/ Crash \/ Boot \/ UNCHANGED vars
    BY <1>4 DEF Observe, Finish, Capture, EmitAlert, Crash, Boot, vars, storeVars
  <1>5. QED
    BY <1>1, <1>2, <1>3, <1>4 DEF Next, Step

\* Until the command is run again, fixture and run stay and the clock does not
\* go back.
LEMMA StepKeepsTime ==
    ASSUME TypeOK, [Next]_vars, ~Boot
    PROVE  /\ UNCHANGED <<fixture, run>>
           /\ clock \in Int => clock' \in Int /\ clock' >= clock
  <1>1. CASE Observe
    <2>1. fixture[pos + 1].observed_at_ms \in Int
      BY <1>1, NextEntry DEF Observe, Yield, TypeOK, IsEntry
    <2>2. QED
      BY <1>1, <2>1, ObserveTimeIsLatest DEF Observe, Yield, Optional
  <1>2. CASE PreTradeValidation
    <2>1. Current.mint \in Mints
      BY <1>2, CurrentEntry, ClockIsSet DEF PreTradeValidation, Processing
    <2>2. \/ clock' = clock
          \/ \E t \in Int : clock' = ObserveTime(clock, t)
      BY <1>2, <2>1 DEF PreTradeValidation, TimeOfCheck, TimeAfterRefresh, TypeOK,
                        SessionTypeOK, IsRefreshedState
    <2>3. UNCHANGED <<fixture, run>>
      BY <1>2 DEF PreTradeValidation
    <2>4. QED
      BY <2>2, <2>3, ObserveTimeIsLatest DEF Optional
  <1>3. CASE \/ Finish \/ Trigger \/ Capture \/ RecordCaptured \/ AnalyzeDelta
             \/ FilterCandidate \/ HeavyAnalysis \/ Scoring \/ EmitAlert
             \/ RecordAction \/ Crash \/ UNCHANGED vars
    BY <1>3 DEF Finish, Trigger, Capture, RecordCaptured, AnalyzeDelta, FilterCandidate,
                HeavyAnalysis, Scoring, EmitAlert, RecordAction, Crash, vars, sessionVars
  <1>4. QED
    BY <1>1, <1>2, <1>3 DEF Next, Step

\* The inductive invariant: no record is of a later run, and none of this run
\* is of a later time than the clock's.
RecordsArePast ==
    /\ IsStore(records)
    /\ \A i \in DOMAIN records :
          /\ records[i].run \in Int /\ records[i].run =< run
          /\ records[i].occurred_at_ms \in Int
          /\ records[i].run = run => clock \in Int /\ records[i].occurred_at_ms =< clock

LEMMA StepIsInTime ==
    ASSUME TypeOK, ClockCoversObservations, RecordsArePast, RecordTimesAreOrdered, [Next]_vars
    PROVE  RecordsArePast' /\ RecordTimesAreOrdered'
  <1>0. run \in Int /\ Len(records) \in Nat /\ DOMAIN records = 1 .. Len(records)
    BY MaxRunsAssumption DEF TypeOK, RecordsArePast, IsStore
  <1>1. CASE records' = records
    <2>1. fixture' = fixture /\ IsStore(records')
      BY <1>1, StepKeepsTime DEF Boot, Reopen, RecordsArePast, IsStore
    <2>2. RecordTimesAreOrdered'
      BY <1>1, <2>1 DEF RecordTimesAreOrdered
    <2>3. CASE Boot
      BY <1>0, <1>1, <2>1, <2>2, <2>3 DEF Boot, RecordsArePast
    <2>4. CASE ~Boot
      <3>1. run' = run /\ (clock \in Int => clock' \in Int /\ clock' >= clock)
        BY <2>4, StepKeepsTime
      <3>2. QED
        BY <1>1, <2>1, <2>2, <3>1 DEF RecordsArePast
    <2>5. QED
      BY <2>2, <2>3, <2>4
  <1>2. CASE records' # records
    <2>1. /\ pc \in Processing /\ UNCHANGED <<fixture, pos, run>>
          /\ \E stage, strategy, outcome, detail :
                records' = Append(records, Record(stage, strategy, outcome, clock', detail))
      BY <1>2, StepRecords
    <2>2. PICK stage, strategy, outcome, detail :
             records' = Append(records, Record(stage, strategy, outcome, clock', detail))
      BY <2>1
    <2> DEFINE r == Record(stage, strategy, outcome, clock', detail)
               n == Len(records) + 1
    <2>3. r.run = run /\ r.pos = pos /\ r.occurred_at_ms = clock'
      BY DEF Record
    <2> HIDE DEF r
    <2>4. /\ IsStore(records') /\ Len(records') = n /\ DOMAIN records' = 1 .. n
          /\ records'[n] = r /\ \A i \in DOMAIN records : records'[i] = records[i]
      <3>1. /\ IsStore(Append(records, r)) /\ Len(Append(records, r)) = n
            /\ Append(records, r)[n] = r
            /\ \A i \in 1 .. Len(records) : Append(records, r)[i] = records[i]
        BY AppendExtends DEF RecordsArePast
      <3>2. records' = Append(records, r)
        BY <2>2 DEF r
      <3>3. QED
        BY <1>0, <3>1, <3>2 DEF IsStore
    <2>5. clock \in Int /\ clock' \in Int /\ clock' >= clock
      <3>1. ~Boot
        BY <2>1 DEF Boot, Processing
      <3>2. QED
        BY <2>1, <3>1, ClockIsSet, StepKeepsTime
    <2>6. pos \in 1 .. pos /\ fixture[pos].observed_at_ms \in Int
          /\ fixture[pos].observed_at_ms =< clock'
      BY <2>1, <2>5, CurrentEntry, ClockIsSet DEF ClockCoversObservations, Current
    <2>7. RecordsArePast'
      BY <1>0, <2>1, <2>3, <2>4, <2>5 DEF RecordsArePast
    <2>8. RecordTimesAreOrdered'
      <3>1. \A i \in 1 .. n :
               fixture[records'[i].pos].observed_at_ms =< records'[i].occurred_at_ms
        BY <1>0, <2>3, <2>4, <2>6 DEF RecordTimesAreOrdered
      <3>2. \A i \in 1 .. n : \A j \in i + 1 .. n : records'[i].run = records'[j].run =>
               records'[i].occurred_at_ms =< records'[j].occurred_at_ms
        <4>1. SUFFICES ASSUME NEW i \in 1 .. n, NEW j \in i + 1 .. n,
                              records'[i].run = records'[j].run
                       PROVE  records'[i].occurred_at_ms =< records'[j].occurred_at_ms
          OBVIOUS
        <4>2. i \in DOMAIN records /\ records'[i] = records[i]
          BY <1>0, <2>4
        <4>3. CASE j = n
          <5>1. records[i].run = run
            BY <2>3, <2>4, <4>1, <4>2, <4>3
          <5>2. QED
            BY <2>3, <2>4, <2>5, <4>2, <4>3, <5>1 DEF RecordsArePast
        <4>4. CASE j # n
          <5>1. j \in i + 1 .. Len(records) /\ j \in DOMAIN records
            BY <1>0, <4>4
          <5>2. QED
            BY <2>4, <4>1, <4>2, <5>1 DEF RecordTimesAreOrdered
        <4>5. QED
          BY <4>3, <4>4
      <3>3. QED
        BY <2>1, <2>4, <3>1, <3>2 DEF RecordTimesAreOrdered
    <2>9. QED
      BY <2>7, <2>8
  <1>3. QED
    BY <1>1, <1>2

\* For every deployment the provenance of a run is in order of time.
THEOREM ProvenanceIsInOrder == Spec => []RecordTimesAreOrdered
  <1>1. Init => RecordsArePast /\ RecordTimesAreOrdered
    BY DEF Init, RecordsArePast, RecordTimesAreOrdered, IsStore
  <1>2. QED
    BY <1>1, StepIsInTime, PipelineTyping, PipelineKeepsSession, PTL DEF Spec
------------------------------------------------------------------------------
\* The last of some of the first n indices is one of them, and none is later.
LEMMA MaxIsLast ==
    ASSUME NEW n \in Nat, NEW S, S \subseteq 1 .. n, S # {}
    PROVE  Max(S) \in S /\ \A i \in S : i =< Max(S)
  <1> DEFINE T == {n - i : i \in S}
             R == OpToRel(<, Nat)
  <1>1. T \subseteq Nat /\ T # {}
    <2>1. \A i \in S : n - i \in Nat
      OBVIOUS
    <2>2. QED
      BY <2>1
  <1>2. IsWellFoundedOn(R, Nat)
    BY NatLessThanWellFounded
  <1> HIDE DEF T, R
  <1>3. \E x \in T : \A y \in T : ~(<<y, x>> \in R)
    BY <1>1, <1>2, WFMin
  <1>4. \E x \in T : \A y \in T : ~(y < x)
    BY <1>1, <1>3 DEF R, OpToRel
  <1>5. \E i \in S : \A j \in S : i >= j
    <2>1. PICK x \in T : \A y \in T : ~(y < x)
      BY <1>4
    <2>2. PICK i \in S : x = n - i
      BY DEF T
    <2>3. \A j \in S : n - j \in T
      BY DEF T
    <2>4. \A j \in S : i >= j
      BY <2>1, <2>2, <2>3
    <2>5. QED
      BY <2>4
  <1>6. QED
    BY <1>5 DEF Max

\* An index of S that none of S exceeds is its last.
LEMMA LastIsMax ==
    ASSUME NEW S, S \subseteq Int, NEW i \in S, \A j \in S : j =< i
    PROVE  Max(S) = i
  <1>1. \E k \in S : \A j \in S : k >= j
    OBVIOUS
  <1>2. Max(S) \in S /\ \A j \in S : Max(S) >= j
    BY <1>1 DEF Max
  <1>3. Max(S) \in Int /\ i \in Int /\ Max(S) >= i /\ Max(S) =< i
    BY <1>2
  <1>4. QED
    BY <1>3

\* An index of S that exceeds none of S is its first.
LEMMA FirstIsMin ==
    ASSUME NEW S, S \subseteq Int, NEW i \in S, \A j \in S : i =< j
    PROVE  Min(S) = i
  <1>1. \E k \in S : \A j \in S : k =< j
    OBVIOUS
  <1>2. Min(S) \in S /\ \A j \in S : Min(S) =< j
    BY <1>1 DEF Min
  <1>3. Min(S) \in Int /\ i \in Int /\ Min(S) >= i /\ Min(S) =< i
    BY <1>2
  <1>4. QED
    BY <1>3
------------------------------------------------------------------------------
\* The candidacy the current stage is about.
Candidacy == [run |-> run, pos |-> pos, event |-> frame.event, strategy |-> Strategy.name]

\* The stages that leave a record, and what the record is of.
Recorded ==
    {<<"trigger", "EVENT_TRIGGER">>, <<"captured", "CONTINUOUS_DATA">>,
     <<"delta", "DELTA_ANALYSIS">>, <<"filter", "CANDIDATE_FILTERING">>,
     <<"analysis", "HEAVY_ANALYSIS">>, <<"scoring", "SCORING">>,
     <<"validate", "PRE_TRADE_VALIDATION">>, <<"action", "ACTION">>}

\* The stages that go on to another of the same event or strategy.
GoingOn ==
    {<<"trigger", "capture">>, <<"captured", "delta">>, <<"filter", "analysis">>,
     <<"analysis", "scoring">>, <<"scoring", "validate">>, <<"validate", "alert">>}

\* The step goes on to a stage of the same strategy, or of the event's
\* preparation...
GoesOn ==
    /\ frame'.event = frame.event /\ frame'.bot = frame.bot
    /\ frame'.count = frame.count + 1
    /\ frame'.previous = frame.previous /\ frame'.snapshot = frame.snapshot

\* ... or to the next bot, the next event, or the next observation.
NextBot ==
    /\ frame.bot < Len(Bots)
    /\ pc' = "filter"
    /\ frame'.event = frame.event /\ frame'.bot = frame.bot + 1
    /\ frame'.count = frame.count + 1
    /\ frame'.previous = frame.previous /\ frame'.snapshot = frame.snapshot

EventAfter ==
    /\ frame.bot = Len(Bots) /\ frame.event < Current.events
    /\ pc' = "trigger"
    /\ frame' = EventFrame(frame.event + 1, frame.previous)

EventsOver ==
    /\ frame.bot = Len(Bots) /\ frame.event = Current.events
    /\ pc' = "source"
    /\ frame' = NoFrame

MovesOn == NextBot \/ EventAfter \/ EventsOver

LEMMA MoveOnMoves ==
    ASSUME TypeOK, pc \in Processing, MoveOn(Counted)
    PROVE  MovesOn
  <1>1. /\ IsFrame(frame) /\ frame.event \in 1 .. Current.events /\ Current.events \in Nat
        /\ Len(Bots) \in Nat /\ frame.bot \in 0 .. Len(Bots)
    BY ClockIsSet, CountedStage, CurrentEntry, BotsAssumption DEF IsFrame
  <1>2. /\ IsFrame(Counted) /\ Counted.event = frame.event /\ Counted.bot = frame.bot
        /\ Counted.previous = frame.previous /\ Counted.snapshot = frame.snapshot
        /\ Counted.count = frame.count + 1
    BY <1>1 DEF Counted, IsFrame
  <1> HIDE DEF Counted
  <1>3. CASE Counted.bot < Len(Bots)
    BY <1>1, <1>2, <1>3 DEF MoveOn, Continue, IsFrame, MovesOn, NextBot
  <1>4. CASE ~(Counted.bot < Len(Bots))
    BY <1>1, <1>2, <1>4 DEF MoveOn, NextEvent, Continue, MovesOn, EventAfter, EventsOver
  <1>5. QED
    BY <1>3, <1>4

\* Counting a record goes on, with whatever was found on the way.
LEMMA CountGoesOn ==
    ASSUME TypeOK, pc \in Processing, NEW v
    PROVE  /\ frame' = Counted => GoesOn
           /\ frame' = [Counted EXCEPT !.features = v] => GoesOn /\ frame'.features = v
           /\ frame' = [Counted EXCEPT !.score = v] => GoesOn /\ frame'.score = v
           /\ frame' = [Counted EXCEPT !.checked = v] =>
                 GoesOn /\ frame'.checked = v /\ frame'.score = frame.score
  <1>1. /\ IsFrame(Counted) /\ Counted.event = frame.event /\ Counted.bot = frame.bot
        /\ Counted.previous = frame.previous /\ Counted.snapshot = frame.snapshot
        /\ Counted.count = frame.count + 1 /\ Counted.score = frame.score
    BY ClockIsSet, CountedStage DEF Counted, IsFrame
  <1> HIDE DEF Counted
  <1>2. QED
    BY <1>1 DEF IsFrame, GoesOn

\* A step that adds the record r of the current stage, and touches neither the
\* sink nor the snapshots.
Writes(r) ==
    /\ UNCHANGED <<fixture, pos, published, cache, run, snapshots, alerts>>
    /\ records' = Append(records, r)
    /\ r.run = run /\ r.pos = pos /\ r.event = frame.event /\ r.count = frame.count + 1
    /\ r.mint = Current.mint
    /\ <<pc, r.stage>> \in Recorded
    /\ r.strategy = IF pc \in BotStages THEN Strategy.name ELSE None
    /\ \/ pc \in {"delta", "action"} /\ MovesOn
       \/ pc \in BotStages /\ EndsStrategy(r) /\ MovesOn
       \/ <<pc, pc'>> \in GoingOn /\ ~EndsStrategy(r) /\ GoesOn
    /\ pc = "delta" => ~EndsStrategy(r)

EndingOutcomes == {"rejected", "module_not_implemented", "reject", "not_configured", "cancelled"}

LEMMA RecordWrites ==
    ASSUME TypeOK, NEW stage, <<pc, stage>> \in Recorded,
           UNCHANGED <<fixture, pos, published, cache, run, snapshots, alerts>>,
           NEW strategy, strategy = IF pc \in BotStages THEN Strategy.name ELSE None,
           NEW outcome, NEW now, NEW detail,
           records' = Append(records, Record(stage, strategy, outcome, now, detail)),
           \/ pc \in {"delta", "action"} /\ outcome \notin EndingOutcomes /\ MovesOn
           \/ pc \in BotStages /\ outcome \in EndingOutcomes /\ MovesOn
           \/ <<pc, pc'>> \in GoingOn /\ outcome \notin EndingOutcomes /\ GoesOn
    PROVE  Writes(Record(stage, strategy, outcome, now, detail))
  <1> DEFINE r == Record(stage, strategy, outcome, now, detail)
  <1>1. /\ r.run = run /\ r.pos = pos /\ r.event = frame.event /\ r.count = frame.count + 1
        /\ r.stage = stage /\ r.mint = Current.mint /\ r.strategy = strategy
        /\ r.outcome = outcome
    BY DEF Record
  <1> HIDE DEF r
  <1>2. stage = "ACTION" <=> pc = "action"
    BY DEF Recorded
  <1>3. EndsStrategy(r) <=> pc = "action" \/ outcome \in EndingOutcomes
    BY <1>1, <1>2 DEF EndsStrategy, EndingOutcomes
  <1>4. <<pc, pc'>> \in GoingOn => pc \notin {"delta", "action"}
    BY DEF GoingOn
  <1>5. QED
    BY <1>1, <1>3, <1>4 DEF r, Writes, BotStages

\* What the stages write.
LEMMA TriggerWrites ==
    ASSUME TypeOK, Trigger
    PROVE  Writes(Record("EVENT_TRIGGER", None, "declared", clock, None))
  <1>1. pc = "trigger" /\ pc \in Processing /\ pc' = "capture" /\ frame' = Counted
    BY DEF Trigger, Continue, Processing
  <1>2. GoesOn
    BY <1>1, CountGoesOn
  <1>3. QED
    BY <1>1, <1>2, RecordWrites
       DEF Trigger, sessionVars, Recorded, GoingOn, EndingOutcomes, BotStages

LEMMA CaptureWrites ==
    ASSUME TypeOK, RecordCaptured
    PROVE  \E detail : Writes(Record("CONTINUOUS_DATA", None, "captured", clock, detail))
  <1>1. pc = "captured" /\ pc \in Processing /\ pc' = "delta" /\ frame' = Counted
    BY DEF RecordCaptured, Continue, Processing
  <1>2. GoesOn
    BY <1>1, CountGoesOn
  <1>3. PICK detail :
           records' = Append(records, Record("CONTINUOUS_DATA", None, "captured", clock, detail))
    BY DEF RecordCaptured
  <1>4. Writes(Record("CONTINUOUS_DATA", None, "captured", clock, detail))
    BY <1>1, <1>2, <1>3, RecordWrites
       DEF RecordCaptured, sessionVars, Recorded, GoingOn, EndingOutcomes, BotStages
  <1>5. QED
    BY <1>4

LEMMA DeltaWrites ==
    ASSUME TypeOK, AnalyzeDelta
    PROVE  \E outcome : Writes(Record("DELTA_ANALYSIS", None, outcome, clock,
                                      Diff(frame.previous, frame.snapshot)))
  <1> DEFINE delta == Diff(frame.previous, frame.snapshot)
  <1>1. pc = "delta" /\ pc \in Processing /\ MoveOn(Counted)
    BY DEF AnalyzeDelta, Processing
  <1>2. PICK outcome \in {"empty", "changed"} :
           records' = Append(records, Record("DELTA_ANALYSIS", None, outcome, clock, delta))
    BY DEF AnalyzeDelta
  <1> HIDE DEF delta
  <1>3. Writes(Record("DELTA_ANALYSIS", None, outcome, clock, delta))
    BY <1>1, <1>2, MoveOnMoves, RecordWrites
       DEF AnalyzeDelta, sessionVars, Recorded, EndingOutcomes, BotStages
  <1>4. QED
    BY <1>3 DEF delta

LEMMA FilterWrites ==
    ASSUME TypeOK, FilterCandidate
    PROVE  \E outcome, trace :
              Writes(Record("CANDIDATE_FILTERING", Strategy.name, outcome, clock, trace))
  <1>1. PICK accepted, trace :
           /\ IF accepted THEN Continue("analysis", Counted) ELSE MoveOn(Counted)
           /\ records' = Append(records,
                 Record("CANDIDATE_FILTERING", Strategy.name,
                        IF accepted THEN "accepted" ELSE "rejected", clock, trace))
    BY Zenon DEF FilterCandidate, FilterRun
  <1>2. /\ pc = "filter" /\ pc \in Processing
        /\ UNCHANGED <<fixture, pos, published, cache, run, snapshots, alerts>>
    BY DEF FilterCandidate, Processing, sessionVars
  <1>3. CASE accepted
    <2>1. pc' = "analysis" /\ GoesOn
      BY <1>1, <1>2, <1>3, CountGoesOn DEF Continue
    <2>2. records' = Append(records,
             Record("CANDIDATE_FILTERING", Strategy.name, "accepted", clock, trace))
      BY <1>1, <1>3
    <2>3. Writes(Record("CANDIDATE_FILTERING", Strategy.name, "accepted", clock, trace))
      BY <1>2, <2>1, <2>2, RecordWrites DEF Recorded, GoingOn, EndingOutcomes, BotStages
    <2>4. QED
      BY <2>3
  <1>4. CASE ~accepted
    <2>1. MovesOn
      BY <1>1, <1>2, <1>4, MoveOnMoves
    <2>2. records' = Append(records,
             Record("CANDIDATE_FILTERING", Strategy.name, "rejected", clock, trace))
      BY <1>1, <1>4
    <2>3. Writes(Record("CANDIDATE_FILTERING", Strategy.name, "rejected", clock, trace))
      BY <1>2, <2>1, <2>2, RecordWrites DEF Recorded, EndingOutcomes, BotStages
    <2>4. QED
      BY <2>3
  <1>5. QED
    BY <1>3, <1>4

\* What heavy analysis writes names the features the strategy goes on with.
LEMMA AnalysisWrites ==
    ASSUME TypeOK, HeavyAnalysis
    PROVE  \E outcome, names :
              /\ Writes(Record("HEAVY_ANALYSIS", Strategy.name, outcome, clock, names))
              /\ pc' = "scoring" =>
                    names = [i \in DOMAIN frame'.features |-> frame'.features[i].name]
  <1> DEFINE features == Analyze(EnabledModules, Candidate)
             names    == [i \in DOMAIN features |-> features[i].name]
  <1>0. pc = "analysis" /\ pc \in Processing
    BY DEF HeavyAnalysis, Processing
  <1>1. CASE AnalysisRaises(EnabledModules)
    <2>1. /\ MoveOn(Counted)
          /\ records' = Append(records, Record("HEAVY_ANALYSIS", Strategy.name,
                                               "module_not_implemented", clock, None))
      BY <1>1 DEF HeavyAnalysis
    <2>2. MovesOn /\ pc' # "scoring"
      BY <1>0, <2>1, MoveOnMoves DEF MovesOn, NextBot, EventAfter, EventsOver
    <2>3. Writes(Record("HEAVY_ANALYSIS", Strategy.name, "module_not_implemented", clock, None))
      BY <1>0, <2>1, <2>2, RecordWrites
         DEF HeavyAnalysis, sessionVars, Recorded, EndingOutcomes, BotStages
    <2>4. QED
      BY <2>2, <2>3
  <1>2. CASE ~AnalysisRaises(EnabledModules)
    <2>1. /\ pc' = "scoring" /\ frame' = [Counted EXCEPT !.features = features]
          /\ records' = Append(records, Record("HEAVY_ANALYSIS", Strategy.name,
                                               "analyzed", clock, names))
      BY <1>2, Zenon DEF HeavyAnalysis, Continue
    <2> HIDE DEF features
    <2>2. GoesOn /\ frame'.features = features
      BY <1>0, <2>1, CountGoesOn
    <2>3. names = [i \in DOMAIN frame'.features |-> frame'.features[i].name]
      BY <2>2
    <2> HIDE DEF names
    <2>4. Writes(Record("HEAVY_ANALYSIS", Strategy.name, "analyzed", clock, names))
      BY <1>0, <2>1, <2>2, RecordWrites
         DEF HeavyAnalysis, sessionVars, Recorded, GoingOn, EndingOutcomes, BotStages
    <2>5. QED
      BY <2>3, <2>4
  <1>3. QED
    BY <1>1, <1>2

\* What scoring writes is the score the strategy advances with.
LEMMA ScoringWrites ==
    ASSUME TypeOK, Scoring
    PROVE  LET decision == Evaluate(Strategy, Candidate, frame.features) IN
           /\ Writes(Record("SCORING", Strategy.name, decision.outcome, clock, decision.score))
           /\ decision.outcome \in {"advance", "reject", "not_configured"}
           /\ pc' = "validate" =>
                 decision.outcome = "advance" /\ frame'.score = decision.score
  <1> DEFINE decision == Evaluate(Strategy, Candidate, frame.features)
  <1>1. /\ pc = "scoring" /\ pc \in Processing
        /\ records' = Append(records, Record("SCORING", Strategy.name, decision.outcome,
                                             clock, decision.score))
        /\ IF decision.outcome = "advance"
              THEN Continue("validate", [Counted EXCEPT !.score = decision.score])
              ELSE MoveOn(Counted)
    BY DEF Scoring, Processing
  <1>2. decision.outcome \in {"advance", "reject", "not_configured"}
    BY DEF Evaluate, EvaluateBotA, EvaluateBotB, ThresholdDecision
  <1> HIDE DEF decision
  <1>3. CASE decision.outcome = "advance"
    <2>1. pc' = "validate" /\ frame' = [Counted EXCEPT !.score = decision.score]
      BY <1>1, <1>3 DEF Continue
    <2>2. GoesOn /\ frame'.score = decision.score
      BY <1>1, <2>1, CountGoesOn
    <2>3. Writes(Record("SCORING", Strategy.name, decision.outcome, clock, decision.score))
      BY <1>1, <1>3, <2>1, <2>2, RecordWrites
         DEF Scoring, sessionVars, Recorded, GoingOn, EndingOutcomes, BotStages
    <2>4. QED
      BY <1>2, <1>3, <2>2, <2>3 DEF decision
  <1>4. CASE decision.outcome # "advance"
    <2>1. MovesOn /\ pc' # "validate"
      BY <1>1, <1>4, MoveOnMoves DEF MovesOn, NextBot, EventAfter, EventsOver
    <2>2. Writes(Record("SCORING", Strategy.name, decision.outcome, clock, decision.score))
      BY <1>1, <1>2, <1>4, <2>1, RecordWrites
         DEF Scoring, sessionVars, Recorded, EndingOutcomes, BotStages
    <2>3. QED
      BY <1>2, <2>1, <2>2 DEF decision
  <1>5. QED
    BY <1>3, <1>4

\* What validation writes is the verdict an alert goes out with.
LEMMA ValidationWrites ==
    ASSUME TypeOK, PreTradeValidation
    PROVE  /\ Writes(Record("PRE_TRADE_VALIDATION", Strategy.name, ValidateCurrent.outcome,
                            TimeOfCheck, ValidateCurrent))
           /\ ValidateCurrent.outcome \in {"pass", "cancelled"}
           /\ pc' = "alert" =>
                 /\ ValidateCurrent.outcome = "pass"
                 /\ frame'.checked = ValidateCurrent /\ frame'.score = frame.score
  <1> DEFINE v == ValidateCurrent
             r == Record("PRE_TRADE_VALIDATION", Strategy.name, v.outcome, TimeOfCheck, v)
  <1>1. /\ pc = "validate" /\ pc \in Processing
        /\ records' = Append(records, r)
        /\ IF v.outcome = "pass"
              THEN Continue("alert", [Counted EXCEPT !.checked = v])
              ELSE MoveOn(Counted)
        /\ UNCHANGED <<fixture, pos, published, cache, run, snapshots, alerts>>
    BY DEF PreTradeValidation, Processing, ReadOnly, KeepDeclared
  <1>2. v.outcome \in {"pass", "cancelled"}
    BY DEF ValidateCurrent, Validate, Unread, Verdict
  <1> HIDE DEF v
  <1>3. CASE v.outcome = "pass"
    <2>1. pc' = "alert" /\ frame' = [Counted EXCEPT !.checked = v]
      BY <1>1, <1>3 DEF Continue
    <2>2. GoesOn /\ frame'.checked = v /\ frame'.score = frame.score
      BY <1>1, <2>1, CountGoesOn
    <2>3. Writes(r)
      BY <1>1, <1>3, <2>1, <2>2, RecordWrites DEF Recorded, GoingOn, EndingOutcomes, BotStages
    <2>4. QED
      BY <1>2, <1>3, <2>2, <2>3 DEF v
  <1>4. CASE v.outcome # "pass"
    <2>1. MovesOn /\ pc' # "alert"
      BY <1>1, <1>4, MoveOnMoves DEF MovesOn, NextBot, EventAfter, EventsOver
    <2>2. Writes(r)
      BY <1>1, <1>2, <1>4, <2>1, RecordWrites DEF Recorded, EndingOutcomes, BotStages
    <2>3. QED
      BY <1>2, <2>1, <2>2 DEF v
  <1>5. QED
    BY <1>3, <1>4

LEMMA ActionWrites ==
    ASSUME TypeOK, RecordAction
    PROVE  Writes(Record("ACTION", Strategy.name, "alert_raised", clock, None))
  <1>1. pc = "action" /\ pc \in Processing /\ MoveOn(Counted)
    BY DEF RecordAction, Processing
  <1>2. QED
    BY <1>1, MoveOnMoves, RecordWrites
       DEF RecordAction, sessionVars, Recorded, EndingOutcomes, BotStages

\* A step writes a record, or is one of those that write none.
LEMMA StepWrites ==
    ASSUME TypeOK, [Next]_vars
    PROVE  \/ \E r : Writes(r)
           \/ Observe \/ Finish \/ Capture \/ EmitAlert \/ Crash \/ Boot \/ UNCHANGED vars
  BY TriggerWrites, CaptureWrites, DeltaWrites, FilterWrites, AnalysisWrites, ScoringWrites,
     ValidationWrites, ActionWrites, Zenon DEF Next, Step

\* An observation is taken up, whoever handed it over...
TakesUp ==
    /\ pc = "source" /\ pos < Len(fixture)
    /\ pos' = pos + 1
    /\ LET entry == fixture[pos + 1] IN
          IF entry.events = 0 THEN Continue("source", NoFrame)
          ELSE Continue("trigger", EventFrame(1, CaptureKnown(entry.mint)))
    /\ UNCHANGED <<fixture, run, storeVars>>

\* ... or the fixture is gone through once more, and the stores stay.
StartsOver ==
    /\ pc \notin Processing
    /\ run' = run + 1 /\ pos' = 0
    /\ Continue("source", NoFrame)
    /\ UNCHANGED <<fixture, storeVars>>

LEMMA ObserveTakesUp == Observe => TakesUp
  BY DEF Observe, Yield, TakesUp

LEMMA BootStartsOver == Boot => StartsOver
  BY DEF Boot, Reopen, StartsOver, Continue, Processing

\* What a written record adds to the provenance.
LEMMA WritesAdds ==
    ASSUME IsStore(records), NEW r, Writes(r)
    PROVE  /\ IsStore(records') /\ Len(records) \in Nat /\ DOMAIN records = 1 .. Len(records)
           /\ DOMAIN records' = 1 .. Len(records) + 1
           /\ records'[Len(records) + 1] = r
           /\ \A i \in DOMAIN records : records'[i] = records[i]
           /\ ToSet(records') = ToSet(records) \cup {r}
  <1> DEFINE t == Append(records, r)
  <1>1. /\ IsStore(t) /\ Len(t) = Len(records) + 1 /\ t[Len(records) + 1] = r
        /\ \A i \in 1 .. Len(records) : t[i] = records[i]
        /\ ToSet(t) = ToSet(records) \cup {r}
    BY AppendExtends, AppendAdds
  <1>2. records' = t
    BY DEF Writes
  <1> HIDE DEF t
  <1>3. QED
    BY <1>1, <1>2 DEF IsStore
------------------------------------------------------------------------------
\* The observations of a mint before the p-th, those of them that reported a
\* field, and what was known of it from them.
Earlier(p, m) == {i \in 1 .. p - 1 : fixture[i].mint = m}
ToldBefore(p, m, f) == {i \in Earlier(p, m) : f \in DOMAIN Reported(fixture[i])}
Was(p, m, f) ==
    IF ToldBefore(p, m, f) = {} THEN NoMetrics[f]
    ELSE Reported(fixture[Max(ToldBefore(p, m, f))])[f]

\* What a delta of the observation p must say.
DeltaRight(r) ==
    /\ r.detail.changed \subseteq DOMAIN Reported(fixture[r.pos])
    /\ r.detail.from_slot =
          IF Earlier(r.pos, r.mint) = {} THEN None
          ELSE fixture[Max(Earlier(r.pos, r.mint))].slot
    /\ Earlier(r.pos, r.mint) # {} => \A f \in DOMAIN Reported(fixture[r.pos]) :
          f \in r.detail.changed <=> Was(r.pos, r.mint, f) # Reported(fixture[r.pos])[f]

\* The inductive invariant: the cache is of the last observation of each token,
\* the pre-update snapshot of the one before the current, and the update and
\* the decision snapshot differ from it in what the current one reported.
SlotsAreOfLast ==
    \A m \in Mints : cache[m] # None => cache[m].last_slot = fixture[Max(Yielded(m))].slot

PreviousIsBefore ==
    LET m == Current.mint IN
    /\ frame.previous = None <=> Earlier(pos, m) = {}
    /\ frame.previous # None =>
          /\ frame.previous.slot = fixture[Max(Earlier(pos, m))].slot
          /\ \A f \in MetricFields : frame.previous.metrics[f] = Was(pos, m, f)
    /\ \A f \in MetricFields :
          /\ f \in DOMAIN Reported(Current) => cache[m].metrics[f] = Reported(Current)[f]
          /\ f \notin DOMAIN Reported(Current) /\ frame.previous # None =>
                cache[m].metrics[f] = frame.previous.metrics[f]

DeltaInv ==
    /\ IsStore(records)
    /\ SlotsAreOfLast
    /\ pc \in Processing => PreviousIsBefore
    /\ pc \in Processing \ {"trigger", "capture"} =>
          frame.snapshot.metrics = cache[Current.mint].metrics
    /\ \A r \in ToSet(records) : r.stage = "DELTA_ANALYSIS" => DeltaRight(r)

LEMMA DeltaInvSuffices == DeltaInv => DeltaIsOfThisObservation
  <1> SUFFICES ASSUME DeltaInv, NEW r \in ToSet(records), r.stage = "DELTA_ANALYSIS"
               PROVE  LET earlier == {i \in 1 .. r.pos - 1 : fixture[i].mint = r.mint} IN
                      /\ r.detail.changed \subseteq DOMAIN Reported(fixture[r.pos])
                      /\ r.detail.from_slot =
                            IF earlier = {} THEN None ELSE fixture[Max(earlier)].slot
                      /\ earlier # {} => \A f \in DOMAIN Reported(fixture[r.pos]) :
                            LET told == {i \in earlier : f \in DOMAIN Reported(fixture[i])}
                                was  == IF told = {} THEN NoMetrics[f]
                                        ELSE Reported(fixture[Max(told)])[f]
                            IN  f \in r.detail.changed <=> was # Reported(fixture[r.pos])[f]
    BY Zenon DEF DeltaIsOfThisObservation
  <1>1. DeltaRight(r)
    BY DEF DeltaInv
  <1>2. QED
    BY <1>1, Zenon DEF DeltaRight, Earlier, ToldBefore, Was

\* A fixture does not change, nor does what it says.
LEMMA FixtureStays ==
    ASSUME fixture' = fixture
    PROVE  /\ \A p, m : Earlier(p, m)' = Earlier(p, m)
           /\ \A p, m, f : Was(p, m, f)' = Was(p, m, f)
           /\ \A r : DeltaRight(r)' <=> DeltaRight(r)
  <1>1. \A i : Reported(fixture[i])' = Reported(fixture[i])
    BY DEF Reported
  <1>2. \A p, m : Earlier(p, m)' = Earlier(p, m)
    BY DEF Earlier
  <1>3. \A p, m, f : ToldBefore(p, m, f)' = ToldBefore(p, m, f)
    BY <1>1, <1>2 DEF ToldBefore
  <1>4. \A p, m, f : Was(p, m, f)' = Was(p, m, f)
    BY <1>1, <1>3 DEF Was
  <1>5. QED
    BY <1>1, <1>2, <1>4 DEF DeltaRight

\* What is known of a token is what its observations said of it.
LEMMA KnownIsWhatWas ==
    ASSUME TypeOK, ContinuousStateIsObserved, NEW m \in Mints
    PROVE  /\ Earlier(pos + 1, m) = Yielded(m)
           /\ cache[m] = None <=> Yielded(m) = {}
           /\ cache[m] # None =>
                 \A f \in MetricFields : cache[m].metrics[f] = Was(pos + 1, m, f)
  <1>1. pos \in Nat /\ pos + 1 - 1 = pos
    BY DEF TypeOK, SessionTypeOK
  <1>2. Earlier(pos + 1, m) = Yielded(m)
    BY <1>1 DEF Earlier, Yielded
  <1>3. TokenIsObserved(m)
    BY ObservedByToken
  <1>4. ASSUME cache[m] # None, NEW f \in MetricFields
        PROVE  cache[m].metrics[f] = Was(pos + 1, m, f)
    <2>1. ToldBefore(pos + 1, m, f) = ReportsOf(m, f)
      BY <1>2 DEF ToldBefore, ReportsOf
    <2>2. CASE ReportsOf(m, f) = {}
      BY <1>3, <1>4, <2>1, <2>2 DEF TokenIsObserved, Was
    <2>3. CASE ReportsOf(m, f) # {}
      <3>1. ReportsOf(m, f) \subseteq 1 .. pos
        BY DEF ReportsOf, Yielded
      <3>2. /\ Max(ReportsOf(m, f)) \in ReportsOf(m, f)
            /\ \A j \in ReportsOf(m, f) : j =< Max(ReportsOf(m, f))
        BY <1>1, <2>3, <3>1, MaxIsLast
      <3>3. cache[m].metrics[f] = Reported(fixture[Max(ReportsOf(m, f))])[f]
        BY <1>3, <1>4, <3>2 DEF TokenIsObserved
      <3>4. QED
        BY <2>1, <2>3, <3>3 DEF Was
    <2>4. QED
      BY <2>2, <2>3
  <1>5. QED
    BY <1>2, <1>3, <1>4 DEF TokenIsObserved

\* An observation captures what was before it and applies what it reports.
LEMMA ObserveIsOnlyIts ==
    ASSUME TypeOK, ContinuousStateIsObserved, DeltaInv, Observe
    PROVE  SlotsAreOfLast' /\ (pc' \in Processing => PreviousIsBefore')
  <1>1. PICK e : e = fixture[pos + 1]
    OBVIOUS
  <1>2. PICK m : m = e.mint
    OBVIOUS
  <1>3. /\ pos \in Nat /\ pos' = pos + 1 /\ fixture' = fixture /\ IsEntry(e)
        /\ m \in Mints /\ Current' = e
    BY <1>1, <1>2, NextEntry DEF Observe, Yield, TypeOK, IsEntry, Current
  <1>4. PICK token : token = [metrics         |-> MergeMetrics(KnownMetrics(m), Reported(e)),
                              last_slot       |-> e.slot,
                              last_updated_ms |-> e.observed_at_ms]
    OBVIOUS
  <1>5. cache' = [cache EXCEPT ![m] = token] /\ DOMAIN cache = Mints
    BY <1>1, <1>2, <1>4 DEF Observe, Apply, TypeOK
  <1>6. cache'[m] = token /\ \A k \in Mints \ {m} : cache'[k] = cache[k]
    BY <1>3, <1>5
  <1>7. /\ token.last_slot = e.slot
        /\ \A f \in MetricFields : token.metrics[f] =
              IF f \in DOMAIN Reported(e) THEN Reported(e)[f] ELSE KnownMetrics(m)[f]
    <2>1. PICK merged : merged = MergeMetrics(KnownMetrics(m), Reported(e))
      OBVIOUS
    <2>2. token.last_slot = e.slot /\ token.metrics = merged
      BY <1>4, <2>1
    <2>3. QED
      BY <2>1, <2>2, MergeByField
  <1>8. SlotsAreOfLast'
    <2>1. ASSUME NEW k \in Mints, cache'[k] # None
          PROVE  cache'[k].last_slot = fixture[Max(Yielded(k)')].slot
      <3>1. CASE k = m
        <4>1. Yielded(k)' \subseteq 1 .. pos + 1 /\ pos + 1 \in Yielded(k)'
          BY <1>1, <1>2, <1>3, <3>1 DEF Yielded
        <4>2. \A j \in Yielded(k)' : j =< pos + 1
          BY <1>3, <4>1
        <4>3. Yielded(k)' \subseteq Int
          BY <1>3, <4>1
        <4>4. Max(Yielded(k)') = pos + 1
          BY <4>1, <4>2, <4>3, LastIsMax
        <4>5. QED
          BY <1>1, <1>6, <1>7, <3>1, <4>4
      <3>2. CASE k # m
        <4>1. Yield
          BY DEF Observe
        <4>2. Yielded(k)' = Yielded(k)
          BY <1>1, <1>2, <3>2, <4>1, YieldAdds
        <4>3. QED
          BY <1>6, <2>1, <3>2, <4>2 DEF DeltaInv, SlotsAreOfLast
      <3>3. QED
        BY <3>1, <3>2
    <2>2. QED
      BY <1>3, <2>1 DEF SlotsAreOfLast
  <1>9. ASSUME pc' \in Processing
        PROVE  PreviousIsBefore'
    <2>1. PICK p : p = CaptureKnown(m)
      OBVIOUS
    <2>2. frame'.previous = p
      <3>1. \/ pc' = "source"
            \/ frame' = EventFrame(1, p)
        BY <1>1, <1>2, <2>1 DEF Observe, Continue
      <3>2. QED
        BY <1>9, <3>1 DEF Processing, EventFrame
    <2>3. /\ cache[m] = None => p = None
          /\ cache[m] # None => /\ p # None
                                /\ p.slot = cache[m].last_slot
                                /\ p.metrics = cache[m].metrics
      <3>1. CASE cache[m] = None
        BY <2>1, <3>1 DEF CaptureKnown
      <3>2. CASE cache[m] # None
        <4>1. p = [mint |-> m, slot |-> cache[m].last_slot,
                   captured_at_ms |-> cache[m].last_updated_ms,
                   sequence |-> sequence, metrics |-> cache[m].metrics]
          BY <2>1, <3>2 DEF CaptureKnown
        <4>2. p \in Snapshots
          BY <1>3, <3>2, <4>1 DEF TypeOK, CachedTokens, Snapshots, Optional
        <4>3. QED
          BY <3>2, <4>1, <4>2, AbsenceAssumption
      <3>3. QED
        BY <3>1, <3>2
    <2>4. /\ Earlier(pos + 1, m) = Yielded(m)
          /\ cache[m] = None <=> Yielded(m) = {}
          /\ cache[m] # None =>
                \A f \in MetricFields : cache[m].metrics[f] = Was(pos + 1, m, f)
      BY <1>3, KnownIsWhatWas
    <2>5. cache[m] # None => cache[m].last_slot = fixture[Max(Yielded(m))].slot
      BY <1>3 DEF DeltaInv, SlotsAreOfLast
    <2>6. PICK q : q = pos + 1
      OBVIOUS
    <2>7. Reported(Current)' = Reported(e)
      BY <1>3 DEF Reported
    <2>8. /\ p = None <=> Earlier(q, m) = {}
          /\ p # None =>
                /\ p.slot = fixture[Max(Earlier(q, m))].slot
                /\ \A f \in MetricFields : p.metrics[f] = Was(q, m, f)
      BY <2>3, <2>4, <2>5, <2>6
    <2>9. \A f \in MetricFields :
             /\ f \in DOMAIN Reported(e) => cache'[m].metrics[f] = Reported(e)[f]
             /\ f \notin DOMAIN Reported(e) /\ p # None =>
                   cache'[m].metrics[f] = p.metrics[f]
      BY <1>6, <1>7, <2>3 DEF KnownMetrics
    <2>10. /\ Earlier(q, m)' = Earlier(q, m)
           /\ \A f : Was(q, m, f)' = Was(q, m, f)
      BY <1>3, FixtureStays
    <2>11. pos' = q /\ Current'.mint = m
      BY <1>2, <1>3, <2>6
    <2>12. /\ Earlier(pos, Current.mint)' = Earlier(q, m)
           /\ \A f : Was(pos, Current.mint, f)' = Was(q, m, f)
      BY <1>3, <2>10, <2>11 DEF Earlier, Was, ToldBefore, Reported
    <2>13. QED
      BY <1>3, <2>2, <2>7, <2>8, <2>9, <2>11, <2>12 DEF PreviousIsBefore
  <1>10. QED
    BY <1>8, <1>9

\* The difference of the two snapshots is the observation's own.
LEMMA DeltaIsRight ==
    ASSUME TypeOK, DeltaInv, pc = "delta",
           NEW r, r.pos = pos, r.mint = Current.mint,
           r.detail = Diff(frame.previous, frame.snapshot)
    PROVE  DeltaRight(r)
  <1>1. /\ PreviousIsBefore
        /\ frame.snapshot.metrics = cache[Current.mint].metrics
    BY DEF DeltaInv, Processing
  <1>2. DOMAIN Reported(Current) \subseteq MetricFields
    <2>1. IsEntry(Current)
      BY CurrentEntry, ClockIsSet DEF Processing
    <2>2. IsReport(Reported(Current))
      BY <2>1, ReportedIsAReport
    <2>3. QED
      BY <2>2 DEF IsReport
  <1>3. Reported(fixture[r.pos]) = Reported(Current)
    BY DEF Current
  <1>4. CASE frame.previous = None
    <2>1. r.detail.changed = {} /\ r.detail.from_slot = None
      BY <1>4 DEF Diff
    <2>2. Earlier(r.pos, r.mint) = {}
      BY <1>1, <1>4 DEF PreviousIsBefore
    <2>3. QED
      BY <2>1, <2>2 DEF DeltaRight
  <1>5. CASE frame.previous # None
    <2>1. /\ r.detail.from_slot = frame.previous.slot
          /\ r.detail.changed = {f \in MetricFields :
                frame.previous.metrics[f] # frame.snapshot.metrics[f]}
      BY <1>5 DEF Diff
    <2>2. /\ Earlier(pos, Current.mint) # {}
          /\ frame.previous.slot = fixture[Max(Earlier(pos, Current.mint))].slot
          /\ \A f \in MetricFields :
                /\ frame.previous.metrics[f] = Was(pos, Current.mint, f)
                /\ f \in DOMAIN Reported(Current) =>
                      frame.snapshot.metrics[f] = Reported(Current)[f]
                /\ f \notin DOMAIN Reported(Current) =>
                      frame.snapshot.metrics[f] = frame.previous.metrics[f]
      BY <1>1, <1>5 DEF PreviousIsBefore
    <2>3. QED
      BY <1>2, <1>3, <2>1, <2>2 DEF DeltaRight
  <1>6. QED
    BY <1>4, <1>5

\* The stages of an event leave the two snapshots as they are.
LEMMA StagesKeepDelta ==
    ASSUME TypeOK, DeltaInv, NEW r, Writes(r),
           r.stage = "DELTA_ANALYSIS" =>
              r.detail = Diff(frame.previous, frame.snapshot)
    PROVE  DeltaInv'
  <1>1. /\ UNCHANGED <<fixture, pos, cache>> /\ pc \in Processing
        /\ <<pc, r.stage>> \in Recorded
        /\ r.pos = pos /\ r.mint = Current.mint
    BY DEF Writes, Recorded, Processing
  <1>2. ToSet(records') = ToSet(records) \cup {r} /\ IsStore(records')
    BY WritesAdds DEF DeltaInv
  <1>3. r.stage = "DELTA_ANALYSIS" => DeltaRight(r)
    BY <1>1, DeltaIsRight DEF Recorded
  <1>4. \A q \in ToSet(records') : q.stage = "DELTA_ANALYSIS" => DeltaRight(q)
    BY <1>2, <1>3 DEF DeltaInv
  <1>5. \A q : DeltaRight(q)' <=> DeltaRight(q)
    BY <1>1, FixtureStays
  <1>6. pc' \in Processing => frame'.previous = frame.previous
    BY DEF Writes, MovesOn, GoesOn, NextBot, EventAfter, EventsOver, EventFrame, Processing
  <1>7. Reported(Current)' = Reported(Current) /\ Current' = Current
    BY <1>1 DEF Reported, Current
  <1>8. pc' \in Processing => PreviousIsBefore'
    <2>1. SUFFICES ASSUME pc' \in Processing PROVE PreviousIsBefore'
      OBVIOUS
    <2>2. PreviousIsBefore /\ frame'.previous = frame.previous
      BY <1>1, <1>6, <2>1 DEF DeltaInv
    <2>3. QED
      BY <1>1, <1>7, <2>2, ZenonT(30) DEF PreviousIsBefore, Earlier, Was, ToldBefore, Reported
  <1>9. ASSUME pc' \in Processing \ {"trigger", "capture"}
        PROVE  frame'.snapshot.metrics = cache[Current.mint].metrics
    <2>1. pc' \notin {"trigger", "capture", "source"}
      BY <1>9 DEF Processing
    <2>2. frame'.snapshot = frame.snapshot
      BY <2>1 DEF Writes, MovesOn, NextBot, EventAfter, EventsOver, GoesOn
    <2>3. pc # "trigger"
      BY <2>1 DEF Writes, GoingOn, BotStages
    <2>4. pc # "capture"
      BY <1>1 DEF Recorded
    <2>5. QED
      BY <1>1, <2>2, <2>3, <2>4 DEF DeltaInv
  <1>10. SlotsAreOfLast'
    BY <1>1 DEF DeltaInv, SlotsAreOfLast, Yielded
  <1>11. QED
    BY <1>1, <1>2, <1>4, <1>5, <1>7, <1>8, <1>9, <1>10 DEF DeltaInv

LEMMA StepsKeepDelta ==
    ASSUME TypeOK, ContinuousStateIsObserved, DeltaInv, [Next]_vars
    PROVE  DeltaInv'
  <1>1. CASE Trigger \/ RecordCaptured \/ FilterCandidate \/ HeavyAnalysis \/ Scoring
             \/ PreTradeValidation \/ RecordAction
    <2>1. PICK r : Writes(r)
      BY <1>1, TriggerWrites, CaptureWrites, FilterWrites, AnalysisWrites,
         ScoringWrites, ValidationWrites, ActionWrites, Zenon
    <2>2. pc # "delta"
      BY <1>1 DEF Trigger, RecordCaptured, FilterCandidate, HeavyAnalysis, Scoring,
                  PreTradeValidation, RecordAction
    <2>3. r.stage # "DELTA_ANALYSIS"
      BY <2>1, <2>2 DEF Writes, Recorded
    <2>4. QED
      BY <2>1, <2>3, StagesKeepDelta
  <1>2. CASE AnalyzeDelta
    <2>1. PICK outcome : Writes(Record("DELTA_ANALYSIS", None, outcome, clock,
                                       Diff(frame.previous, frame.snapshot)))
      BY <1>2, DeltaWrites
    <2>2. PICK delta : delta = Diff(frame.previous, frame.snapshot)
      OBVIOUS
    <2>3. PICK r : r = Record("DELTA_ANALYSIS", None, outcome, clock, delta)
      OBVIOUS
    <2>4. Writes(r) /\ r.detail = delta
      BY <2>1, <2>2, <2>3 DEF Record
    <2>5. QED
      BY <2>2, <2>4, StagesKeepDelta
  <1>3. ASSUME fixture' = fixture, records' = records
        PROVE  IsStore(records') /\ (\A r \in ToSet(records) : r.stage = "DELTA_ANALYSIS" => DeltaRight(r))'
    <2>1. \A r : DeltaRight(r)' <=> DeltaRight(r)
      BY <1>3, FixtureStays
    <2>2. QED
      BY <1>3, <2>1 DEF DeltaInv, IsStore
  <1>4. CASE Observe
    <2>1. fixture' = fixture /\ records' = records
          /\ pc' \notin Processing \ {"trigger", "capture"}
      BY <1>4 DEF Observe, Yield, storeVars, Continue, Processing
    <2>2. QED
      BY <1>3, <1>4, <2>1, ObserveIsOnlyIts DEF DeltaInv, IsStore
  <1>5. CASE Boot
    <2>1. fixture' = fixture /\ records' = records /\ cache' = EmptyCache
          /\ pc' \notin Processing
      BY <1>5 DEF Boot, Reopen, storeVars, Processing
    <2>2. SlotsAreOfLast'
      BY <2>1 DEF SlotsAreOfLast, EmptyCache
    <2>3. QED
      BY <1>3, <2>1, <2>2 DEF DeltaInv, IsStore
  <1>6. CASE Finish \/ EmitAlert \/ Crash \/ UNCHANGED vars
    <2>1. UNCHANGED <<fixture, pos, cache, records, frame>>
      BY <1>6 DEF Finish, EmitAlert, Crash, vars, sessionVars, storeVars, processVars, Continue
    <2>2. pc' \in Processing => pc \in Processing
          /\ (pc' \notin {"trigger", "capture"} <=> pc \notin {"trigger", "capture"})
      BY <1>6 DEF Finish, EmitAlert, Crash, vars, Continue, Processing
    <2>3. SlotsAreOfLast'
      BY <2>1 DEF DeltaInv, SlotsAreOfLast, Yielded
    <2>4. pc' \in Processing => PreviousIsBefore'
      <3>1. PreviousIsBefore => PreviousIsBefore'
        BY <2>1 DEF PreviousIsBefore, Earlier, Was, ToldBefore, Reported, Current
      <3>2. QED
        BY <2>2, <3>1 DEF DeltaInv
    <2>5. (pc \in Processing \ {"trigger", "capture"} =>
              frame.snapshot.metrics = cache[Current.mint].metrics)'
      BY <2>1, <2>2 DEF DeltaInv, Current
    <2>6. QED
      BY <1>3, <2>1, <2>3, <2>4, <2>5 DEF DeltaInv, IsStore
  <1>7. CASE Capture
    <2> DEFINE s == CaptureAt(Current.mint, Current.slot, Current.observed_at_ms)
    <2>1. /\ UNCHANGED <<fixture, pos, cache, records>> /\ pc = "capture"
          /\ frame' = [frame EXCEPT !.snapshot = s]
      BY <1>7 DEF Capture, sessionVars, Continue
    <2>2. s.metrics = cache[Current.mint].metrics
      BY DEF CaptureAt
    <2> HIDE DEF s
    <2>3. frame'.snapshot = s /\ frame'.previous = frame.previous
      BY <2>1 DEF TypeOK, IsFrame
    <2>4. SlotsAreOfLast'
      BY <2>1 DEF DeltaInv, SlotsAreOfLast, Yielded
    <2>5. PreviousIsBefore'
      <3>1. PreviousIsBefore
        BY <2>1 DEF DeltaInv, Processing
      <3>2. QED
        BY <2>1, <2>3, <3>1, SMTT(30)
           DEF PreviousIsBefore, Earlier, Was, ToldBefore, Reported, Current
    <2>6. (frame.snapshot.metrics = cache[Current.mint].metrics)'
      BY <2>1, <2>2, <2>3 DEF Current
    <2>7. QED
      BY <1>3, <2>1, <2>4, <2>5, <2>6 DEF DeltaInv, IsStore
  <1>8. QED
    BY <1>1, <1>2, <1>4, <1>5, <1>6, <1>7, Zenon DEF Next, Step

\* For every deployment the delta on record for an event is the change its own
\* observation made to the token, and starts at the observation before it.
THEOREM DeltasAreOfTheirObservation == Spec => []DeltaIsOfThisObservation
  <1>1. Init => DeltaInv
    BY DEF Init, DeltaInv, SlotsAreOfLast, EmptyCache, IsStore, ToSet, Processing
  <1>2. QED
    BY <1>1, StepsKeepDelta, DeltaInvSuffices, PipelineTyping, ContinuousStateIsOnlyObserved,
       PTL DEF Spec
------------------------------------------------------------------------------
\* A record is written on the way to a later stage, or to the next strategy,
\* event or observation.
LEMMA WritesGoesForward ==
    ASSUME TypeOK, NEW r, Writes(r)
    PROVE  /\ pos' = pos /\ pc \in Processing
           /\ \/ pc' = "source"
              \/ pc' \in Processing /\ GoesForward
  <1>1. pc \in Processing /\ pos' = pos
    BY DEF Writes, Recorded, Processing
  <1>2. frame.event \in Nat /\ frame.bot \in Int
    BY <1>1, ClockIsSet DEF IsFrame
  <1>3. CASE MovesOn
    <2>1. CASE NextBot
      BY <2>1, <1>1, <1>2 DEF NextBot, GoesForward, Processing
    <2>2. CASE EventAfter
      BY <2>2, <1>1, <1>2 DEF EventAfter, EventFrame, GoesForward, Processing
    <2>3. CASE EventsOver
      BY <2>3, <1>1 DEF EventsOver
    <2>4. QED
      BY <1>3, <2>1, <2>2, <2>3 DEF MovesOn
  <1>4. CASE <<pc, pc'>> \in GoingOn /\ GoesOn
    <2>1. pc' \in Processing /\ StageNumber[pc'] > StageNumber[pc]
      BY <1>4 DEF GoingOn, StageNumber, Processing
    <2>2. QED
      BY <1>1, <1>4, <2>1 DEF GoesOn, GoesForward
  <1>5. QED
    BY <1>1, <1>3, <1>4 DEF Writes

\* The steps of a run never lead back to where it was, and by the types there
\* are only so many places: what is left of Terminates is that the process is
\* given its turns.
THEOREM RunsGoForward == Spec => NothingIsRevisited
  <1> DEFINE Forward ==
        run' = run /\ pc' # "down" =>
           \/ pos' = pos + 1
           \/ /\ pos' = pos
              /\ \/ pc = "source" /\ pc' = "done"
                 \/ pc \in Processing /\ pc' = "source"
                 \/ pc \in Processing /\ pc' \in Processing /\ GoesForward
  <1>1. TypeOK /\ [Next]_vars => [Forward]_vars
    <2> SUFFICES ASSUME TypeOK, [Next]_vars
                 PROVE  Forward \/ UNCHANGED vars
      BY DEF vars
    <2>1. ASSUME NEW r, Writes(r)
          PROVE  Forward
      BY <2>1, WritesGoesForward
    <2>2. CASE Observe
      BY <2>2 DEF Observe, Yield
    <2>3. CASE Finish
      BY <2>3 DEF Finish, sessionVars
    <2>4. CASE Capture
      <3>1. frame'.event = frame.event /\ frame'.bot = frame.bot
            /\ pc = "capture" /\ pc' = "captured" /\ pos' = pos
        BY <2>4, UntypedLocals, ClockIsSet DEF Capture, Continue, sessionVars, IsFrame, Processing
      <3>2. QED
        BY <3>1 DEF GoesForward, StageNumber, Processing
    <2>5. CASE EmitAlert
      <3>1. frame' = frame /\ pc = "alert" /\ pc' = "action" /\ pos' = pos
        BY <2>5 DEF EmitAlert, Continue, sessionVars
      <3>2. QED
        BY <3>1 DEF GoesForward, StageNumber, Processing
    <2>6. CASE Crash \/ Boot
      <3>1. pc' = "down" \/ run' # run
        BY <2>6 DEF Crash, Boot, TypeOK
      <3>2. QED
        BY <3>1
    <2>7. QED
      BY <2>1, <2>2, <2>3, <2>4, <2>5, <2>6, StepWrites
  <1> HIDE DEF Forward
  <1>2. Spec => [][Forward]_vars
    BY PipelineTyping, <1>1, PTL DEF Spec
  <1>3. QED
    BY <1>2 DEF Forward, NothingIsRevisited
=============================================================================
