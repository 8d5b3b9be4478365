------------------------------- MODULE Pipeline ------------------------------
(****************************************************************************)
(* PipelineRunner over a replay session, as build_pipeline wires it:        *)
(*                                                                          *)
(*    continuous data -> event trigger -> delta analysis -> filtering ->    *)
(*    heavy analysis -> scoring -> pre-trade validation -> action           *)
(*                                                                          *)
(* One observation is processed at a time.  Every action ends at an effect  *)
(* another party can see: a snapshot or a record in a store, an alert.      *)
(* Between any two of them the process may stop (Crash), and the command    *)
(* may be run again on the same fixture and data directory (Boot): stores   *)
(* persist, everything else starts over.                                    *)
(****************************************************************************)
EXTENDS ContinuousState, ReplaySession, Validation, Strategies

CONSTANTS
    Bots,            \* the enabled strategies, in order
    EnabledModules,  \* the enabled heavy-analysis modules, in order
    Gate,            \* the validator's configuration
    MaxRuns,         \* bound: how often the command is run
    MaxCrashes       \* bound: how many of the first runs may be cut short

ASSUME BotsAssumption == Len(Bots) \in Nat /\ DOMAIN Bots = 1 .. Len(Bots)
ASSUME BotNamesAssumption ==
    \A i, j \in DOMAIN Bots : Bots[i].name = Bots[j].name => i = j
ASSUME GateAssumption == Gate \in Gates
ASSUME MaxRunsAssumption == MaxRuns \in Nat \ {0}

VARIABLES
    run,         \* which run of the command this is
    pc,          \* where in the pipeline it is
    frame,       \* the locals of process, _process_event and _run_strategy
    snapshots,   \* the snapshot store, oldest first
    records,     \* the provenance store, oldest first
    alerts       \* the alerts the action sink was given, oldest first

processVars == <<cache, sequence, frame>>
storeVars == <<snapshots, records, alerts>>
vars == <<fixture, pos, clock, published, cache, sequence,
          run, pc, frame, snapshots, records, alerts>>

\* The observation being processed.
Current == fixture[pos]
Reported(entry) == ToPatchFields(entry.metrics)

\* _process_event starts: a counter of its own, and the pre-update snapshot.
EventFrame(event, previous) ==
    [event |-> event, bot |-> 0, count |-> 0, previous |-> previous,
     snapshot |-> None, features |-> <<>>, score |-> None, checked |-> None]

NoFrame == EventFrame(0, None)

\* The strategy whose turn it is, and what it reads of the candidate it is
\* shown: no filter, module or scorer reads the event, the snapshot before or
\* the trace of the filters.
Strategy == Bots[frame.bot]

Candidate == [mint     |-> Current.mint,
              snapshot |-> frame.snapshot,
              delta    |-> Diff(frame.previous, frame.snapshot)]

\* _record: one provenance record, numbered by the event's counter and stamped
\* with the clock.  run is the run that wrote it.
Record(stage, strategy, outcome, now, detail) ==
    [run |-> run, pos |-> pos, event |-> frame.event, count |-> frame.count + 1,
     stage |-> stage, strategy |-> strategy, mint |-> Current.mint,
     slot |-> Current.slot, outcome |-> outcome, occurred_at_ms |-> now,
     detail |-> detail]

Counted == [frame EXCEPT !.count = @ + 1]

Continue(stage, fr) == pc' = stage /\ frame' = fr

\* Mutant: the event loop runs once too often.
NextEventOnceMore(fr) ==
    IF fr.event =< Current.events
        THEN Continue("trigger", EventFrame(fr.event + 1, fr.previous))
        ELSE Continue("source", NoFrame)

\* Mutant: the event loop does not move on.
NextEventAgain(fr) ==
    IF fr.event < Current.events
        THEN Continue("trigger", EventFrame(fr.event, fr.previous))
        ELSE Continue("source", NoFrame)

NextEvent(fr) ==
    IF fr.event < Current.events
        THEN Continue("trigger", EventFrame(fr.event + 1, fr.previous))
        ELSE Continue("source", NoFrame)

\* Mutant: what ends one strategy ends the event for all of them.
MoveOnReturning(fr) ==
    IF fr.bot = 0 /\ Len(Bots) > 0 THEN Continue("filter", [fr EXCEPT !.bot = 1])
    ELSE NextEvent(fr)

\* Mutant: every strategy has a record counter of its own.
MoveOnRenumbering(fr) ==
    IF fr.bot < Len(Bots)
        THEN Continue("filter", [fr EXCEPT !.bot = @ + 1, !.count = 3, !.features = <<>>,
                                           !.score = None, !.checked = None])
        ELSE NextEvent(fr)

\* The strategy loop moves on and, when it is through, the event loop.
MoveOn(fr) ==
    IF fr.bot < Len(Bots)
        THEN Continue("filter", [fr EXCEPT !.bot = @ + 1, !.features = <<>>,
                                           !.score = None, !.checked = None])
        ELSE NextEvent(fr)

Init ==
    /\ SessionInit
    /\ cache = EmptyCache
    /\ sequence = 0
    /\ run = 1
    /\ pc = "source"
    /\ frame = NoFrame
    /\ snapshots = <<>>
    /\ records = <<>>
    /\ alerts = <<>>
------------------------------------------------------------------------------
\* Mutant: the delta is taken from the state this observation already changed.
ObserveAfterApply ==
    /\ pc = "source"
    /\ Yield
    /\ LET entry == fixture[pos + 1] IN
          /\ Apply(entry.mint, entry.slot, entry.observed_at_ms, Reported(entry))
          /\ sequence' = sequence + 1
          /\ IF entry.events = 0 THEN Continue("source", NoFrame)
             ELSE Continue("trigger",
                           EventFrame(1, [mint |-> entry.mint, slot |-> entry.slot,
                                          captured_at_ms |-> entry.observed_at_ms,
                                          sequence |-> sequence,
                                          metrics |-> cache'[entry.mint].metrics]))
    /\ UNCHANGED <<run, storeVars>>

\* The source yields and process begins: the state before the update is
\* captured, the update is applied, and its declared events are detected.
\* Without an event nothing else happens.
Observe ==
    /\ pc = "source"
    /\ Yield
    /\ LET entry    == fixture[pos + 1]
           previous == CaptureKnown(entry.mint)
       IN /\ ConsumeSequence(previous)
          /\ Apply(entry.mint, entry.slot, entry.observed_at_ms, Reported(entry))
          /\ IF entry.events = 0 THEN Continue("source", NoFrame)
             ELSE Continue("trigger", EventFrame(1, previous))
    /\ UNCHANGED <<run, storeVars>>

\* The source is exhausted: run_source returns.
Finish ==
    /\ pc = "source"
    /\ pos = Len(fixture)
    /\ pc' = "done"
    /\ UNCHANGED <<sessionVars, processVars, run, storeVars>>

\* _process_event: the EVENT_TRIGGER record.
Trigger ==
    /\ pc = "trigger"
    /\ records' = Append(records, Record("EVENT_TRIGGER", None, "declared", clock, None))
    /\ Continue("capture", Counted)
    /\ UNCHANGED <<sessionVars, cache, sequence, run, snapshots, alerts>>

\* Mutant: the decision snapshot is taken but not stored.
CaptureUnstored ==
    /\ pc = "capture"
    /\ LET snapshot == CaptureAt(Current.mint, Current.slot, Current.observed_at_ms) IN
          /\ ConsumeSequence(snapshot)
          /\ Continue("captured", [frame EXCEPT !.snapshot = snapshot])
    /\ UNCHANGED <<sessionVars, cache, run, storeVars>>

\* The decision snapshot is captured and appended to the snapshot store.  The
\* update was applied, so there always is a state to capture.  run, pos and
\* event say which event it was taken for; only properties read them.
Capture ==
    /\ pc = "capture"
    /\ LET snapshot == CaptureAt(Current.mint, Current.slot, Current.observed_at_ms) IN
          /\ ConsumeSequence(snapshot)
          /\ snapshots' = Append(snapshots, [run |-> run, pos |-> pos, event |-> frame.event,
                                              snapshot |-> snapshot])
          /\ Continue("captured", [frame EXCEPT !.snapshot = snapshot])
    /\ UNCHANGED <<sessionVars, cache, run, records, alerts>>

\* The CONTINUOUS_DATA record of the captured snapshot.
RecordCaptured ==
    /\ pc = "captured"
    /\ records' = Append(records,
          Record("CONTINUOUS_DATA", None, "captured", clock,
                 [observed_at_ms  |-> frame.snapshot.captured_at_ms,
                  sequence        |-> frame.snapshot.sequence,
                  reported_fields |-> DOMAIN Reported(Current)]))
    /\ Continue("delta", Counted)
    /\ UNCHANGED <<sessionVars, cache, sequence, run, snapshots, alerts>>

\* DELTA_ANALYSIS: this observation's changes; then the strategies start.
AnalyzeDelta ==
    /\ pc = "delta"
    /\ LET delta == Diff(frame.previous, frame.snapshot) IN
          records' = Append(records,
             Record("DELTA_ANALYSIS", None,
                    IF delta.changed = {} THEN "empty" ELSE "changed", clock, delta))
    /\ MoveOn(Counted)
    /\ UNCHANGED <<sessionVars, cache, sequence, run, snapshots, alerts>>

\* CANDIDATE_FILTERING: a rejection ends the strategy for this event.
FilterCandidate ==
    /\ pc = "filter"
    /\ LET result == FilterRun(Strategy.filters, Candidate) IN
          /\ records' = Append(records,
                Record("CANDIDATE_FILTERING", Strategy.name,
                       IF result.accepted THEN "accepted" ELSE "rejected", clock, result.trace))
          /\ IF result.accepted THEN Continue("analysis", Counted) ELSE MoveOn(Counted)
    /\ UNCHANGED <<sessionVars, cache, sequence, run, snapshots, alerts>>

\* Mutant: the error of a declared-only module is not handled, and the
\* strategy never gets past analysis.
HeavyAnalysisUnhandled ==
    /\ pc = "analysis"
    /\ ~AnalysisRaises(EnabledModules)
    /\ records' = Append(records,
          Record("HEAVY_ANALYSIS", Strategy.name, "analyzed", clock, <<>>))
    /\ Continue("scoring", [Counted EXCEPT !.features = Analyze(EnabledModules, Candidate)])
    /\ UNCHANGED <<sessionVars, cache, sequence, run, snapshots, alerts>>

\* HEAVY_ANALYSIS: a module that is only declared ends the strategy.
HeavyAnalysis ==
    /\ pc = "analysis"
    /\ IF AnalysisRaises(EnabledModules)
          THEN /\ records' = Append(records,
                     Record("HEAVY_ANALYSIS", Strategy.name, "module_not_implemented",
                            clock, None))
               /\ MoveOn(Counted)
          ELSE LET features == Analyze(EnabledModules, Candidate) IN
               /\ records' = Append(records,
                     Record("HEAVY_ANALYSIS", Strategy.name, "analyzed", clock,
                            [i \in DOMAIN features |-> features[i].name]))
               /\ Continue("scoring", [Counted EXCEPT !.features = features])
    /\ UNCHANGED <<sessionVars, cache, sequence, run, snapshots, alerts>>

\* SCORING: only a decision to advance reaches validation.
Scoring ==
    /\ pc = "scoring"
    /\ LET decision == Evaluate(Strategy, Candidate, frame.features) IN
          /\ records' = Append(records,
                Record("SCORING", Strategy.name, decision.outcome, clock, decision.score))
          /\ IF decision.outcome = "advance"
                THEN Continue("validate", [Counted EXCEPT !.score = decision.score])
                ELSE MoveOn(Counted)
    /\ UNCHANGED <<sessionVars, cache, sequence, run, snapshots, alerts>>

\* The validator's call of the refresher: none when it is not configured.
Reread == IF Configured(Gate) THEN published[Current.mint] ELSE None
TimeOfCheck ==
    IF Configured(Gate) THEN TimeAfterRefresh(clock, published, Current.mint) ELSE clock

ValidateCurrent ==
    Validate(Gate, frame.snapshot, Reread, KnownMetrics(Current.mint), Current.slot,
             TimeOfCheck, sequence)

\* Mutant: the re-read is written back to continuous state.
WriteBack ==
    IF Reread = None THEN UNCHANGED cache
    ELSE Apply(Current.mint, Reread.slot, Reread.observed_at_ms, Reread.fields)

\* _snapshot_of: the re-read is merged for the check, never into the cache.
ReadOnly == UNCHANGED cache

\* Mutant: the state declared for an observation answers one re-read only.
TakeDeclared == published' = [published EXCEPT ![Current.mint] = None]

\* refresh: the declared state answers every re-read until the next publish.
KeepDeclared == UNCHANGED published

\* PRE_TRADE_VALIDATION: the validator re-reads the token, which the clock is
\* told of, and judges it.
PreTradeValidation ==
    /\ pc = "validate"
    /\ LET verdict == ValidateCurrent IN
          /\ records' = Append(records,
                Record("PRE_TRADE_VALIDATION", Strategy.name, verdict.outcome,
                       TimeOfCheck, verdict))
          /\ ConsumeSequence(Reread)
          /\ IF verdict.outcome = "pass"
                THEN Continue("alert", [Counted EXCEPT !.checked = verdict])
                ELSE MoveOn(Counted)
    /\ clock' = TimeOfCheck
    /\ ReadOnly
    /\ KeepDeclared
    /\ UNCHANGED <<fixture, pos, run, snapshots, alerts>>

Alert == [run |-> run, pos |-> pos, event |-> frame.event, strategy |-> Strategy.name,
          raised_at_ms |-> clock, score |-> frame.score, snapshot |-> frame.snapshot,
          validation |-> frame.checked]

\* Mutant: the sink fails and the failure is swallowed.
EmitSwallowed ==
    /\ pc = "alert"
    /\ Continue("action", frame)
    /\ UNCHANGED <<sessionVars, cache, sequence, run, storeVars>>

\* The alert is handed to the action sink...
EmitAlert ==
    /\ pc = "alert"
    /\ alerts' = Append(alerts, Alert)
    /\ Continue("action", frame)
    /\ UNCHANGED <<sessionVars, cache, sequence, run, snapshots, records>>

\* ... and then recorded.
RecordAction ==
    /\ pc = "action"
    /\ records' = Append(records, Record("ACTION", Strategy.name, "alert_raised", clock, None))
    /\ MoveOn(Counted)
    /\ UNCHANGED <<sessionVars, cache, sequence, run, snapshots, alerts>>

\* The process stops between two effects: it is killed, or a port raises.
Crash ==
    /\ run <= MaxCrashes
    /\ pc \notin {"done", "down"}
    /\ pc' = "down"
    /\ UNCHANGED <<sessionVars, processVars, run, storeVars>>

\* Mutant: snapshot numbers go on where an earlier run left them.
BootKeepingSequence ==
    /\ pc \in {"done", "down"}
    /\ run < MaxRuns
    /\ Reopen
    /\ cache' = EmptyCache
    /\ frame' = NoFrame
    /\ run' = run + 1
    /\ pc' = "source"
    /\ UNCHANGED <<sequence, storeVars>>

\* The command is run again: open_replay and build_pipeline start from
\* nothing, on the same fixture and data directory.
Boot ==
    /\ pc \in {"done", "down"}
    /\ run < MaxRuns
    /\ Reopen
    /\ cache' = EmptyCache
    /\ sequence' = 0
    /\ frame' = NoFrame
    /\ run' = run + 1
    /\ pc' = "source"
    /\ UNCHANGED storeVars

Step ==
    \/ Observe \/ Finish
    \/ Trigger \/ Capture \/ RecordCaptured \/ AnalyzeDelta
    \/ FilterCandidate \/ HeavyAnalysis \/ Scoring
    \/ PreTradeValidation \/ EmitAlert \/ RecordAction

Next == Step \/ Crash \/ Boot

Spec == Init /\ [][Next]_vars

\* asyncio.run drives the pipeline to its end: a step that can be taken is.
FairSpec == Spec /\ WF_vars(Step)
=============================================================================
