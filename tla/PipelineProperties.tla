-------------------------- MODULE PipelineProperties -------------------------
(****************************************************************************)
(* What the pipeline promises, stated over what it leaves behind: the       *)
(* continuous state, the two stores and the alerts.                         *)
(****************************************************************************)
EXTENDS Pipeline

StageNames == {"EVENT_TRIGGER", "CONTINUOUS_DATA", "DELTA_ANALYSIS",
               "CANDIDATE_FILTERING", "HEAVY_ANALYSIS", "SCORING",
               "PRE_TRADE_VALIDATION", "ACTION"}

Pcs == {"source", "trigger", "capture", "captured", "delta", "filter", "analysis",
        "scoring", "validate", "alert", "action", "done", "down"}

Processing == {"trigger", "capture", "captured", "delta", "filter", "analysis",
               "scoring", "validate", "alert", "action"}

\* The locals of process, _process_event and _run_strategy.
IsFrame(fr) ==
    /\ fr = [event |-> fr.event, bot |-> fr.bot, count |-> fr.count,
             previous |-> fr.previous, snapshot |-> fr.snapshot,
             features |-> fr.features, score |-> fr.score, checked |-> fr.checked]
    /\ fr.event \in Nat
    /\ fr.bot \in 0 .. Len(Bots)
    /\ fr.count \in Nat
    /\ fr.previous \in Optional(Snapshots)
    /\ fr.snapshot \in Optional(Snapshots)

\* The variables have the types the code declares, and the locals are there
\* when the stage that reads them runs: in particular the "no_state" branch of
\* _process_event is never needed.
TypeOK ==
    /\ SessionTypeOK
    /\ cache \in [Mints -> Optional(CachedTokens)]
    /\ sequence \in Nat
    /\ run \in 1 .. MaxRuns
    /\ pc \in Pcs
    /\ IsFrame(frame)
    /\ pc \in Processing => /\ pos > 0
                            /\ clock # None
                            /\ frame.event \in 1 .. Current.events
                            /\ cache[Current.mint] # None
    /\ pc \in Processing \ {"trigger", "capture"} => frame.snapshot # None
    /\ pc \in {"filter", "analysis", "scoring", "validate", "alert", "action"} =>
          frame.bot > 0

\* The entries of the fixture that reported a field of a mint, so far.
ReportsOf(m, f) == {i \in Yielded(m) : f \in DOMAIN Reported(fixture[i])}

\* Continuous state is what the source observed and nothing else: each field
\* holds what the last entry that reported it said, unreported fields are
\* untouched, and no re-read made for validation ever enters it (merge.py,
\* memory_cache.apply, _snapshot_of).
ContinuousStateIsObserved ==
    \A m \in Mints :
        /\ cache[m] = None <=> Yielded(m) = {}
        /\ cache[m] # None => \A f \in MetricFields :
              /\ ReportsOf(m, f) = {} => cache[m].metrics[f] = NoMetrics[f]
              /\ \A i \in ReportsOf(m, f) :
                    (\A j \in ReportsOf(m, f) : j =< i) =>
                        cache[m].metrics[f] = Reported(fixture[i])[f]

\* The delta recorded for an event is the change its own observation caused,
\* not the change since the last event: a field it names was reported by that
\* very observation, and it starts at the slot of the observation of the
\* token just before it (process: previous is captured before apply).
DeltaIsOfThisObservation ==
    \A r \in ToSet(records) : r.stage = "DELTA_ANALYSIS" =>
        LET earlier == {i \in 1 .. r.pos - 1 : fixture[i].mint = r.mint} IN
        /\ r.detail.changed \subseteq DOMAIN Reported(fixture[r.pos])
        /\ r.detail.from_slot =
              IF earlier = {} THEN None ELSE fixture[Max(earlier)].slot
        /\ earlier # {} => \A f \in DOMAIN Reported(fixture[r.pos]) :
              LET told == {i \in earlier : f \in DOMAIN Reported(fixture[i])}
                  was  == IF told = {} THEN NoMetrics[f]
                          ELSE Reported(fixture[Max(told)])[f]
              IN  f \in r.detail.changed <=> was # Reported(fixture[r.pos])[f]

\* The state an alert was checked against.
Checked(a) == a.validation.checked_snapshot

\* An alert was checked against the state its own observation declared, never
\* against one declared for another observation of the token (refresher.py).
AlertReadIsItsOwn ==
    \A a \in ToSet(alerts) :
        LET declared == fixture[a.pos].validation_state IN
        /\ declared # None
        /\ Checked(a).slot = declared.slot
        /\ Checked(a).captured_at_ms = declared.observed_at_ms
        /\ \A f \in DOMAIN ToPatchFields(declared.metrics) :
              Checked(a).metrics[f] = declared.metrics[f]

\* No alert rests on stale information: at the latest time the source had
\* reported by then, the read was within the age limit, and it was within the
\* slot limit of the event's slot (SourceTimeClock, StalenessPolicy).
AlertIsFresh ==
    \A a \in ToSet(alerts) :
        /\ \A i \in 1 .. a.pos :
              fixture[i].observed_at_ms - Checked(a).captured_at_ms
                  =< Gate.staleness.max_snapshot_age_ms
        /\ fixture[a.pos].slot - Checked(a).slot =< Gate.staleness.max_slot_lag
        /\ a.raised_at_ms - Checked(a).captured_at_ms
              =< Gate.staleness.max_snapshot_age_ms

\* No alert is raised on a token that is materially worse than it was at the
\* decision: what is left of price and liquidity is at least the share the
\* policy requires, the absolute limits hold, nobody left and the supply is
\* the same, with every required field known on both sides (_compare).
AlertIsNotDeteriorated ==
    \A a \in ToSet(alerts) :
        LET was == a.snapshot.metrics
            is  == Checked(a).metrics
            p   == Gate.deterioration
        IN  /\ \A f \in RequiredFields : was[f] # None /\ is[f] # None
            /\ is.price * 100 >= (100 - p.max_price_drop_fraction) * was.price
            /\ is.liquidity * 100 >= (100 - p.max_liquidity_drop_fraction) * was.liquidity
            /\ is.slippage_bps =< p.max_slippage_bps
            /\ p.cancel_on_dev_sold => is.dev_sold = FALSE
            /\ is.buy_volume > 0
            /\ is.sell_volume * 100 =< p.max_sell_pressure_ratio * is.buy_volume
            /\ p.cancel_on_smart_wallet_exit =>
                  was.smart_wallet_addresses \subseteq is.smart_wallet_addresses
            /\ p.cancel_on_lp_supply_change => was.lp_state = is.lp_state

\* Both bots that validate the same event get the same answer: checking for
\* one leaves nothing behind that changes what the other finds.
TwinBotsAgree ==
    \A r, s \in ToSet(records) :
        /\ r.stage = "PRE_TRADE_VALIDATION" /\ s.stage = "PRE_TRADE_VALIDATION"
        /\ <<r.run, r.pos, r.event>> = <<s.run, s.pos, s.event>>
        => /\ r.outcome = s.outcome
           /\ r.detail.cause = s.detail.cause
           /\ r.detail.age_ms = s.detail.age_ms
           /\ r.detail.slot_lag = s.detail.slot_lag
------------------------------------------------------------------------------
\* The event a record is about, and what is on record about an event of a run.
EventOf(x) == <<x.run, x.pos, x.event>>
Told(r, p, e) == {x \in ToSet(records) : EventOf(x) = <<r, p, e>>}

\* The stages that follow each other unless an outcome ends the strategy.
Succession ==
    {<<"EVENT_TRIGGER", "CONTINUOUS_DATA">>, <<"CONTINUOUS_DATA", "DELTA_ANALYSIS">>,
     <<"CANDIDATE_FILTERING", "HEAVY_ANALYSIS">>, <<"HEAVY_ANALYSIS", "SCORING">>,
     <<"SCORING", "PRE_TRADE_VALIDATION">>, <<"PRE_TRADE_VALIDATION", "ACTION">>}

EndsStrategy(r) ==
    \/ r.stage = "ACTION"
    \/ r.outcome \in {"rejected", "module_not_implemented", "reject",
                      "not_configured", "cancelled"}

\* What a record is, given the one before it about the same event.
Follows(q, r) ==
    IF q.stage = "DELTA_ANALYSIS"
        THEN r.stage = "CANDIDATE_FILTERING" /\ r.strategy = Bots[1].name
    ELSE IF EndsStrategy(q)
        THEN /\ r.stage = "CANDIDATE_FILTERING"
             /\ \E b \in 1 .. Len(Bots) - 1 :
                   q.strategy = Bots[b].name /\ r.strategy = Bots[b + 1].name
    ELSE <<q.stage, r.stage>> \in Succession /\ r.strategy = q.strategy

\* The trail of an event is the canonical pipeline, whatever other events and
\* bots do: numbered without gap or repetition, so that no record id is used
\* twice, each stage following from the outcome before it, and the bots taking
\* their turns in order (§2, _RecordCounter).
TrailIsCanonical ==
    \A id \in {EventOf(x) : x \in ToSet(records)} :
        LET trail == {i \in DOMAIN records : EventOf(records[i]) = id} IN
        \A j \in trail :
            LET before == {i \in trail : i < j} IN
            IF before = {}
                THEN records[j].stage = "EVENT_TRIGGER" /\ records[j].count = 1
                ELSE /\ records[j].count = records[Max(before)].count + 1
                     /\ Follows(records[Max(before)], records[j])

\* A score only ever sums features that heavy analysis recorded for the same
\* candidate and bot: a weighted feature nobody produced is never taken for
\* zero (WeightedScorer: weights are never guessed or zero-filled).
ScoreIsOfRecordedFeatures ==
    \A r \in ToSet(records) : r.stage = "SCORING" /\ r.detail # None =>
        \E q \in Told(r.run, r.pos, r.event), b \in DOMAIN Bots :
            /\ q.stage = "HEAVY_ANALYSIS" /\ q.strategy = r.strategy
            /\ q.count < r.count
            /\ Bots[b].name = r.strategy
            /\ DOMAIN Bots[b].weights \subseteq ToSet(q.detail)

\* Once the source is exhausted every bot has come to exactly one recorded
\* conclusion about every event that was declared: nothing another bot or
\* event ended in kept it from being looked at (§4, run_source).
EveryBotConcluded ==
    pc = "done" =>
        \A i \in 1 .. Len(fixture) : \A e \in 1 .. fixture[i].events : \A b \in DOMAIN Bots :
            Cardinality({k \in DOMAIN records :
                /\ records[k].run = run /\ records[k].pos = i /\ records[k].event = e
                /\ records[k].strategy = Bots[b].name
                /\ EndsStrategy(records[k])}) = 1

\* An alert can be reconstructed from the stores: the snapshot it was decided
\* on, the advancing score and the validation that let it pass were persisted
\* by the same run before it went out, even if the process then stops.
AlertIsExplained ==
    \A a \in ToSet(alerts) :
        LET trail == Told(a.run, a.pos, a.event) IN
        /\ [run |-> a.run, pos |-> a.pos, event |-> a.event, snapshot |-> a.snapshot]
              \in ToSet(snapshots)
        /\ \E r \in trail : /\ r.stage = "SCORING" /\ r.strategy = a.strategy
                            /\ r.outcome = "advance" /\ r.detail = a.score
        /\ \E r \in trail : /\ r.stage = "PRE_TRADE_VALIDATION" /\ r.strategy = a.strategy
                            /\ r.outcome = "pass" /\ r.detail = a.validation

\* A bot's look at an event, of which a record or an alert tells.
CandidacyOf(x) == [run |-> x.run, pos |-> x.pos, event |-> x.event, strategy |-> x.strategy]

\* The k-th record tells of the n-th alert.
Tells(k, n) == CandidacyOf(records[k]) = CandidacyOf(alerts[n])

\* The ACTION records say what went out, in that order: no record without its
\* alert, and an alert lacks its record only between the sink and the store,
\* or as the last thing of a run that was cut short there.
ActionsAreRecorded ==
    LET actions == {k \in DOMAIN records : records[k].stage = "ACTION"} IN
    /\ \A k \in actions : \E n \in DOMAIN alerts : Tells(k, n)
    /\ \A n \in DOMAIN alerts :
          \/ \E k \in actions : Tells(k, n)
          \/ /\ \A m \in n + 1 .. Len(alerts) : alerts[m].run # alerts[n].run
             /\ alerts[n].run = run => pc \in {"action", "down"}
    /\ \A k, l \in actions, m, n \in DOMAIN alerts :
          Tells(k, m) /\ Tells(l, n) => (k < l <=> m < n)

\* Run by run, whatever entry two runs both got to is the same in a store, but
\* for the annotation of which run it was.
Repeats(store) ==
    LET Of(r) == {k \in DOMAIN store : store[k].run = r} IN
    \A r, s \in {x.run : x \in ToSet(store)} :
        LET own   == Of(r)
            first == Min(own)
            other == Of(s)
            shift == Min(other) - first
        IN  \A k \in own :
               /\ k = first \/ k - 1 \in own
               /\ k + shift \in other =>
                     [store[k] EXCEPT !.run = 0] = [store[k + shift] EXCEPT !.run = 0]

\* A replay is repeatable: whatever two runs of the same fixture both got to,
\* they stored and raised identically, ids, numbers and times included, no
\* matter where the earlier one stopped (runner.py: identifiers are derived
\* deterministically, so a replay produces byte-identical provenance).
ReplayRepeats == Repeats(snapshots) /\ Repeats(records) /\ Repeats(alerts)

\* The records of checks that captured what they had read, and its number.
Checks == {k \in DOMAIN records : /\ records[k].stage = "PRE_TRADE_VALIDATION"
                                  /\ records[k].detail.checked_snapshot # None}
NumberOf(k) == records[k].detail.checked_snapshot.sequence

\* What was left for one event, and for the same one or a later one.
UpTo(x, y) == x.pos < y.pos \/ (x.pos = y.pos /\ x.event =< y.event)

\* Numbers order what a run captured where slot and time cannot, because all
\* events of an observation share them: decision snapshots go up as they were
\* stored, re-reads as they were recorded, and a re-read has a higher number
\* than the decision snapshots of its own event and of every earlier one, and
\* a lower number than those of the events still to come (SnapshotBuilder,
\* _process_event).
SnapshotNumbersOrder ==
    /\ \A i, j \in DOMAIN snapshots : i < j /\ snapshots[i].run = snapshots[j].run =>
          snapshots[i].snapshot.sequence < snapshots[j].snapshot.sequence
    /\ \A k, l \in Checks : k < l /\ records[k].run = records[l].run => NumberOf(k) < NumberOf(l)
    /\ \A i \in DOMAIN snapshots, k \in Checks : snapshots[i].run = records[k].run =>
          IF UpTo(snapshots[i], records[k])
              THEN snapshots[i].snapshot.sequence < NumberOf(k)
              ELSE NumberOf(k) < snapshots[i].snapshot.sequence

\* The provenance of a run is in order of time, and no record is older than
\* the observation it is about, although observations and re-reads may carry
\* times in any order (SourceTimeClock, _record).
RecordTimesAreOrdered ==
    \A i \in DOMAIN records :
        /\ fixture[records[i].pos].observed_at_ms =< records[i].occurred_at_ms
        /\ \A j \in i + 1 .. Len(records) :
              records[i].run = records[j].run =>
                  records[i].occurred_at_ms =< records[j].occurred_at_ms

\* The pipeline drives its session as a reader may: it yields, re-reads and
\* reopens, and does nothing else to source, refresher and clock.
DrivesSession == SessionInit /\ [][SessionNext]_sessionVars

\* How far into its strategy, or its event, a stage is.
StageNumber == [trigger |-> 1, capture |-> 2, captured |-> 3, delta |-> 4, filter |-> 5,
                analysis |-> 6, scoring |-> 7, validate |-> 8, alert |-> 9, action |-> 10]

\* From a stage to a later one: of the strategy, else of a later strategy of
\* the event, else of a later event of the observation.
GoesForward ==
    \/ frame'.event > frame.event
    \/ frame'.event = frame.event /\ frame'.bot > frame.bot
    \/ /\ frame'.event = frame.event /\ frame'.bot = frame.bot
       /\ StageNumber[pc'] > StageNumber[pc]

\* A run only ever goes forward, through boundedly many places: no stage,
\* strategy, event or observation is gone back to, whatever its outcome, so
\* nothing is retried and no outcome keeps the run from its end (run_source,
\* _process_event, _run_strategy).
NothingIsRevisited ==
    [][run' = run /\ pc' # "down" =>
          \/ pos' = pos + 1
          \/ /\ pos' = pos
             /\ \/ pc = "source" /\ pc' = "done"
                \/ pc \in Processing /\ pc' = "source"
                \/ pc \in Processing /\ pc' \in Processing /\ GoesForward]_vars

\* With nothing enabled, as shipped, or with a category enabled that is only
\* declared, no strategy gets as far as validation, whatever weights and
\* thresholds are configured (PHASE1_SCOPE.md: "a replay [...] raises no alert").
UnimplementedRaisesNothing ==
    EnabledModules = <<>> \/ (\E i \in DOMAIN EnabledModules : ModuleIsDeclaredOnly(EnabledModules[i]))
        => /\ alerts = <<>>
           /\ \A r \in ToSet(records) : r.stage \notin {"PRE_TRADE_VALIDATION", "ACTION"}

Candidacies ==
    [run      : 1 .. MaxRuns,
     pos      : UNION {DOMAIN fx : fx \in Fixtures},
     event    : UNION {UNION {1 .. fx[i].events : i \in DOMAIN fx} : fx \in Fixtures},
     strategy : {Bots[b].name : b \in DOMAIN Bots}]

Approved == {CandidacyOf(r) : r \in {x \in ToSet(records) :
                x.stage = "PRE_TRADE_VALIDATION" /\ x.outcome = "pass"}}
Concluded == {CandidacyOf(r) : r \in {x \in ToSet(records) : EndsStrategy(x)}}

Raised == [i \in DOMAIN alerts |-> CandidacyOf(alerts[i])]

Decisions == INSTANCE DecisionProtocol WITH
    approved  <- Approved,
    raised    <- Raised,
    concluded <- Concluded

\* The pipeline implements the decision protocol, whatever it processes and
\* wherever its runs stop: stores and sink together say of every candidacy
\* what became of it (_run_strategy).
ImplementsDecisions == Decisions!DecisionSpec

\* The pipeline gets through every fixture: no outcome of a stage leaves an
\* event, and the observations behind it, unprocessed for good.
Terminates == <>(pc = "done")
=============================================================================
