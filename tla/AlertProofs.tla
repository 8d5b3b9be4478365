----------------------------- MODULE AlertProofs -----------------------------
(****************************************************************************)
(* What every alert was checked against and what it rests on, for every     *)
(* deployment; that snapshot numbers are in the order of the snapshots, the *)
(* re-reads' included; that twin bots are told the same verdict; and that a *)
(* replay repeats what runs before it left.                                 *)
(****************************************************************************)
EXTENDS PipelineProofs

\* What a verdict v on an event of entry p is worth, of a decision taken on
\* the snapshot decided, when it is acted on at the time now.
OwnRead(p, v) ==
    LET declared == fixture[p].validation_state IN
    /\ declared # None
    /\ v.checked_snapshot.slot = declared.slot
    /\ v.checked_snapshot.captured_at_ms = declared.observed_at_ms
    /\ \A f \in DOMAIN ToPatchFields(declared.metrics) :
          v.checked_snapshot.metrics[f] = declared.metrics[f]

FreshRead(p, v, now) ==
    /\ \A i \in 1 .. p :
          fixture[i].observed_at_ms - v.checked_snapshot.captured_at_ms
              =< Gate.staleness.max_snapshot_age_ms
    /\ fixture[p].slot - v.checked_snapshot.slot =< Gate.staleness.max_slot_lag
    /\ now - v.checked_snapshot.captured_at_ms =< Gate.staleness.max_snapshot_age_ms

NotDeteriorated(decided, v) ==
    LET was == decided.metrics
        is  == v.checked_snapshot.metrics
        p   == Gate.deterioration
    IN  /\ \A f \in RequiredFields : was[f] # None /\ is[f] # None
        /\ is.price * 100 >= (100 - p.max_price_drop_fraction) * was.price
        /\ is.liquidity * 100 >= (100 - p.max_liquidity_drop_fraction) * was.liquidity
        /\ is.slippage_bps =< p.max_slippage_bps
        /\ p.cancel_on_dev_sold => is.dev_sold = FALSE
        /\ is.buy_volume > 0
        /\ is.sell_volume * 100 =< p.max_sell_pressure_ratio * is.buy_volume
        /\ p.cancel_on_smart_wallet_exit =>
              was.smart_wallet_addresses \subseteq is.smart_wallet_addresses
        /\ p.cancel_on_lp_supply_change => was.lp_state = is.lp_state

Vouched(p, decided, v, now) ==
    OwnRead(p, v) /\ FreshRead(p, v, now) /\ NotDeteriorated(decided, v)

\* The inductive invariant: an alert that is out is vouched for, and so is one
\* that is about to go out.
AlertsVouched ==
    /\ IsStore(alerts)
    /\ \A a \in ToSet(alerts) : Vouched(a.pos, a.snapshot, a.validation, a.raised_at_ms)
    /\ pc = "alert" => Vouched(pos, frame.snapshot, frame.checked, clock)

\* What a verdict v on the current event says of the state that was re-read,
\* when it is reached at the time now.
ReadOf(read, v, now) ==
    /\ read # None
    /\ v.checked_snapshot.slot = read.slot
    /\ v.checked_snapshot.captured_at_ms = read.observed_at_ms
    /\ \A f \in DOMAIN read.fields : v.checked_snapshot.metrics[f] = read.fields[f]
    /\ read.slot \in Int /\ read.observed_at_ms \in Int
    /\ Gate.staleness.max_snapshot_age_ms \in Int /\ Gate.staleness.max_slot_lag \in Int
    /\ now \in Int /\ clock \in Int /\ now >= clock
    /\ now - read.observed_at_ms =< Gate.staleness.max_snapshot_age_ms
    /\ Current.slot - read.slot =< Gate.staleness.max_slot_lag

\* What a pass of the validator on the current event is worth, whatever the
\* refresher answers with.
LEMMA PassIsOnTheRead ==
    ASSUME TypeOK, PreTradeValidation, ValidateCurrent.outcome = "pass"
    PROVE  /\ ReadOf(published[Current.mint], ValidateCurrent, TimeOfCheck)
           /\ NotDeteriorated(frame.snapshot, ValidateCurrent)
  <1> DEFINE read  == published[Current.mint]
             known == KnownMetrics(Current.mint)
             v     == ValidateCurrent
             now   == TimeOfCheck
             after == MergeMetrics(known, read.fields)
  <1>1. /\ pc \in Processing \ {"trigger", "capture"}
        /\ clock \in Int /\ Current.mint \in Mints /\ Current.slot \in Int
        /\ frame.snapshot \in Snapshots
    <2>1. pc \in Processing \ {"trigger", "capture"}
      BY DEF PreTradeValidation, Processing
    <2>2. QED
      BY <2>1, CurrentEntry, ClockIsSet DEF TypeOK, IsFrame, Optional
  <1>2. /\ Granted(Gate, frame.snapshot, Reread, known, Current.slot, now)
        /\ v.checked_snapshot = FreshSnapshot(Reread, known, sequence)
    BY PassIsGranted DEF ValidateCurrent
  <1>3. Configured(Gate) /\ Reread = read /\ read # None
    BY <1>2 DEF Granted, Reread
  <1>4. read.slot \in Int /\ read.observed_at_ms \in Int /\ IsReport(read.fields)
    BY <1>1, <1>3 DEF TypeOK, SessionTypeOK, IsRefreshedState
  <1>5. /\ v.checked_snapshot.slot = read.slot
        /\ v.checked_snapshot.captured_at_ms = read.observed_at_ms
        /\ v.checked_snapshot.metrics = after
    BY <1>2, <1>3 DEF FreshSnapshot
  <1>6. /\ Gate.staleness.max_snapshot_age_ms \in Int
        /\ Gate.staleness.max_slot_lag \in Int
        /\ Gate.deterioration \in DeteriorationPolicies
    BY <1>3, GateAssumption, ConfiguredPolicies
  <1>7. \A f \in DOMAIN read.fields : after[f] = read.fields[f]
    <2>1. \A f \in DOMAIN read.fields : f \in MetricFields
      BY <1>4 DEF IsReport
    <2>2. QED
      BY <2>1, MergeByField
  <1>8. now \in Int /\ now >= clock
    <2>1. now = ObserveTime(clock, read.observed_at_ms)
      BY <1>3 DEF TimeOfCheck, TimeAfterRefresh
    <2>2. QED
      BY <1>1, <1>4, <2>1, ObserveTimeIsLatest DEF Optional
  <1>9. /\ now - read.observed_at_ms =< Gate.staleness.max_snapshot_age_ms
        /\ Current.slot - read.slot =< Gate.staleness.max_slot_lag
    <2>1. now - read.observed_at_ms =< Gate.staleness.max_snapshot_age_ms
      BY <1>2, <1>3, <1>4, <1>6, <1>8 DEF Granted
    <2>2. ~((IF Current.slot > read.slot THEN Current.slot ELSE read.slot)
               - read.slot > Gate.staleness.max_slot_lag)
      BY <1>2, <1>3 DEF Granted
    <2>3. QED
      BY <1>1, <1>4, <1>6, <2>1, <2>2
  <1>10. NotDeteriorated(frame.snapshot, v)
    <2>1. /\ frame.snapshot.metrics \in TokenMetrics /\ after \in TokenMetrics
      BY <1>1, <1>4, KnownIsMetrics, MergedIsMetrics DEF Snapshots
    <2>2. /\ Unknown(frame.snapshot.metrics) = {} /\ Unknown(after) = {}
          /\ NothingBreached(frame.snapshot.metrics, after, Gate.deterioration)
      BY <1>2, <1>3 DEF Granted
    <2>3. after.dev_sold \in BOOLEAN
      BY <2>1, <2>2, KnownFields
    <2>4. \A f \in RequiredFields : frame.snapshot.metrics[f] # None /\ after[f] # None
      BY <2>2 DEF Unknown
    <2> DEFINE was == frame.snapshot.metrics
               p   == Gate.deterioration
    <2> HIDE DEF was, after, p
    <2>5. /\ was.price > 0 /\ was.liquidity > 0 /\ after.buy_volume > 0
          /\ after.price * 100 >= (100 - p.max_price_drop_fraction) * was.price
          /\ after.liquidity * 100 >= (100 - p.max_liquidity_drop_fraction) * was.liquidity
          /\ after.slippage_bps =< p.max_slippage_bps
          /\ p.cancel_on_dev_sold => ~after.dev_sold
          /\ after.sell_volume * 100 =< p.max_sell_pressure_ratio * after.buy_volume
          /\ p.cancel_on_smart_wallet_exit =>
                was.smart_wallet_addresses \subseteq after.smart_wallet_addresses
          /\ p.cancel_on_lp_supply_change => was.lp_state = after.lp_state
      BY <1>6, <2>1, <2>2, NothingBreachedIsAcceptable DEF was, p
    <2>6. p.cancel_on_dev_sold => after.dev_sold = FALSE
      BY <2>3, <2>5
    <2> HIDE DEF v
    <2>7. QED
      BY <1>5, <2>4, <2>5, <2>6, Zenon DEF NotDeteriorated, was, p
  <1>11. QED
    BY <1>1, <1>3, <1>4, <1>5, <1>6, <1>7, <1>8, <1>9, <1>10 DEF ReadOf

\* What the refresher would answer is what the current observation declared.
LEMMA RereadIsDeclared ==
    ASSUME TypeOK, ReadIsOfLatestObservation, pc \in Processing
    PROVE  published[Current.mint] = DeclaredBy(Current)
  <1>1. pos \in 1 .. Len(fixture) /\ Current.mint \in Mints
    BY CurrentEntry, ClockIsSet
  <1>2. IsLastYielded(pos, Current.mint)
    BY <1>1 DEF IsLastYielded, Yielded, Current
  <1>3. QED
    BY <1>1, <1>2 DEF ReadIsOfLatestObservation, IsLastYielded, Current

\* What a verdict on a state that an entry declared says of that entry.
LEMMA DeclaredIsOwn ==
    ASSUME NEW p, NEW v, NEW now,
           ReadOf(DeclaredBy(fixture[p]), v, now), IsEntry(fixture[p])
    PROVE  OwnRead(p, v)
  <1>1. PICK declared : declared = fixture[p].validation_state
    OBVIOUS
  <1>2. declared # None /\ DeclaredBy(fixture[p]) = RefreshedState(fixture[p].mint, declared)
    BY <1>1 DEF ReadOf, DeclaredBy
  <1>3. PICK read : read = DeclaredBy(fixture[p])
    OBVIOUS
  <1>4. /\ read.slot = declared.slot /\ read.observed_at_ms = declared.observed_at_ms
        /\ read.fields = ToPatchFields(declared.metrics)
    BY <1>2, <1>3 DEF RefreshedState
  <1>5. \A f \in DOMAIN read.fields : read.fields[f] = declared.metrics[f]
    BY <1>4 DEF ToPatchFields
  <1>6. QED
    BY <1>1, <1>2, <1>3, <1>4, <1>5 DEF ReadOf, OwnRead

\* A verdict that is in time for the clock is in time for what it covers.
LEMMA CoveredIsFresh ==
    ASSUME TypeOK, pos > 0, NEW read, NEW v, NEW now, ReadOf(read, v, now),
           \A i \in 1 .. pos : fixture[i].observed_at_ms =< clock
    PROVE  FreshRead(pos, v, now)
  <1>1. \A i \in 1 .. pos : fixture[i].observed_at_ms \in Int
    BY YieldedEntries DEF TypeOK, IsEntry
  <1>2. QED
    BY <1>1 DEF ReadOf, FreshRead, Current

\* What a pass of the validator on the current event is worth.
LEMMA PassIsVouched ==
    ASSUME TypeOK, ReadIsOfLatestObservation, ClockCoversObservations,
           PreTradeValidation, ValidateCurrent.outcome = "pass"
    PROVE  Vouched(pos, frame.snapshot, ValidateCurrent, TimeOfCheck)
  <1>1. pc \in Processing /\ pos > 0 /\ IsEntry(fixture[pos])
    <2>1. pc \in Processing
      BY DEF PreTradeValidation, Processing
    <2>2. QED
      BY <2>1, CurrentEntry, ClockIsSet DEF Current
  <1>2. /\ ReadOf(DeclaredBy(fixture[pos]), ValidateCurrent, TimeOfCheck)
        /\ NotDeteriorated(frame.snapshot, ValidateCurrent)
    BY <1>1, RereadIsDeclared, PassIsOnTheRead DEF Current
  <1>3. FreshRead(pos, ValidateCurrent, TimeOfCheck)
    BY <1>1, <1>2, CoveredIsFresh DEF ClockCoversObservations
  <1>4. QED
    BY <1>1, <1>2, <1>3, DeclaredIsOwn DEF Vouched

\* Only validation leads to an alert, and only when it passes.
LEMMA AlertFollowsPass ==
    ASSUME TypeOK, [Next]_vars, pc' = "alert"
    PROVE  \/ UNCHANGED vars
           \/ PreTradeValidation /\ ValidateCurrent.outcome = "pass"
                /\ frame' = [Counted EXCEPT !.checked = ValidateCurrent]
  <1>1. \A fr : MoveOn(fr) => pc' # "alert"
    BY DEF MoveOn, NextEvent, Continue
  <1>2. CASE PreTradeValidation
    <2> DEFINE v == ValidateCurrent
    <2>1. IF v.outcome = "pass"
             THEN Continue("alert", [Counted EXCEPT !.checked = v])
             ELSE MoveOn(Counted)
      BY <1>2 DEF PreTradeValidation
    <2> HIDE DEF v
    <2>2. v.outcome = "pass" /\ frame' = [Counted EXCEPT !.checked = v]
      BY <1>1, <2>1 DEF Continue
    <2>3. QED
      BY <1>2, <2>2 DEF v
  <1>3. CASE \/ Finish \/ Trigger \/ Capture \/ RecordCaptured \/ EmitAlert \/ Crash \/ Boot
    BY <1>3 DEF Finish, Trigger, Capture, RecordCaptured, EmitAlert, Crash, Boot, Continue
  <1>4. CASE Observe
    BY <1>4 DEF Observe, Continue
  <1>5. CASE FilterCandidate
    <2>1. Continue("analysis", Counted) \/ MoveOn(Counted)
      BY <1>5 DEF FilterCandidate
    <2>2. QED
      BY <1>1, <2>1 DEF Continue
  <1>6. CASE HeavyAnalysis
    <2>1. PICK fr : MoveOn(Counted) \/ Continue("scoring", fr)
      BY <1>6, Zenon DEF HeavyAnalysis
    <2>2. QED
      BY <1>1, <2>1 DEF Continue
  <1>7. CASE Scoring
    <2>1. PICK fr : MoveOn(Counted) \/ Continue("validate", fr)
      BY <1>7, Zenon DEF Scoring
    <2>2. QED
      BY <1>1, <2>1 DEF Continue
  <1>8. CASE AnalyzeDelta \/ RecordAction
    BY <1>1, <1>8 DEF AnalyzeDelta, RecordAction
  <1>9. CASE UNCHANGED vars
    BY <1>9
  <1>10. QED
    BY <1>2, <1>3, <1>4, <1>5, <1>6, <1>7, <1>8, <1>9 DEF Next, Step

LEMMA StepIsVouched ==
    ASSUME TypeOK, ReadIsOfLatestObservation, ClockCoversObservations,
           AlertsVouched, [Next]_vars
    PROVE  AlertsVouched'
  <1>1. fixture' = fixture
    BY DEF Next, Step, Observe, Yield, Finish, Trigger, Capture, RecordCaptured,
           AnalyzeDelta, FilterCandidate, HeavyAnalysis, Scoring, PreTradeValidation,
           EmitAlert, RecordAction, Crash, Boot, Reopen, vars, sessionVars
  <1>2. IsStore(alerts)' /\ \A a \in ToSet(alerts') :
           a \in ToSet(alerts) \/ (EmitAlert /\ a = Alert)
    <2>1. CASE EmitAlert
      <3>1. alerts' = Append(alerts, Alert)
        BY <2>1 DEF EmitAlert
      <3>2. IsStore(alerts)
        BY DEF AlertsVouched
      <3> HIDE DEF Alert
      <3>3. IsStore(alerts') /\ ToSet(alerts') = ToSet(alerts) \cup {Alert}
        BY <3>1, <3>2, AppendAdds
      <3>4. QED
        BY <2>1, <3>3 DEF IsStore
    <2>2. CASE ~EmitAlert
      <3>1. alerts' = alerts
        BY <2>2 DEF Next, Step, Observe, Finish, Trigger, Capture, RecordCaptured,
               AnalyzeDelta, FilterCandidate, HeavyAnalysis, Scoring, PreTradeValidation,
               RecordAction, Crash, Boot, vars, storeVars
      <3>2. QED
        BY <3>1 DEF AlertsVouched, IsStore
    <2>3. QED
      BY <2>1, <2>2
  <1>3. ASSUME EmitAlert
        PROVE  Vouched(Alert.pos, Alert.snapshot, Alert.validation, Alert.raised_at_ms)
    BY <1>3 DEF EmitAlert, AlertsVouched, Alert
  <1>4. \A a \in ToSet(alerts') : Vouched(a.pos, a.snapshot, a.validation, a.raised_at_ms)
    BY <1>2, <1>3 DEF AlertsVouched
  <1>5. \A p, decided, v, now : Vouched(p, decided, v, now)' <=> Vouched(p, decided, v, now)
    BY <1>1 DEF Vouched, OwnRead, FreshRead, NotDeteriorated
  <1>6. ASSUME pc' = "alert"
        PROVE  Vouched(pos', frame'.snapshot, frame'.checked, clock')
    <2>1. CASE UNCHANGED vars
      BY <1>6, <2>1 DEF vars, AlertsVouched
    <2>2. CASE /\ PreTradeValidation /\ ValidateCurrent.outcome = "pass"
               /\ frame' = [Counted EXCEPT !.checked = ValidateCurrent]
      <3>1. Vouched(pos, frame.snapshot, ValidateCurrent, TimeOfCheck)
        BY <2>2, PassIsVouched
      <3>2. pos' = pos /\ clock' = TimeOfCheck /\ pc \in Processing
        BY <2>2 DEF PreTradeValidation, Processing
      <3>3. IsFrame(Counted) /\ Counted.snapshot = frame.snapshot
        BY <3>2, CountedStage
      <3> HIDE DEF Counted
      <3>4. frame'.snapshot = frame.snapshot /\ frame'.checked = ValidateCurrent
        BY <2>2, <3>3 DEF IsFrame
      <3>5. QED
        BY <3>1, <3>2, <3>4
    <2>3. QED
      BY <1>6, <2>1, <2>2, AlertFollowsPass
  <1> DEFINE Out(a) == Vouched(a.pos, a.snapshot, a.validation, a.raised_at_ms)
  <1>7. (\A a \in ToSet(alerts) : Out(a))'
    <2>1. \A a \in ToSet(alerts') : Out(a)'
      BY <1>4, <1>5
    <2> HIDE DEF Out
    <2>2. QED
      BY <2>1
  <1>8. (pc = "alert" => Vouched(pos, frame.snapshot, frame.checked, clock))'
    BY <1>1, <1>6 DEF Vouched, OwnRead, FreshRead, NotDeteriorated
  <1>9. QED
    BY <1>2, <1>7, <1>8 DEF AlertsVouched

LEMMA VouchedIsSafe ==
    AlertsVouched => AlertReadIsItsOwn /\ AlertIsFresh /\ AlertIsNotDeteriorated
  BY DEF AlertsVouched, Vouched, OwnRead, FreshRead, NotDeteriorated, Checked,
         AlertReadIsItsOwn, AlertIsFresh, AlertIsNotDeteriorated

\* Whatever a source reports and whenever the process stops, an alert goes out
\* only on a re-read that its own observation declared, that is fresh by every
\* time reported so far, and that is not materially worse than the decision.
THEOREM AlertsAreSafe ==
    Spec => [](AlertReadIsItsOwn /\ AlertIsFresh /\ AlertIsNotDeteriorated)
  <1>1. Init => AlertsVouched
    BY DEF Init, AlertsVouched, IsStore, ToSet
  <1>2. QED
    BY <1>1, StepIsVouched, VouchedIsSafe, PipelineTyping, PipelineKeepsSession, PTL DEF Spec
------------------------------------------------------------------------------
\* The stores only ever grow.
StoresKept == IsStore(snapshots) /\ IsStore(records) /\ IsStore(alerts)

LEMMA StoresGrow ==
    ASSUME TypeOK, StoresKept, [Next]_vars
    PROVE  /\ StoresKept'
           /\ ToSet(snapshots) \subseteq ToSet(snapshots')
           /\ ToSet(records) \subseteq ToSet(records')
           /\ ToSet(alerts) \subseteq ToSet(alerts')
  <1>1. ASSUME NEW r, Writes(r)
        PROVE  StoresKept' /\ UNCHANGED <<snapshots, alerts>>
               /\ ToSet(records') = ToSet(records) \cup {r}
    BY <1>1, WritesAdds DEF StoresKept, IsStore, Writes
  <1>2. CASE Capture
    <2>1. PICK s : snapshots' = Append(snapshots, s)
      BY <1>2 DEF Capture
    <2>2. IsStore(snapshots') /\ ToSet(snapshots') = ToSet(snapshots) \cup {s}
      BY <2>1, AppendAdds DEF StoresKept
    <2>3. UNCHANGED <<records, alerts>>
      BY <1>2 DEF Capture
    <2>4. QED
      BY <2>2, <2>3 DEF StoresKept, IsStore
  <1>3. CASE EmitAlert
    <2>1. alerts' = Append(alerts, Alert) /\ UNCHANGED <<records, snapshots>>
      BY <1>3 DEF EmitAlert
    <2> HIDE DEF Alert
    <2>2. IsStore(alerts') /\ ToSet(alerts') = ToSet(alerts) \cup {Alert}
      BY <2>1, AppendAdds DEF StoresKept
    <2>3. QED
      BY <2>1, <2>2 DEF StoresKept, IsStore
  <1>4. CASE Observe \/ Finish \/ Crash \/ Boot \/ UNCHANGED vars
    <2>1. UNCHANGED <<snapshots, records, alerts>>
      BY <1>4 DEF Observe, Finish, Crash, Boot, vars, storeVars
    <2>2. QED
      BY <2>1 DEF StoresKept, IsStore
  <1>5. QED
    BY <1>1, <1>2, <1>3, <1>4, StepWrites
------------------------------------------------------------------------------
\* What an alert rests on, and what a score does.
Explained(a) ==
    LET trail == Told(a.run, a.pos, a.event) IN
    /\ [run |-> a.run, pos |-> a.pos, event |-> a.event, snapshot |-> a.snapshot]
          \in ToSet(snapshots)
    /\ \E r \in trail : /\ r.stage = "SCORING" /\ r.strategy = a.strategy
                        /\ r.outcome = "advance" /\ r.detail = a.score
    /\ \E r \in trail : /\ r.stage = "PRE_TRADE_VALIDATION" /\ r.strategy = a.strategy
                        /\ r.outcome = "pass" /\ r.detail = a.validation

RestsOnFeatures(r) ==
    \E q \in Told(r.run, r.pos, r.event), b \in DOMAIN Bots :
        /\ q.stage = "HEAVY_ANALYSIS" /\ q.strategy = r.strategy
        /\ q.count < r.count
        /\ Bots[b].name = r.strategy
        /\ DOMAIN Bots[b].weights \subseteq ToSet(q.detail)

\* What is on record of the candidacy under way.
OnRecord(stage, outcome, detail) ==
    \E q \in ToSet(records) :
        /\ CandidacyOf(q) = Candidacy
        /\ q.stage = stage /\ q.outcome = outcome /\ q.detail = detail

FeaturesOnRecord ==
    \E q \in ToSet(records) :
        /\ CandidacyOf(q) = Candidacy
        /\ q.stage = "HEAVY_ANALYSIS" /\ q.count \in Int /\ q.count =< frame.count
        /\ q.detail = [i \in DOMAIN frame.features |-> frame.features[i].name]

\* The inductive invariant: what the next stages will rely on is on record.
ExplainedInv ==
    /\ StoresKept
    /\ \A a \in ToSet(alerts) : Explained(a)
    /\ \A r \in ToSet(records) : r.stage = "SCORING" /\ r.detail # None => RestsOnFeatures(r)
    /\ pc \in Processing \ {"trigger", "capture"} =>
          [run |-> run, pos |-> pos, event |-> frame.event, snapshot |-> frame.snapshot]
             \in ToSet(snapshots)
    /\ pc = "scoring" => FeaturesOnRecord
    /\ pc \in {"validate", "alert", "action"} => OnRecord("SCORING", "advance", frame.score)
    /\ pc \in {"alert", "action"} => OnRecord("PRE_TRADE_VALIDATION", "pass", frame.checked)

LEMMA ExplainedSuffices ==
    ExplainedInv => AlertIsExplained /\ ScoreIsOfRecordedFeatures
  BY Zenon DEF ExplainedInv, Explained, AlertIsExplained, RestsOnFeatures,
               ScoreIsOfRecordedFeatures

\* What is explained stays explained.
LEMMA ExplainedStays ==
    ASSUME ToSet(snapshots) \subseteq ToSet(snapshots'), ToSet(records) \subseteq ToSet(records')
    PROVE  /\ \A a : Explained(a) => Explained(a)'
           /\ \A r : RestsOnFeatures(r) => RestsOnFeatures(r)'
  <1>1. \A r, p, e : Told(r, p, e) \subseteq Told(r, p, e)'
    BY DEF Told, EventOf
  <1>2. ASSUME NEW a, Explained(a) PROVE Explained(a)'
    BY <1>1, <1>2 DEF Explained
  <1>3. ASSUME NEW r, RestsOnFeatures(r) PROVE RestsOnFeatures(r)'
    <2>1. PICK q \in Told(r.run, r.pos, r.event), b \in DOMAIN Bots :
              /\ q.stage = "HEAVY_ANALYSIS" /\ q.strategy = r.strategy
              /\ q.count < r.count
              /\ Bots[b].name = r.strategy
              /\ DOMAIN Bots[b].weights \subseteq ToSet(q.detail)
      BY <1>3 DEF RestsOnFeatures
    <2>2. q \in Told(r.run, r.pos, r.event)'
      BY <1>1
    <2>3. QED
      BY <2>1, <2>2, Zenon DEF RestsOnFeatures
  <1>4. QED
    BY <1>2, <1>3

\* A score is only given over features that were produced.
LEMMA ScoreNeedsFeatures ==
    ASSUME NEW strategy, NEW candidate, NEW features,
           Evaluate(strategy, candidate, features).score # None
    PROVE  DOMAIN strategy.weights \subseteq {features[i].name : i \in DOMAIN features}
  <1>1. WeightedScore(strategy.weights, features) # None
    BY DEF Evaluate, EvaluateBotA, EvaluateBotB, ThresholdDecision
  <1>2. QED
    BY <1>1 DEF WeightedScore

\* The alert that goes out is explained.
LEMMA AlertExplained ==
    ASSUME ExplainedInv, pc = "alert"
    PROVE  Explained(Alert)
  <1>1. /\ Alert.run = run /\ Alert.pos = pos /\ Alert.event = frame.event
        /\ Alert.strategy = Strategy.name /\ Alert.snapshot = frame.snapshot
        /\ Alert.score = frame.score /\ Alert.validation = frame.checked
    BY DEF Alert
  <1> HIDE DEF Alert
  <1>2. [run |-> run, pos |-> pos, event |-> frame.event, snapshot |-> frame.snapshot]
           \in ToSet(snapshots)
    BY DEF ExplainedInv, Processing
  <1>3. \A q : CandidacyOf(q) = Candidacy =>
           EventOf(q) = <<run, pos, frame.event>> /\ q.strategy = Strategy.name
    BY DEF CandidacyOf, Candidacy, EventOf
  <1>4. \E q \in Told(run, pos, frame.event) :
           /\ q.stage = "SCORING" /\ q.strategy = Strategy.name
           /\ q.outcome = "advance" /\ q.detail = frame.score
    <2>1. PICK q \in ToSet(records) : CandidacyOf(q) = Candidacy /\ q.stage = "SCORING"
                                      /\ q.outcome = "advance" /\ q.detail = frame.score
      BY DEF ExplainedInv, OnRecord
    <2>2. QED
      BY <1>3, <2>1 DEF Told
  <1>5. \E q \in Told(run, pos, frame.event) :
           /\ q.stage = "PRE_TRADE_VALIDATION" /\ q.strategy = Strategy.name
           /\ q.outcome = "pass" /\ q.detail = frame.checked
    <2>1. PICK q \in ToSet(records) :
                CandidacyOf(q) = Candidacy /\ q.stage = "PRE_TRADE_VALIDATION"
                /\ q.outcome = "pass" /\ q.detail = frame.checked
      BY DEF ExplainedInv, OnRecord
    <2>2. QED
      BY <1>3, <2>1 DEF Told
  <1>6. QED
    BY <1>1, <1>2, <1>4, <1>5 DEF Explained

\* The score that is recorded rests on features of record.
LEMMA ScoreRests ==
    ASSUME TypeOK, ExplainedInv, Scoring, NEW r, Writes(r),
           r.detail = Evaluate(Strategy, Candidate, frame.features).score, r.detail # None
    PROVE  RestsOnFeatures(r)
  <1>1. pc = "scoring" /\ pc \in BotStages /\ pc \in Processing
    BY DEF Scoring, BotStages, Processing
  <1>2. PICK q \in ToSet(records) :
           /\ CandidacyOf(q) = Candidacy
           /\ q.stage = "HEAVY_ANALYSIS" /\ q.count \in Int /\ q.count =< frame.count
           /\ q.detail = [i \in DOMAIN frame.features |-> frame.features[i].name]
    BY <1>1 DEF ExplainedInv, FeaturesOnRecord
  <1>3. /\ r.run = run /\ r.pos = pos /\ r.event = frame.event /\ r.strategy = Strategy.name
        /\ r.count = frame.count + 1
    BY <1>1 DEF Writes
  <1>4. q \in Told(r.run, r.pos, r.event) /\ q.strategy = r.strategy
    BY <1>2, <1>3 DEF Told, EventOf, CandidacyOf, Candidacy
  <1>5. frame.count \in Nat /\ frame.bot \in DOMAIN Bots /\ Bots[frame.bot].name = r.strategy
    BY <1>1, <1>3, ClockIsSet, CountedStage, BotsAssumption DEF IsFrame, Strategy
  <1>6. DOMAIN Bots[frame.bot].weights \subseteq
            {frame.features[i].name : i \in DOMAIN frame.features}
    BY ScoreNeedsFeatures DEF Strategy
  <1>7. ToSet(q.detail) = {frame.features[i].name : i \in DOMAIN frame.features}
    BY <1>2 DEF ToSet
  <1>8. q.count < r.count
    BY <1>2, <1>3, <1>5
  <1>9. QED
    BY <1>2, <1>4, <1>5, <1>6, <1>7, <1>8 DEF RestsOnFeatures

\* A record of what the next stage will rely on leaves everything explained.
LEMMA RecordExplains ==
    ASSUME TypeOK, ExplainedInv, [Next]_vars, NEW r, Writes(r),
           r.stage = "SCORING" /\ r.detail # None => RestsOnFeatures(r),
           pc' = "scoring" =>
              r.detail = [i \in DOMAIN frame'.features |-> frame'.features[i].name],
           pc' = "validate" => r.outcome = "advance" /\ r.detail = frame'.score,
           pc' = "alert" => /\ r.outcome = "pass" /\ r.detail = frame'.checked
                            /\ frame'.score = frame.score
    PROVE  ExplainedInv'
  <1>1. /\ StoresKept' /\ ToSet(snapshots) \subseteq ToSet(snapshots')
        /\ ToSet(records) \subseteq ToSet(records')
    BY StoresGrow DEF ExplainedInv
  <1>2. UNCHANGED <<snapshots, alerts, run, pos>> /\ r.count = frame.count + 1
        /\ r.run = run /\ r.pos = pos /\ r.event = frame.event
        /\ <<pc, r.stage>> \in Recorded /\ pc \in Processing
        /\ r.strategy = IF pc \in BotStages THEN Strategy.name ELSE None
    BY DEF Writes, Recorded, Processing
  <1>3. ToSet(records') = ToSet(records) \cup {r}
    BY WritesAdds DEF ExplainedInv, StoresKept
  <1>4. \A a \in ToSet(alerts') : Explained(a)'
    BY <1>1, <1>2, ExplainedStays DEF ExplainedInv
  <1>5. \A q \in ToSet(records') : q.stage = "SCORING" /\ q.detail # None => RestsOnFeatures(q)'
    BY <1>1, <1>3, ExplainedStays DEF ExplainedInv
  <1>6. pc' \in Processing \ {"trigger", "capture"} =>
           [run |-> run', pos |-> pos', event |-> frame'.event, snapshot |-> frame'.snapshot]
              \in ToSet(snapshots')
    <2>1. CASE pc' \in Processing \ {"trigger", "capture"}
      <3>1. pc' \notin {"trigger", "capture", "source"}
        BY <2>1 DEF Processing
      <3>2. frame'.snapshot = frame.snapshot /\ frame'.event = frame.event
        BY <3>1 DEF Writes, MovesOn, NextBot, EventAfter, EventsOver, GoesOn
      <3>3. pc # "trigger"
        BY <3>1 DEF Writes, GoingOn, BotStages
      <3>4. pc # "capture"
        BY <1>2 DEF Recorded
      <3>5. QED
        BY <1>2, <3>2, <3>3, <3>4 DEF ExplainedInv
    <2>2. QED
      BY <2>1
  <1>7. ASSUME pc' \in {"scoring", "validate", "alert", "action"}
        PROVE  /\ <<pc, pc'>> \in GoingOn /\ pc \in BotStages
               /\ Candidacy' = Candidacy /\ CandidacyOf(r) = Candidacy
               /\ frame'.count = frame.count + 1 /\ frame.count \in Nat
               /\ pc' # "action"
    <2>1. <<pc, pc'>> \in GoingOn /\ GoesOn
      BY <1>7 DEF Writes, MovesOn, NextBot, EventAfter, EventsOver
    <2>2. pc \in BotStages /\ pc' # "action"
      BY <1>7, <2>1 DEF GoingOn, BotStages
    <2>3. QED
      BY <1>2, <2>1, <2>2, ClockIsSet
         DEF GoesOn, Candidacy, CandidacyOf, Strategy, IsFrame
  <1>8. (pc = "scoring" => FeaturesOnRecord)'
    <2>1. CASE pc' = "scoring"
      <3>1. r.stage = "HEAVY_ANALYSIS"
        BY <1>2, <1>7, <2>1 DEF GoingOn, Recorded
      <3>2. r \in ToSet(records') /\ CandidacyOf(r) = Candidacy' /\ r.count \in Int
            /\ r.count =< frame'.count
        BY <1>2, <1>3, <1>7, <2>1
      <3>3. QED
        BY <2>1, <3>1, <3>2 DEF FeaturesOnRecord, CandidacyOf
    <2>2. QED
      BY <2>1
  <1>9. (pc \in {"validate", "alert", "action"} => OnRecord("SCORING", "advance", frame.score))'
    <2>1. CASE pc' = "validate"
      <3>1. r.stage = "SCORING"
        BY <1>2, <1>7, <2>1 DEF GoingOn, Recorded
      <3>2. QED
        BY <1>3, <1>7, <2>1, <3>1 DEF OnRecord, CandidacyOf
    <2>2. CASE pc' = "alert"
      <3>1. pc = "validate" /\ Candidacy' = Candidacy
        BY <1>7, <2>2 DEF GoingOn
      <3>2. QED
        BY <1>1, <2>2, <3>1 DEF ExplainedInv, OnRecord, CandidacyOf
    <2>3. QED
      BY <1>7, <2>1, <2>2
  <1>10. (pc \in {"alert", "action"} => OnRecord("PRE_TRADE_VALIDATION", "pass", frame.checked))'
    <2>1. CASE pc' = "alert"
      <3>1. r.stage = "PRE_TRADE_VALIDATION"
        BY <1>2, <1>7, <2>1 DEF GoingOn, Recorded
      <3>2. QED
        BY <1>3, <1>7, <2>1, <3>1 DEF OnRecord, CandidacyOf
    <2>2. QED
      BY <1>7, <2>1
  <1>11. QED
    BY <1>1, <1>4, <1>5, <1>6, <1>8, <1>9, <1>10 DEF ExplainedInv

\* The stages that write leave everything explained...
LEMMA StagesExplain ==
    ASSUME TypeOK, ExplainedInv, [Next]_vars,
           \/ Trigger \/ RecordCaptured \/ AnalyzeDelta \/ FilterCandidate
           \/ HeavyAnalysis \/ Scoring \/ PreTradeValidation \/ RecordAction
    PROVE  ExplainedInv'
  <1>1. CASE Trigger \/ RecordCaptured \/ AnalyzeDelta \/ FilterCandidate \/ RecordAction
    <2>1. PICK r : Writes(r)
      BY <1>1, TriggerWrites, CaptureWrites, DeltaWrites, FilterWrites, ActionWrites
    <2>2. pc \in {"trigger", "captured", "delta", "filter", "action"}
      BY <1>1 DEF Trigger, RecordCaptured, AnalyzeDelta, FilterCandidate, RecordAction
    <2>3. r.stage # "SCORING" /\ pc' \notin {"scoring", "validate", "alert"}
      BY <2>1, <2>2 DEF Writes, Recorded, GoingOn, MovesOn, NextBot, EventAfter, EventsOver
    <2>4. QED
      BY <2>1, <2>3, RecordExplains
  <1>2. CASE HeavyAnalysis
    <2>1. PICK outcome, names :
             /\ Writes(Record("HEAVY_ANALYSIS", Strategy.name, outcome, clock, names))
             /\ pc' = "scoring" =>
                   names = [i \in DOMAIN frame'.features |-> frame'.features[i].name]
      BY <1>2, AnalysisWrites
    <2>2. PICK r : r = Record("HEAVY_ANALYSIS", Strategy.name, outcome, clock, names)
      OBVIOUS
    <2>3. r.stage = "HEAVY_ANALYSIS" /\ r.detail = names
      BY <2>2 DEF Record
    <2>4. pc = "analysis"
      BY <1>2 DEF HeavyAnalysis
    <2>5. pc' \notin {"validate", "alert"}
      BY <2>1, <2>4 DEF Writes, GoingOn, MovesOn, NextBot, EventAfter, EventsOver
    <2>6. QED
      BY <2>1, <2>2, <2>3, <2>5, RecordExplains
  <1>3. CASE Scoring
    <2> DEFINE decision == Evaluate(Strategy, Candidate, frame.features)
    <2>1. PICK r : r = Record("SCORING", Strategy.name, decision.outcome, clock, decision.score)
      OBVIOUS
    <2>2. /\ Writes(r)
          /\ pc' = "validate" => decision.outcome = "advance" /\ frame'.score = decision.score
      BY <1>3, <2>1, ScoringWrites
    <2>3. r.detail = decision.score /\ r.outcome = decision.outcome
      BY <2>1 DEF Record
    <2>4. r.detail # None => RestsOnFeatures(r)
      BY <1>3, <2>2, <2>3, ScoreRests
    <2>5. pc = "scoring"
      BY <1>3 DEF Scoring
    <2>6. pc' \notin {"scoring", "alert"}
      BY <2>2, <2>5 DEF Writes, GoingOn, MovesOn, NextBot, EventAfter, EventsOver
    <2> HIDE DEF decision
    <2>7. QED
      BY <2>2, <2>3, <2>4, <2>6, RecordExplains
  <1>4. CASE PreTradeValidation
    <2>1. PICK r : r = Record("PRE_TRADE_VALIDATION", Strategy.name, ValidateCurrent.outcome,
                              TimeOfCheck, ValidateCurrent)
      OBVIOUS
    <2>2. /\ Writes(r)
          /\ pc' = "alert" => /\ ValidateCurrent.outcome = "pass"
                              /\ frame'.checked = ValidateCurrent /\ frame'.score = frame.score
      BY <1>4, <2>1, ValidationWrites
    <2>3. /\ r.stage = "PRE_TRADE_VALIDATION" /\ r.detail = ValidateCurrent
          /\ r.outcome = ValidateCurrent.outcome
      BY <2>1 DEF Record
    <2>4. pc = "validate"
      BY <1>4 DEF PreTradeValidation
    <2>5. pc' \notin {"scoring", "validate"}
      BY <2>2, <2>4 DEF Writes, GoingOn, MovesOn, NextBot, EventAfter, EventsOver
    <2>6. QED
      BY <2>2, <2>3, <2>5, RecordExplains
  <1>5. QED
    BY <1>1, <1>2, <1>3, <1>4

\* ... and so do the other steps.
LEMMA OtherStepsExplain ==
    ASSUME TypeOK, ExplainedInv, [Next]_vars,
           Observe \/ Finish \/ Capture \/ EmitAlert \/ Crash \/ Boot \/ UNCHANGED vars
    PROVE  ExplainedInv'
  <1>1. /\ StoresKept' /\ ToSet(snapshots) \subseteq ToSet(snapshots')
        /\ ToSet(records) \subseteq ToSet(records') /\ records' = records
    BY StoresGrow DEF ExplainedInv, Observe, Finish, Capture, EmitAlert, Crash, Boot, vars,
                      storeVars
  <1>2. \A r \in ToSet(records') : r.stage = "SCORING" /\ r.detail # None => RestsOnFeatures(r)'
    BY <1>1, ExplainedStays DEF ExplainedInv
  <1>3. CASE EmitAlert
    <2>1. /\ pc = "alert" /\ pc' = "action" /\ frame' = frame /\ UNCHANGED <<run, pos, snapshots>>
          /\ alerts' = Append(alerts, Alert)
      BY <1>3 DEF EmitAlert, Continue, sessionVars
    <2>2. PICK a : a = Alert
      OBVIOUS
    <2>3. Explained(a)'
      BY <1>1, <2>1, <2>2, AlertExplained, ExplainedStays
    <2>4. ToSet(alerts') = ToSet(alerts) \cup {a}
      BY <2>1, <2>2, AppendAdds DEF ExplainedInv, StoresKept
    <2>5. \A x \in ToSet(alerts') : Explained(x)'
      BY <1>1, <2>3, <2>4, ExplainedStays DEF ExplainedInv
    <2>6. Candidacy' = Candidacy
      BY <2>1 DEF Candidacy, Strategy
    <2>7. (OnRecord("SCORING", "advance", frame.score))'
          /\ (OnRecord("PRE_TRADE_VALIDATION", "pass", frame.checked))'
      BY <1>1, <2>1, <2>6 DEF ExplainedInv, OnRecord, CandidacyOf
    <2>8. QED
      BY <1>1, <1>2, <2>1, <2>5, <2>7 DEF ExplainedInv, Processing
  <1>4. CASE ~EmitAlert
    <2>1. alerts' = alerts
      BY <1>4 DEF Observe, Finish, Capture, Crash, Boot, vars, storeVars
    <2>2. \A a \in ToSet(alerts') : Explained(a)'
      BY <1>1, <2>1, ExplainedStays DEF ExplainedInv
    <2>3. CASE UNCHANGED vars
      <3>1. Candidacy' = Candidacy
        BY <2>3 DEF vars, Candidacy, Strategy
      <3>2. QED
        BY <1>1, <1>2, <2>2, <2>3, <3>1
           DEF vars, ExplainedInv, OnRecord, FeaturesOnRecord, CandidacyOf
    <2>4. CASE Capture
      <3> DEFINE snapshot == CaptureAt(Current.mint, Current.slot, Current.observed_at_ms)
      <3>1. PICK s : s = [run |-> run, pos |-> pos, event |-> frame.event, snapshot |-> snapshot]
        OBVIOUS
      <3>2. /\ snapshots' = Append(snapshots, s) /\ frame' = [frame EXCEPT !.snapshot = snapshot]
            /\ pc' = "captured" /\ pc = "capture" /\ UNCHANGED <<run, pos>>
        BY <2>4, <3>1 DEF Capture, Continue, sessionVars
      <3> HIDE DEF snapshot
      <3>3. frame'.snapshot = snapshot /\ frame'.event = frame.event
        BY <3>2, ClockIsSet DEF IsFrame, Processing
      <3>4. s \in ToSet(snapshots')
        BY <3>2, AppendAdds DEF ExplainedInv, StoresKept
      <3>5. QED
        BY <1>1, <1>2, <2>2, <3>1, <3>2, <3>3, <3>4 DEF ExplainedInv
    <2>5. CASE Observe \/ Finish \/ Crash \/ Boot
      <3>1. pc' \in {"source", "trigger", "done", "down"}
        BY <2>5 DEF Observe, Finish, Crash, Boot, Continue
      <3>2. QED
        BY <1>1, <1>2, <2>2, <3>1 DEF ExplainedInv, Processing
    <2>6. QED
      BY <1>4, <2>3, <2>4, <2>5
  <1>5. QED
    BY <1>3, <1>4

\* For every deployment an alert can be reconstructed from the stores, and no
\* score rests on a feature nobody produced.
THEOREM AlertsAreExplained == Spec => [](AlertIsExplained /\ ScoreIsOfRecordedFeatures)
  <1>1. Init => ExplainedInv
    BY DEF Init, ExplainedInv, StoresKept, IsStore, ToSet, Processing
  <1>2. TypeOK /\ ExplainedInv /\ [Next]_vars => ExplainedInv'
    BY StagesExplain, OtherStepsExplain DEF Next, Step
  <1>3. QED
    BY <1>1, <1>2, ExplainedSuffices, PipelineTyping, PTL DEF Spec
------------------------------------------------------------------------------
\* The inductive invariant.  Every number of this run was consumed, and no
\* snapshot and no check is of an event still to come...
Consumed(x, number) ==
    /\ x.run \in Int /\ x.pos \in Int /\ x.event \in Int /\ number \in Int
    /\ x.run =< run
    /\ x.run = run =>
          /\ x.pos =< pos /\ number < sequence
          /\ x.pos = pos /\ pc \in Processing => x.event =< frame.event

\* ... and before its snapshot is taken, no check is of the current event.
BeforeSnapshot == {"trigger", "capture"}

NumbersInv ==
    /\ IsStore(snapshots) /\ IsStore(records)
    /\ \A i \in DOMAIN snapshots : Consumed(snapshots[i], snapshots[i].snapshot.sequence)
    /\ \A k \in Checks : Consumed(records[k], NumberOf(k))
    /\ pc \in BeforeSnapshot => \A k \in Checks :
          records[k].run = run /\ records[k].pos = pos => records[k].event # frame.event
    /\ SnapshotNumbersOrder

\* A step onwards: in the event, to a later one, to a later observation, or to
\* the next run.
Onwards ==
    \/ run' = run + 1
    \/ run' = run /\ pos' = pos + 1 /\ sequence' >= sequence
    \/ /\ run' = run /\ pos' = pos /\ sequence' >= sequence
       /\ pc' \in Processing =>
             /\ pc \in Processing /\ frame'.event >= frame.event
             /\ pc' \in BeforeSnapshot =>
                   frame'.event > frame.event \/ pc \in BeforeSnapshot

\* The types the order of numbers rests on.
NumberTypes ==
    /\ run \in Int /\ pos \in Int /\ sequence \in Int
    /\ IsFrame(frame) /\ frame.event \in Int

LEMMA NumbersAreTyped == (TypeOK => NumberTypes) /\ (TypeOK' => NumberTypes')
  <1>1. TypeOK => NumberTypes
    BY MaxRunsAssumption DEF TypeOK, SessionTypeOK, IsFrame, NumberTypes
  <1>2. TypeOK' => NumberTypes'
    BY MaxRunsAssumption DEF TypeOK, SessionTypeOK, IsFrame, NumberTypes
  <1>3. QED
    BY <1>1, <1>2

\* A step that leaves a record goes onwards.
LEMMA WritesOnwards ==
    ASSUME TypeOK, NEW r, Writes(r), sequence' \in {sequence, sequence + 1}
    PROVE  Onwards
  <1>1. /\ UNCHANGED <<run, pos>> /\ pc \in Processing /\ frame.event \in Int
        /\ sequence' >= sequence
    BY NumbersAreTyped DEF NumberTypes, Writes, Recorded, Processing
  <1>2. CASE <<pc, pc'>> \in GoingOn /\ GoesOn
    BY <1>1, <1>2 DEF Onwards, GoingOn, GoesOn, BeforeSnapshot
  <1>3. CASE NextBot
    BY <1>1, <1>3 DEF Onwards, NextBot, BeforeSnapshot
  <1>4. CASE EventAfter
    <2>1. frame'.event = frame.event + 1
      BY <1>4 DEF EventAfter, EventFrame
    <2>2. QED
      BY <1>1, <2>1 DEF Onwards
  <1>5. CASE EventsOver
    BY <1>1, <1>5 DEF Onwards, EventsOver, Processing
  <1>6. QED
    BY <1>2, <1>3, <1>4, <1>5 DEF Writes, MovesOn

\* What was consumed stays consumed.
LEMMA ConsumedStays ==
    ASSUME TypeOK, TypeOK', Onwards, NEW x, NEW number, Consumed(x, number)
    PROVE  Consumed(x, number)'
  <1>1. /\ run \in Int /\ pos \in Int /\ sequence \in Int /\ frame.event \in Int
        /\ run' \in Int /\ pos' \in Int /\ sequence' \in Int /\ frame'.event \in Int
    BY NumbersAreTyped DEF NumberTypes
  <1>2. QED
    BY <1>1 DEF Onwards, Consumed

\* An event whose snapshot is still to come has no check after the step if it
\* had none before.
LEMMA NoCheckYet ==
    ASSUME TypeOK, TypeOK', Onwards, NumbersInv, pc' \in BeforeSnapshot, NEW k \in Checks,
           records[k].run = run', records[k].pos = pos'
    PROVE  records[k].event # frame'.event
  <1>1. /\ run \in Int /\ pos \in Int /\ frame.event \in Int /\ frame'.event \in Int
        /\ pc' \in Processing
    BY NumbersAreTyped DEF NumberTypes, BeforeSnapshot, Processing
  <1>2. Consumed(records[k], NumberOf(k))
    BY DEF NumbersInv
  <1>3. run' = run /\ pos' = pos
    BY <1>1, <1>2 DEF Onwards, Consumed
  <1>4. pc \in Processing /\ records[k].event \in Int /\ records[k].event =< frame.event
        /\ (frame'.event > frame.event \/ (pc \in BeforeSnapshot /\ frame'.event >= frame.event))
    BY <1>1, <1>2, <1>3 DEF Onwards, Consumed
  <1>5. pc \in BeforeSnapshot => records[k].event # frame.event
    BY <1>3 DEF NumbersInv
  <1>6. QED
    BY <1>1, <1>4, <1>5

\* Nothing is captured and no check recorded.
LEMMA NumbersStay ==
    ASSUME TypeOK, TypeOK', Onwards, NumbersInv, UNCHANGED snapshots, IsStore(records'),
           Checks' = Checks, \A k \in Checks : records'[k] = records[k]
    PROVE  NumbersInv'
  <1>1. \A k \in Checks : NumberOf(k)' = NumberOf(k)
    BY DEF NumberOf
  <1>2. \A i \in DOMAIN snapshots : Consumed(snapshots[i], snapshots[i].snapshot.sequence)'
    BY ConsumedStays DEF NumbersInv
  <1>3. \A k \in Checks : Consumed(records[k], NumberOf(k))'
    <2>1. ASSUME NEW k \in Checks PROVE Consumed(records[k], NumberOf(k))'
      <3>1. PICK x, n : x = records[k] /\ n = NumberOf(k)
        OBVIOUS
      <3>2. Consumed(x, n)'
        BY <3>1, ConsumedStays DEF NumbersInv
      <3>3. records'[k] = x /\ NumberOf(k)' = n
        BY <1>1, <3>1
      <3>4. QED
        BY <3>2, <3>3 DEF Consumed
    <2>2. QED
      BY <2>1
  <1>4. (pc \in BeforeSnapshot => \A k \in Checks :
            records[k].run = run /\ records[k].pos = pos => records[k].event # frame.event)'
    BY NoCheckYet
  <1>5. SnapshotNumbersOrder'
    BY <1>1 DEF NumbersInv, SnapshotNumbersOrder
  <1>6. QED
    BY <1>2, <1>3, <1>4, <1>5 DEF NumbersInv, IsStore

\* The decision snapshot takes the next number, and no check of its event has
\* one yet...
LEMMA CaptureNumbers ==
    ASSUME TypeOK, TypeOK', NumbersInv, Capture
    PROVE  NumbersInv'
  <1>1. PICK s : s = CaptureAt(Current.mint, Current.slot, Current.observed_at_ms)
    OBVIOUS
  <1>2. PICK x : x = [run |-> run, pos |-> pos, event |-> frame.event, snapshot |-> s]
    OBVIOUS
  <1>3. /\ snapshots' = Append(snapshots, x) /\ frame' = [frame EXCEPT !.snapshot = s]
        /\ UNCHANGED <<records, run, pos>> /\ pc = "capture" /\ pc' = "captured"
        /\ ConsumeSequence(s)
    BY <1>1, <1>2 DEF Capture, sessionVars, Continue
  <1>4. s # None /\ s.sequence = sequence
    <2>1. s \in Snapshots
      BY <1>1, <1>3, CapturedIsSnapshot
    <2>2. QED
      BY <1>1, <2>1, AbsenceAssumption DEF CaptureAt
  <1>5. /\ run \in Int /\ pos \in Int /\ sequence \in Int /\ frame.event \in Int
        /\ frame'.event = frame.event /\ sequence' = sequence + 1
    BY <1>3, <1>4, NumbersAreTyped DEF NumberTypes, ConsumeSequence, IsFrame
  <1>6. x.run = run /\ x.pos = pos /\ x.event = frame.event /\ x.snapshot.sequence = sequence
    BY <1>2, <1>4
  <1>7. PICK n : n = Len(snapshots)
    OBVIOUS
  <1>8. /\ n \in Nat /\ DOMAIN snapshots = 1 .. n /\ DOMAIN snapshots' = 1 .. n + 1
        /\ IsStore(snapshots') /\ snapshots'[n + 1] = x
        /\ \A i \in 1 .. n : snapshots'[i] = snapshots[i]
    <2>1. /\ IsStore(snapshots') /\ Len(snapshots') = n + 1 /\ snapshots'[n + 1] = x
          /\ \A i \in 1 .. n : snapshots'[i] = snapshots[i]
      BY <1>3, <1>7, AppendExtends DEF NumbersInv
    <2>2. QED
      BY <1>7, <2>1 DEF NumbersInv, IsStore
  <1>9. Onwards
    BY <1>3, <1>5 DEF Onwards, Processing, BeforeSnapshot
  <1>10. Checks' = Checks /\ \A k \in Checks : NumberOf(k)' = NumberOf(k)
    BY <1>3 DEF Checks, NumberOf
  <1>11. /\ \A i \in 1 .. n : Consumed(snapshots[i], snapshots[i].snapshot.sequence)
         /\ \A k \in Checks : Consumed(records[k], NumberOf(k))
    BY <1>8 DEF NumbersInv
  <1>12. \A i \in DOMAIN snapshots' :
            (Consumed(snapshots[i], snapshots[i].snapshot.sequence))'
    <2>1. ASSUME NEW i \in 1 .. n
          PROVE  (Consumed(snapshots[i], snapshots[i].snapshot.sequence))'
      <3>1. PICK y : y = snapshots[i]
        OBVIOUS
      <3>2. Consumed(y, y.snapshot.sequence)'
        BY <1>9, <1>11, <2>1, <3>1, ConsumedStays
      <3>3. snapshots'[i] = y
        BY <1>8, <3>1
      <3>4. QED
        BY <3>2, <3>3
    <2>2. (Consumed(x, x.snapshot.sequence))'
      BY <1>3, <1>5, <1>6 DEF Consumed
    <2>3. \A i \in DOMAIN snapshots' : i \in 1 .. n \/ i = n + 1
      BY <1>8
    <2>4. QED
      BY <1>8, <2>1, <2>2, <2>3
  <1>13. \A k \in Checks' : (Consumed(records[k], NumberOf(k)))'
    <2>1. ASSUME NEW k \in Checks PROVE (Consumed(records[k], NumberOf(k)))'
      <3>1. PICK y, m : y = records[k] /\ m = NumberOf(k)
        OBVIOUS
      <3>2. Consumed(y, m)'
        BY <1>9, <1>11, <3>1, ConsumedStays
      <3>3. records'[k] = y /\ NumberOf(k)' = m
        BY <1>3, <1>10, <3>1
      <3>4. QED
        BY <3>2, <3>3
    <2>2. QED
      BY <1>10, <2>1
  <1>14. SnapshotNumbersOrder'
    <2>1. \A i, j \in DOMAIN snapshots' : i < j /\ snapshots'[i].run = snapshots'[j].run =>
             snapshots'[i].snapshot.sequence < snapshots'[j].snapshot.sequence
      <3>1. \A i, j \in 1 .. n : i < j /\ snapshots[i].run = snapshots[j].run =>
               snapshots[i].snapshot.sequence < snapshots[j].snapshot.sequence
        BY <1>8 DEF NumbersInv, SnapshotNumbersOrder
      <3>2. \A i \in 1 .. n : snapshots[i].run = run => snapshots[i].snapshot.sequence < sequence
        BY <1>11 DEF Consumed
      <3>3. \A i, j \in 1 .. n + 1 : i < j => i \in 1 .. n /\ (j \in 1 .. n \/ j = n + 1)
        BY <1>8
      <3>4. QED
        BY <1>6, <1>8, <3>1, <3>2, <3>3
    <2>2. \A k, l \in Checks' : k < l /\ records'[k].run = records'[l].run =>
             NumberOf(k)' < NumberOf(l)'
      BY <1>3, <1>10 DEF NumbersInv, SnapshotNumbersOrder
    <2>3. ASSUME NEW i \in DOMAIN snapshots', NEW k \in Checks,
                 snapshots'[i].run = records[k].run
          PROVE  IF UpTo(snapshots'[i], records[k])
                 THEN snapshots'[i].snapshot.sequence < NumberOf(k)
                 ELSE NumberOf(k) < snapshots'[i].snapshot.sequence
      <3>1. CASE i \in 1 .. n
        BY <1>8, <2>3, <3>1 DEF NumbersInv, SnapshotNumbersOrder
      <3>2. CASE i = n + 1
        <4>1. /\ records[k].run = run /\ records[k].pos \in Int /\ records[k].event \in Int
              /\ records[k].pos =< pos /\ NumberOf(k) < sequence
              /\ records[k].pos = pos => records[k].event =< frame.event
          BY <1>3, <1>6, <1>8, <1>11, <2>3, <3>2 DEF Consumed, Processing
        <4>2. records[k].pos = pos => records[k].event # frame.event
          BY <1>3, <4>1 DEF NumbersInv, BeforeSnapshot
        <4>3. ~UpTo(x, records[k])
          BY <1>5, <1>6, <4>1, <4>2 DEF UpTo
        <4>4. QED
          BY <1>6, <1>8, <3>2, <4>1, <4>3
      <3>3. QED
        BY <1>8, <3>1, <3>2
    <2>4. QED
      BY <1>3, <1>10, <2>1, <2>2, <2>3 DEF SnapshotNumbersOrder
  <1>15. IsStore(records')
    BY <1>3 DEF NumbersInv, IsStore
  <1>16. pc' \notin BeforeSnapshot
    BY <1>3 DEF BeforeSnapshot
  <1>17. QED
    BY <1>8, <1>12, <1>13, <1>14, <1>15, <1>16 DEF NumbersInv

\* ... and so does the re-read a check captures, whose event has its snapshot.
LEMMA CheckNumbers ==
    ASSUME TypeOK, TypeOK', NumbersInv, PreTradeValidation
    PROVE  NumbersInv'
  <1>1. PICK v : v = ValidateCurrent
    OBVIOUS
  <1>2. PICK r : r = Record("PRE_TRADE_VALIDATION", Strategy.name, v.outcome, TimeOfCheck, v)
    OBVIOUS
  <1>3. /\ r.run = run /\ r.pos = pos /\ r.event = frame.event
        /\ r.stage = "PRE_TRADE_VALIDATION" /\ r.detail = v
    BY <1>2 DEF Record
  <1>4. /\ Writes(r) /\ UNCHANGED <<run, pos, snapshots>> /\ ConsumeSequence(Reread)
        /\ IsStore(records) /\ pc = "validate"
    BY <1>1, <1>2, ValidationWrites DEF PreTradeValidation, NumbersInv
  <1>5. /\ run \in Int /\ pos \in Int /\ sequence \in Int /\ frame.event \in Int
        /\ sequence' \in {sequence, sequence + 1} /\ pc \in Processing
        /\ frame'.event \in Int
    BY <1>4, NumbersAreTyped DEF NumberTypes, ConsumeSequence, Processing
  <1>6. Onwards
    BY <1>4, <1>5, WritesOnwards
  <1>7. PICK n : n = Len(records)
    OBVIOUS
  <1>8. /\ n \in Nat /\ DOMAIN records = 1 .. n /\ DOMAIN records' = 1 .. n + 1
        /\ IsStore(records') /\ records'[n + 1] = r
        /\ \A k \in 1 .. n : records'[k] = records[k]
    BY <1>4, <1>7, WritesAdds
  <1>9. Checks \subseteq 1 .. n /\ n + 1 \notin Checks
    BY <1>8 DEF Checks
  <1>10. \A k \in Checks : records'[k] = records[k] /\ NumberOf(k)' = NumberOf(k)
    BY <1>8, <1>9 DEF NumberOf
  <1>11. CASE v.checked_snapshot = None
    <2>1. Checks' = Checks
      BY <1>3, <1>8, <1>11 DEF Checks
    <2>2. QED
      BY <1>4, <1>6, <1>8, <1>10, <2>1, NumbersStay
  <1>12. CASE v.checked_snapshot # None
    <2>1. Reread # None /\ v.checked_snapshot.sequence = sequence
      BY <1>1, <1>12 DEF ValidateCurrent, Validate, Unread, Verdict, FreshSnapshot
    <2>2. sequence' = sequence + 1
      BY <1>4, <2>1 DEF ConsumeSequence
    <2>3. Checks' = Checks \cup {n + 1} /\ NumberOf(n + 1)' = sequence
      BY <1>3, <1>8, <1>12, <2>1 DEF Checks, NumberOf
    <2>4. /\ \A i \in DOMAIN snapshots : Consumed(snapshots[i], snapshots[i].snapshot.sequence)
          /\ \A k \in Checks : Consumed(records[k], NumberOf(k))
      BY DEF NumbersInv
    <2>5. \A i \in DOMAIN snapshots :
             (Consumed(snapshots[i], snapshots[i].snapshot.sequence))'
      <3>1. \A i \in DOMAIN snapshots : Consumed(snapshots[i], snapshots[i].snapshot.sequence)'
        BY <1>4, <1>6, <2>4, ConsumedStays
      <3>2. QED
        BY <3>1
    <2>6. \A k \in Checks' : (Consumed(records[k], NumberOf(k)))'
      <3>1. ASSUME NEW k \in Checks PROVE (Consumed(records[k], NumberOf(k)))'
        <4>1. PICK y, m : y = records[k] /\ m = NumberOf(k)
          OBVIOUS
        <4>2. Consumed(y, m)'
          BY <1>6, <2>4, <4>1, ConsumedStays
        <4>3. records'[k] = y /\ NumberOf(k)' = m
          BY <1>10, <4>1
        <4>4. QED
          BY <4>2, <4>3
      <3>2. pc' \in Processing => frame'.event >= frame.event
        BY <1>4, <1>5, <1>6 DEF Onwards
      <3>3. PICK m : m = sequence
        OBVIOUS
      <3>4. Consumed(r, m)'
        BY <1>3, <1>4, <1>5, <2>2, <3>2, <3>3 DEF Consumed
      <3>5. (Consumed(records[n + 1], NumberOf(n + 1)))'
        BY <1>8, <2>3, <3>3, <3>4 DEF Consumed
      <3>6. QED
        BY <2>3, <3>1, <3>5
    <2>7. (pc \in BeforeSnapshot => \A k \in Checks :
              records[k].run = run /\ records[k].pos = pos => records[k].event # frame.event)'
      <3>1. pc' \in BeforeSnapshot => frame'.event > frame.event
        BY <1>4, <1>5, <1>6 DEF Onwards, BeforeSnapshot, Processing
      <3>2. \A k \in Checks : pc' \in BeforeSnapshot /\ records[k].run = run'
               /\ records[k].pos = pos' => records[k].event # frame'.event
        BY <1>6, NoCheckYet
      <3>3. QED
        BY <1>3, <1>5, <1>8, <1>10, <2>3, <3>1, <3>2
    <2>8. SnapshotNumbersOrder'
      <3>1. \A i, j \in DOMAIN snapshots : i < j /\ snapshots[i].run = snapshots[j].run =>
               snapshots[i].snapshot.sequence < snapshots[j].snapshot.sequence
        BY DEF NumbersInv, SnapshotNumbersOrder
      <3>2. \A k, l \in Checks' : k < l /\ records'[k].run = records'[l].run =>
               NumberOf(k)' < NumberOf(l)'
        <4>1. \A k, l \in Checks : k < l /\ records[k].run = records[l].run =>
                 NumberOf(k) < NumberOf(l)
          BY DEF NumbersInv, SnapshotNumbersOrder
        <4>2. \A k \in Checks : k < n + 1 /\ ~(n + 1 < k)
                 /\ (records[k].run = run => NumberOf(k) < sequence)
          BY <1>8, <1>9, <2>4 DEF Consumed
        <4>3. QED
          BY <1>3, <1>8, <1>10, <2>3, <4>1, <4>2
      <3>3. ASSUME NEW i \in DOMAIN snapshots, NEW k \in Checks',
                   snapshots[i].run = records'[k].run
            PROVE  IF UpTo(snapshots[i], records'[k])
                   THEN snapshots[i].snapshot.sequence < NumberOf(k)'
                   ELSE NumberOf(k)' < snapshots[i].snapshot.sequence
        <4>1. CASE k \in Checks
          BY <1>10, <3>3, <4>1 DEF NumbersInv, SnapshotNumbersOrder
        <4>2. CASE k = n + 1
          <5>1. snapshots[i].run = run
            BY <1>3, <1>8, <3>3, <4>2
          <5>2. /\ snapshots[i].pos \in Int /\ snapshots[i].event \in Int
                /\ snapshots[i].snapshot.sequence < sequence
                /\ snapshots[i].pos =< pos
                /\ snapshots[i].pos = pos => snapshots[i].event =< frame.event
            BY <1>5, <2>4, <5>1 DEF Consumed
          <5>3. UpTo(snapshots[i], r)
            BY <1>3, <1>5, <5>2 DEF UpTo
          <5>4. QED
            BY <1>8, <2>3, <4>2, <5>2, <5>3
        <4>3. QED
          BY <2>3, <4>1, <4>2
      <3>4. QED
        BY <1>4, <3>1, <3>2, <3>3 DEF SnapshotNumbersOrder
    <2>9. IsStore(snapshots')
      BY <1>4 DEF NumbersInv, IsStore
    <2>10. QED
      BY <1>4, <1>8, <2>5, <2>6, <2>7, <2>8, <2>9 DEF NumbersInv
  <1>13. QED
    BY <1>11, <1>12

LEMMA OtherStepsNumber ==
    ASSUME TypeOK, TypeOK', NumbersInv, [Next]_vars, ~Capture, ~PreTradeValidation
    PROVE  NumbersInv'
  <1>1. /\ run \in Int /\ pos \in Int /\ sequence \in Int /\ frame.event \in Int
        /\ IsStore(records)
    BY NumbersAreTyped DEF NumberTypes, NumbersInv
  <1>2. CASE Trigger \/ RecordCaptured \/ AnalyzeDelta \/ FilterCandidate \/ HeavyAnalysis
             \/ Scoring \/ RecordAction
    <2>1. PICK r : Writes(r)
      BY <1>2, TriggerWrites, CaptureWrites, DeltaWrites, FilterWrites, AnalysisWrites,
         ScoringWrites, ActionWrites, Zenon
    <2>2. pc # "validate" /\ sequence' = sequence
      BY <1>2 DEF Trigger, RecordCaptured, AnalyzeDelta, FilterCandidate, HeavyAnalysis,
                  Scoring, RecordAction
    <2>3. r.stage # "PRE_TRADE_VALIDATION" /\ UNCHANGED snapshots
      BY <2>1, <2>2 DEF Writes, Recorded
    <2>4. /\ IsStore(records') /\ Len(records) \in Nat /\ DOMAIN records = 1 .. Len(records)
          /\ DOMAIN records' = 1 .. Len(records) + 1 /\ records'[Len(records) + 1] = r
          /\ \A k \in DOMAIN records : records'[k] = records[k]
      BY <1>1, <2>1, WritesAdds
    <2>5. Checks' = Checks /\ \A k \in Checks : records'[k] = records[k]
      BY <2>3, <2>4 DEF Checks
    <2>6. Onwards
      BY <2>1, <2>2, WritesOnwards
    <2>7. QED
      BY <2>3, <2>4, <2>5, <2>6, NumbersStay
  <1>3. CASE Observe \/ Boot \/ Finish \/ EmitAlert \/ Crash \/ UNCHANGED vars
    <2>1. UNCHANGED <<snapshots, records>>
      BY <1>3 DEF Observe, Boot, Finish, EmitAlert, Crash, vars, storeVars
    <2>2. Checks' = Checks /\ IsStore(records')
      BY <1>1, <2>1 DEF Checks, IsStore
    <2>3. CASE Observe
      <3>1. run' = run /\ pos' = pos + 1 /\ sequence' >= sequence
        BY <1>1, <2>3 DEF Observe, Yield, ConsumeSequence
      <3>2. QED
        BY <2>1, <2>2, <3>1, NumbersStay DEF Onwards
    <2>4. CASE Boot
      <3>1. run' = run + 1
        BY <2>4 DEF Boot
      <3>2. QED
        BY <2>1, <2>2, <3>1, NumbersStay DEF Onwards
    <2>5. CASE Finish \/ EmitAlert \/ Crash \/ UNCHANGED vars
      <3>1. UNCHANGED <<run, pos, sequence>>
        BY <2>5 DEF Finish, EmitAlert, Crash, vars, sessionVars, processVars
      <3>2. pc' \in Processing => frame' = frame /\ pc \in Processing
                                  /\ (pc' \in BeforeSnapshot => pc \in BeforeSnapshot)
        BY <2>5 DEF Finish, EmitAlert, Crash, Continue, vars, Processing, BeforeSnapshot
      <3>3. Onwards
        BY <1>1, <3>1, <3>2 DEF Onwards
      <3>4. QED
        BY <2>1, <2>2, <3>3, NumbersStay
    <2>6. QED
      BY <1>3, <2>3, <2>4, <2>5
  <1>4. QED
    BY <1>2, <1>3, Zenon DEF Next, Step

\* For every deployment, numbers order what a run captured, where slot and time
\* tie included: decision snapshots as they were stored, re-reads as they were
\* recorded, and every re-read after the decision snapshot of its own event and
\* before that of the next.
THEOREM NumbersOrderSnapshots == Spec => []SnapshotNumbersOrder
  <1>1. Init => NumbersInv
    BY DEF Init, NumbersInv, SnapshotNumbersOrder, Checks, IsStore, BeforeSnapshot
  <1>2. TypeOK /\ TypeOK' /\ NumbersInv /\ [Next]_vars => NumbersInv'
    BY CaptureNumbers, CheckNumbers, OtherStepsNumber
  <1>3. NumbersInv => SnapshotNumbersOrder
    BY DEF NumbersInv
  <1>4. QED
    BY <1>1, <1>2, <1>3, PipelineTyping, PTL DEF Spec
------------------------------------------------------------------------------
\* What a verdict says, the number of the snapshot it was reached on aside.
Finding(v) == <<v.outcome, v.cause, v.age_ms, v.slot_lag>>

Verdicts == {r \in ToSet(records) : r.stage = "PRE_TRADE_VALIDATION"}

\* The inductive invariant: verdicts about one event agree, those about the
\* current event with what another bot would now be told, and there are none
\* about an event before its strategies run.
TwinInv ==
    /\ IsStore(records)
    /\ \A r \in Verdicts : r.outcome = r.detail.outcome
    /\ \A r, s \in Verdicts :
          EventOf(r) = EventOf(s) => Finding(r.detail) = Finding(s.detail)
    /\ \A r \in Verdicts :
          /\ r.run \in Int /\ r.run =< run
          /\ r.run = run => r.pos \in Int /\ r.pos =< pos
          /\ r.run = run /\ r.pos = pos /\ pc \in Processing =>
                /\ r.event \in Int /\ r.event =< frame.event
                /\ r.event = frame.event => /\ pc \in BotStages
                                            /\ Finding(r.detail) = Finding(ValidateCurrent)

LEMMA TwinInvSuffices == TwinInv => TwinBotsAgree
  BY DEF TwinInv, TwinBotsAgree, Verdicts, Finding, EventOf

\* The number the re-read would be given decides nothing...
LEMMA FindingIgnoresNumber ==
    ASSUME NEW gate, NEW decided, NEW refreshed, NEW base, NEW slot, NEW now, NEW m, NEW n
    PROVE  Finding(Validate(gate, decided, refreshed, base, slot, now, m))
              = Finding(Validate(gate, decided, refreshed, base, slot, now, n))
  <1> DEFINE f == FreshSnapshot(refreshed, base, m)
             g == FreshSnapshot(refreshed, base, n)
  <1>1. f.slot = g.slot /\ f.captured_at_ms = g.captured_at_ms /\ f.metrics = g.metrics
    BY DEF FreshSnapshot
  <1> HIDE DEF f, g
  <1>2. Cause(gate, decided, f, slot, now) = Cause(gate, decided, g, slot, now)
        /\ SlotLag(slot, f) = SlotLag(slot, g)
    BY <1>1 DEF Cause, SlotLag
  <1> DEFINE c == Cause(gate, decided, f, slot, now)
  <1>3. Finding(Verdict(c, f, slot, now)) = Finding(Verdict(c, g, slot, now))
    <2> HIDE DEF c
    <2>1. QED
      BY <1>1, <1>2 DEF Finding, Verdict
  <1>4. QED
    BY <1>2, <1>3 DEF Validate, f, g

\* ... and a check tells the clock nothing a second one would tell it again.
LEMMA FindingStays ==
    ASSUME TypeOK, pc \in Processing, UNCHANGED <<fixture, pos, published, cache>>,
           frame'.snapshot = frame.snapshot, clock' \in {clock, TimeOfCheck}
    PROVE  Finding(ValidateCurrent)' = Finding(ValidateCurrent)
  <1>1. Current' = Current /\ Reread' = Reread
        /\ KnownMetrics(Current.mint)' = KnownMetrics(Current.mint)
    BY DEF Current, Reread, KnownMetrics
  <1>2. TimeOfCheck' = TimeOfCheck
    <2>1. Current.mint \in Mints /\ clock \in Int
      BY CurrentEntry, ClockIsSet
    <2>2. published[Current.mint] = None
          \/ published[Current.mint].observed_at_ms \in Int
      BY <2>1 DEF TypeOK, SessionTypeOK, IsRefreshedState
    <2>3. CASE clock' = clock
      BY <1>1, <2>3 DEF TimeOfCheck, TimeAfterRefresh
    <2>4. CASE clock' = TimeOfCheck
      BY <1>1, <2>1, <2>2, <2>4, NoneAssumption
         DEF TimeOfCheck, TimeAfterRefresh, ObserveTime
    <2>5. QED
      BY <2>3, <2>4
  <1> DEFINE Found(n) == Finding(Validate(Gate, frame.snapshot, Reread,
                                          KnownMetrics(Current.mint), Current.slot,
                                          TimeOfCheck, n))
  <1>3. Found(sequence') = Found(sequence)
    BY FindingIgnoresNumber
  <1>4. Finding(ValidateCurrent)' = Found(sequence')
    BY <1>1, <1>2 DEF ValidateCurrent
  <1>5. Finding(ValidateCurrent) = Found(sequence)
    BY DEF ValidateCurrent
  <1>6. QED
    BY <1>3, <1>4, <1>5

\* The stages of an event: what they leave of it, and where they lead.
LEMMA VerdictsStand ==
    ASSUME TypeOK, NEW r, Writes(r), clock' \in {clock, TimeOfCheck},
           NEW s, s.run = run, s.pos = pos, s.event \in Int, s.event =< frame.event,
           s.event = frame.event => /\ pc \in BotStages
                                    /\ Finding(s.detail) = Finding(ValidateCurrent)
    PROVE  pc' \in Processing =>
              /\ s.event \in Int /\ s.event =< frame'.event
              /\ s.event = frame'.event =>
                    pc' \in BotStages /\ Finding(s.detail) = Finding(ValidateCurrent)'
  <1>1. pc \in Processing /\ UNCHANGED <<fixture, pos, published, cache>>
        /\ frame.event \in Int
    <2>1. pc \in Processing /\ UNCHANGED <<fixture, pos, published, cache>>
      BY DEF Writes, Recorded, Processing
    <2>2. QED
      BY <2>1, ClockIsSet DEF IsFrame
  <1>2. CASE <<pc, pc'>> \in GoingOn /\ GoesOn
    <2>1. pc \in BotStages => pc' \in BotStages
      BY <1>2 DEF GoingOn, BotStages
    <2>2. frame'.event = frame.event /\ frame'.snapshot = frame.snapshot
      BY <1>2 DEF GoesOn
    <2>3. Finding(ValidateCurrent)' = Finding(ValidateCurrent)
      BY <1>1, <2>2, FindingStays
    <2>4. QED
      BY <2>1, <2>2, <2>3
  <1>3. CASE NextBot
    <2>1. pc' \in BotStages /\ frame'.event = frame.event /\ frame'.snapshot = frame.snapshot
      BY <1>3 DEF NextBot, BotStages
    <2>2. Finding(ValidateCurrent)' = Finding(ValidateCurrent)
      BY <1>1, <2>1, FindingStays
    <2>3. QED
      BY <2>1, <2>2
  <1>4. CASE EventAfter
    <2>1. frame'.event = frame.event + 1
      BY <1>4 DEF EventAfter, EventFrame
    <2>2. QED
      BY <1>1, <2>1
  <1>5. CASE EventsOver
    BY <1>5 DEF EventsOver, Processing
  <1>6. QED
    BY <1>2, <1>3, <1>4, <1>5 DEF Writes, MovesOn

\* A verdict agrees with those the other bots were given.
LEMMA ValidationKeepsTwins ==
    ASSUME TypeOK, TwinInv, PreTradeValidation
    PROVE  TwinInv'
  <1>1. PICK v : v = ValidateCurrent
    OBVIOUS
  <1>2. PICK r : r = Record("PRE_TRADE_VALIDATION", Strategy.name, v.outcome, TimeOfCheck, v)
    OBVIOUS
  <1>3. r.run = run /\ r.pos = pos /\ r.event = frame.event /\ r.detail = v
        /\ r.stage = "PRE_TRADE_VALIDATION" /\ r.outcome = r.detail.outcome
    BY <1>2 DEF Record
  <1>4. Writes(r) /\ UNCHANGED <<run, pos>> /\ clock' \in {clock, TimeOfCheck}
    BY <1>1, <1>2, ValidationWrites DEF PreTradeValidation
  <1>5. Verdicts' = Verdicts \cup {r} /\ IsStore(records')
    <2>1. ToSet(records') = ToSet(records) \cup {r} /\ IsStore(records')
      BY <1>4, WritesAdds DEF TwinInv
    <2>2. QED
      BY <1>3, <2>1 DEF Verdicts
  <1>6. pc \in Processing /\ pc \in BotStages /\ run \in Int /\ pos \in Int
        /\ frame.event \in Int
    <2>1. pc \in Processing /\ pc \in BotStages
      BY DEF PreTradeValidation, Processing, BotStages
    <2>2. QED
      BY <2>1, ClockIsSet, MaxRunsAssumption DEF TypeOK, SessionTypeOK, IsFrame
  <1>7. \A s \in Verdicts : EventOf(s) = EventOf(r) => Finding(s.detail) = Finding(r.detail)
    BY <1>1, <1>3, <1>6 DEF TwinInv, EventOf
  <1>8. \A s, t \in Verdicts \cup {r} :
           EventOf(s) = EventOf(t) => Finding(s.detail) = Finding(t.detail)
    BY <1>7 DEF TwinInv
  <1>9. ASSUME NEW s \in Verdicts \cup {r}, s.run = run, s.pos = pos, pc' \in Processing
        PROVE  /\ s.event \in Int /\ s.event =< frame'.event
               /\ s.event = frame'.event =>
                     pc' \in BotStages /\ Finding(s.detail) = Finding(ValidateCurrent)'
    <2>1. /\ s.event \in Int /\ s.event =< frame.event
          /\ s.event = frame.event => Finding(s.detail) = Finding(ValidateCurrent)
      BY <1>1, <1>3, <1>6, <1>9 DEF TwinInv
    <2>2. QED
      BY <1>4, <1>6, <1>9, <2>1, VerdictsStand
  <1>10. \A s \in Verdicts \cup {r} :
            /\ s.outcome = s.detail.outcome
            /\ s.run \in Int /\ s.run =< run
            /\ s.run = run => s.pos \in Int /\ s.pos =< pos
    BY <1>3, <1>6 DEF TwinInv
  <1>11. QED
    BY <1>4, <1>5, <1>8, <1>9, <1>10 DEF TwinInv

LEMMA OtherStepsKeepTwins ==
    ASSUME TypeOK, TwinInv, [Next]_vars, ~PreTradeValidation
    PROVE  TwinInv'
  <1>1. run \in Int /\ pos \in Int
    BY MaxRunsAssumption DEF TypeOK, SessionTypeOK
  <1>2. CASE Trigger \/ RecordCaptured \/ AnalyzeDelta \/ FilterCandidate \/ HeavyAnalysis
             \/ Scoring \/ RecordAction
    <2>1. PICK r : Writes(r)
      BY <1>2, TriggerWrites, CaptureWrites, DeltaWrites, FilterWrites, AnalysisWrites,
         ScoringWrites, ActionWrites, Zenon
    <2>2. pc # "validate" /\ clock' = clock
      BY <1>2 DEF Trigger, RecordCaptured, AnalyzeDelta, FilterCandidate, HeavyAnalysis,
                  Scoring, RecordAction, sessionVars
    <2>3. /\ r.stage # "PRE_TRADE_VALIDATION" /\ UNCHANGED <<run, pos>>
          /\ pc \in Processing
      BY <2>1, <2>2 DEF Writes, Recorded, Processing
    <2>4. ToSet(records') = ToSet(records) \cup {r} /\ IsStore(records')
      BY <2>1, WritesAdds DEF TwinInv
    <2>5. Verdicts' = Verdicts
      BY <2>3, <2>4 DEF Verdicts
    <2>6. ASSUME NEW s \in Verdicts, s.run = run, s.pos = pos, pc' \in Processing
          PROVE  /\ s.event \in Int /\ s.event =< frame'.event
                 /\ s.event = frame'.event =>
                       pc' \in BotStages /\ Finding(s.detail) = Finding(ValidateCurrent)'
      <3>1. /\ s.event \in Int /\ s.event =< frame.event
            /\ s.event = frame.event =>
                  pc \in BotStages /\ Finding(s.detail) = Finding(ValidateCurrent)
        BY <2>3, <2>6 DEF TwinInv
      <3>2. QED
        BY <2>1, <2>2, <2>6, <3>1, VerdictsStand
    <2>7. QED
      BY <2>3, <2>4, <2>5, <2>6 DEF TwinInv
  <1>3. CASE Observe
    <2>1. pos' = pos + 1 /\ UNCHANGED <<run, records>>
      BY <1>3 DEF Observe, Yield, storeVars
    <2>2. Verdicts' = Verdicts
      BY <2>1 DEF Verdicts
    <2>3. \A r \in Verdicts : r.run = run => r.pos \in Int /\ r.pos =< pos' /\ r.pos # pos'
      BY <1>1, <2>1 DEF TwinInv
    <2>4. QED
      BY <2>1, <2>2, <2>3 DEF TwinInv, IsStore
  <1>4. CASE Boot
    <2>1. run' = run + 1 /\ UNCHANGED records
      BY <1>4 DEF Boot, storeVars
    <2>2. Verdicts' = Verdicts
      BY <2>1 DEF Verdicts
    <2>3. \A r \in Verdicts : r.run \in Int /\ r.run =< run' /\ r.run # run'
      BY <1>1, <2>1 DEF TwinInv
    <2>4. QED
      BY <2>1, <2>2, <2>3 DEF TwinInv, IsStore
  <1>5. CASE Finish \/ Crash
    <2>1. UNCHANGED <<run, pos, records>> /\ pc' \notin Processing
      BY <1>5 DEF Finish, Crash, sessionVars, storeVars, Processing
    <2>2. Verdicts' = Verdicts
      BY <2>1 DEF Verdicts
    <2>3. QED
      BY <2>1, <2>2 DEF TwinInv, IsStore
  <1>6. CASE Capture
    <2>1. UNCHANGED <<run, pos, records>> /\ pc = "capture" /\ pc' \notin BotStages
      BY <1>6 DEF Capture, sessionVars, Continue, BotStages
    <2>2. frame'.event = frame.event
      <3>1. PICK s : frame' = [frame EXCEPT !.snapshot = s]
        BY <1>6 DEF Capture, Continue
      <3>2. QED
        BY <3>1 DEF TypeOK, IsFrame
    <2>3. Verdicts' = Verdicts
      BY <2>1 DEF Verdicts
    <2>4. \A r \in Verdicts : r.run = run /\ r.pos = pos =>
             r.event \in Int /\ r.event =< frame.event /\ r.event # frame.event
      BY <2>1 DEF TwinInv, Processing, BotStages
    <2>5. QED
      BY <2>1, <2>2, <2>3, <2>4 DEF TwinInv, IsStore
  <1>7. CASE EmitAlert \/ UNCHANGED vars
    <2>1. UNCHANGED <<fixture, run, pos, records, frame, clock, published, cache>>
      BY <1>7 DEF EmitAlert, vars, sessionVars, Continue
    <2>2. pc' \in Processing => pc \in Processing /\ (pc \in BotStages <=> pc' \in BotStages)
      BY <1>7 DEF EmitAlert, Continue, vars, Processing, BotStages
    <2>3. Verdicts' = Verdicts
      BY <2>1 DEF Verdicts
    <2>4. pc' \in Processing => Finding(ValidateCurrent)' = Finding(ValidateCurrent)
      BY <2>1, <2>2, FindingStays
    <2>5. QED
      BY <2>1, <2>2, <2>3, <2>4 DEF TwinInv, IsStore
  <1>8. QED
    BY <1>2, <1>3, <1>4, <1>5, <1>6, <1>7, Zenon DEF Next, Step

\* For every deployment the bots that validate one event are told the same:
\* a check leaves nothing behind that changes what the next one finds.
THEOREM TwinsAreToldTheSame == Spec => []TwinBotsAgree
  <1>1. Init => TwinInv
    BY DEF Init, TwinInv, Verdicts, IsStore, ToSet
  <1>2. TypeOK /\ TwinInv /\ [Next]_vars => TwinInv'
    BY ValidationKeepsTwins, OtherStepsKeepTwins
  <1>3. QED
    BY <1>1, <1>2, TwinInvSuffices, PipelineTyping, PTL DEF Spec
------------------------------------------------------------------------------
(* That a replay repeats rests on its steps being a function of the fixture *)
(* and of the place a run is at.  Leads is that function, as a relation     *)
(* without variables: from the place p it leads to q, and told is what goes *)
(* to a store or to the sink, without the annotation of which run it was.   *)
Place ==
    [pos |-> pos, clock |-> clock, published |-> published, cache |-> cache,
     sequence |-> sequence, pc |-> pc, frame |-> frame]

Going(p, stage, fr) ==
    [pos |-> p.pos, clock |-> p.clock, published |-> p.published, cache |-> p.cache,
     sequence |-> p.sequence, pc |-> stage, frame |-> fr]

Having(p, now, number) ==
    [pos |-> p.pos, clock |-> now, published |-> p.published, cache |-> p.cache,
     sequence |-> number, pc |-> p.pc, frame |-> p.frame]

MovedOn(fx, p, fr) ==
    IF fr.bot < Len(Bots)
        THEN Going(p, "filter", [fr EXCEPT !.bot = @ + 1, !.features = <<>>,
                                           !.score = None, !.checked = None])
    ELSE IF fr.event < fx[p.pos].events
        THEN Going(p, "trigger", EventFrame(fr.event + 1, fr.previous))
    ELSE Going(p, "source", NoFrame)

Bot(p) == Bots[p.frame.bot]
CountedAt(p) == [p.frame EXCEPT !.count = @ + 1]
CandidateAt(fx, p) ==
    [mint     |-> fx[p.pos].mint,
     snapshot |-> p.frame.snapshot,
     delta    |-> Diff(p.frame.previous, p.frame.snapshot)]
RecordAt(fx, p, stage, strategy, outcome, now, detail) ==
    [run |-> 0, pos |-> p.pos, event |-> p.frame.event, count |-> p.frame.count + 1,
     stage |-> stage, strategy |-> strategy, mint |-> fx[p.pos].mint,
     slot |-> fx[p.pos].slot, outcome |-> outcome, occurred_at_ms |-> now,
     detail |-> detail]
KnownAt(p, mint) == IF p.cache[mint] = None THEN NoMetrics ELSE p.cache[mint].metrics
CapturedAt(fx, p) ==
    [mint           |-> fx[p.pos].mint,
     slot           |-> fx[p.pos].slot,
     captured_at_ms |-> fx[p.pos].observed_at_ms,
     sequence       |-> p.sequence,
     metrics        |-> p.cache[fx[p.pos].mint].metrics]
PreviousAt(p, mint) ==
    IF p.cache[mint] = None THEN None
    ELSE [mint           |-> mint,
          slot           |-> p.cache[mint].last_slot,
          captured_at_ms |-> p.cache[mint].last_updated_ms,
          sequence       |-> p.sequence,
          metrics        |-> p.cache[mint].metrics]
RereadAt(fx, p) == IF Configured(Gate) THEN p.published[fx[p.pos].mint] ELSE None
TimeAt(fx, p) ==
    IF Configured(Gate) THEN TimeAfterRefresh(p.clock, p.published, fx[p.pos].mint) ELSE p.clock
VerdictAt(fx, p) ==
    Validate(Gate, p.frame.snapshot, RereadAt(fx, p), KnownAt(p, fx[p.pos].mint),
             fx[p.pos].slot, TimeAt(fx, p), p.sequence)
NumberAfter(p, captured) == IF captured = None THEN p.sequence ELSE p.sequence + 1

Observes(fx, p, q) ==
    LET entry    == fx[p.pos + 1]
        previous == PreviousAt(p, entry.mint)
    IN  q = [pos       |-> p.pos + 1,
             clock     |-> ObserveTime(p.clock, entry.observed_at_ms),
             published |-> Publish(p.published, entry.mint, DeclaredBy(entry)),
             cache     |-> [p.cache EXCEPT ![entry.mint] =
                              [metrics |-> MergeMetrics(KnownAt(p, entry.mint), Reported(entry)),
                               last_slot       |-> entry.slot,
                               last_updated_ms |-> entry.observed_at_ms]],
             sequence  |-> NumberAfter(p, previous),
             pc        |-> IF entry.events = 0 THEN "source" ELSE "trigger",
             frame     |-> IF entry.events = 0 THEN NoFrame ELSE EventFrame(1, previous)]

Captures(fx, p, q, told) ==
    LET snapshot == CapturedAt(fx, p) IN
    /\ told = [run |-> 0, pos |-> p.pos, event |-> p.frame.event, snapshot |-> snapshot]
    /\ q = Going(Having(p, p.clock, NumberAfter(p, snapshot)), "captured",
                 [p.frame EXCEPT !.snapshot = snapshot])

RecordsCaptured(fx, p, q, told) ==
    /\ told = RecordAt(fx, p, "CONTINUOUS_DATA", None, "captured", p.clock,
                       [observed_at_ms  |-> p.frame.snapshot.captured_at_ms,
                        sequence        |-> p.frame.snapshot.sequence,
                        reported_fields |-> DOMAIN Reported(fx[p.pos])])
    /\ q = Going(p, "delta", CountedAt(p))

AnalyzesDelta(fx, p, q, told) ==
    LET delta == Diff(p.frame.previous, p.frame.snapshot) IN
    /\ told = RecordAt(fx, p, "DELTA_ANALYSIS", None,
                       IF delta.changed = {} THEN "empty" ELSE "changed", p.clock, delta)
    /\ q = MovedOn(fx, p, CountedAt(p))

Filters(fx, p, q, told) ==
    LET result == FilterRun(Bot(p).filters, CandidateAt(fx, p)) IN
    /\ told = RecordAt(fx, p, "CANDIDATE_FILTERING", Bot(p).name,
                       IF result.accepted THEN "accepted" ELSE "rejected", p.clock, result.trace)
    /\ q = IF result.accepted THEN Going(p, "analysis", CountedAt(p))
           ELSE MovedOn(fx, p, CountedAt(p))

Analyzes(fx, p, q, told) ==
    LET features == Analyze(EnabledModules, CandidateAt(fx, p)) IN
    IF AnalysisRaises(EnabledModules)
        THEN /\ told = RecordAt(fx, p, "HEAVY_ANALYSIS", Bot(p).name,
                                "module_not_implemented", p.clock, None)
             /\ q = MovedOn(fx, p, CountedAt(p))
        ELSE /\ told = RecordAt(fx, p, "HEAVY_ANALYSIS", Bot(p).name, "analyzed", p.clock,
                                [i \in DOMAIN features |-> features[i].name])
             /\ q = Going(p, "scoring", [CountedAt(p) EXCEPT !.features = features])

Scores(fx, p, q, told) ==
    LET decision == Evaluate(Bot(p), CandidateAt(fx, p), p.frame.features) IN
    /\ told = RecordAt(fx, p, "SCORING", Bot(p).name, decision.outcome, p.clock, decision.score)
    /\ q = IF decision.outcome = "advance"
               THEN Going(p, "validate", [CountedAt(p) EXCEPT !.score = decision.score])
           ELSE MovedOn(fx, p, CountedAt(p))

Validates(fx, p, q, told) ==
    LET verdict == VerdictAt(fx, p)
        reread  == Having(p, TimeAt(fx, p), NumberAfter(p, RereadAt(fx, p)))
    IN  /\ told = RecordAt(fx, p, "PRE_TRADE_VALIDATION", Bot(p).name, verdict.outcome,
                           TimeAt(fx, p), verdict)
        /\ q = IF verdict.outcome = "pass"
                   THEN Going(reread, "alert", [CountedAt(p) EXCEPT !.checked = verdict])
               ELSE MovedOn(fx, reread, CountedAt(p))

Emits(fx, p, q, told) ==
    /\ told = [run |-> 0, pos |-> p.pos, event |-> p.frame.event, strategy |-> Bot(p).name,
               raised_at_ms |-> p.clock, score |-> p.frame.score,
               snapshot |-> p.frame.snapshot, validation |-> p.frame.checked]
    /\ q = Going(p, "action", p.frame)

Leads(fx, p, q, told) ==
    \/ p.pc = "source" /\ p.pos < Len(fx) /\ told = None /\ Observes(fx, p, q)
    \/ p.pc = "source" /\ ~(p.pos < Len(fx)) /\ told = None /\ q = Going(p, "done", p.frame)
    \/ /\ p.pc = "trigger" /\ q = Going(p, "capture", CountedAt(p))
       /\ told = RecordAt(fx, p, "EVENT_TRIGGER", None, "declared", p.clock, None)
    \/ p.pc = "capture" /\ Captures(fx, p, q, told)
    \/ p.pc = "captured" /\ RecordsCaptured(fx, p, q, told)
    \/ p.pc = "delta" /\ AnalyzesDelta(fx, p, q, told)
    \/ p.pc = "filter" /\ Filters(fx, p, q, told)
    \/ p.pc = "analysis" /\ Analyzes(fx, p, q, told)
    \/ p.pc = "scoring" /\ Scores(fx, p, q, told)
    \/ p.pc = "validate" /\ Validates(fx, p, q, told)
    \/ p.pc = "alert" /\ Emits(fx, p, q, told)
    \/ /\ p.pc = "action" /\ q = MovedOn(fx, p, CountedAt(p))
       /\ told = RecordAt(fx, p, "ACTION", Bot(p).name, "alert_raised", p.clock, None)

Unrun(x) == [x EXCEPT !.run = 0]

RecordingStages == Processing \ {"capture", "alert"}

\* What a step of the pipeline adds to a store: one entry of this run, if the
\* stage is one that writes there, and nothing if not.
Adds(store, new, writes, told) ==
    IF writes THEN \E x : new = Append(store, x) /\ x.run = run /\ Unrun(x) = told
    ELSE new = store

Advances ==
    \E told :
        /\ Leads(fixture, Place, Place', told)
        /\ Adds(snapshots, snapshots', pc = "capture", told)
        /\ Adds(records, records', pc \in RecordingStages, told)
        /\ Adds(alerts, alerts', pc = "alert", told)
        /\ UNCHANGED <<fixture, run>>

\* One place leads to one other.
LEMMA LeadsOnce ==
    ASSUME NEW fx, NEW p, NEW q, NEW r, NEW told, NEW tale,
           Leads(fx, p, q, told), Leads(fx, p, r, tale)
    PROVE  q = r /\ told = tale
  <1>1. CASE p.pc = "source"
    BY <1>1 DEF Leads, Observes
  <1>2. CASE p.pc \in {"trigger", "action"}
    BY <1>2 DEF Leads
  <1>3. CASE p.pc \in {"capture", "captured"}
    BY <1>3 DEF Leads, Captures, RecordsCaptured
  <1>4. CASE p.pc \in {"delta", "filter"}
    BY <1>4 DEF Leads, AnalyzesDelta, Filters
  <1>5. CASE p.pc \in {"analysis", "scoring"}
    BY <1>5 DEF Leads, Analyzes, Scores
  <1>6. CASE p.pc \in {"validate", "alert"}
    BY <1>6 DEF Leads, Validates, Emits
  <1>7. QED
    BY <1>1, <1>2, <1>3, <1>4, <1>5, <1>6 DEF Leads

\* Locals and helpers of the pipeline, at the place it is at.
LEMMA PlaceReads ==
           /\ Bot(Place) = Strategy /\ CountedAt(Place) = Counted
           /\ CandidateAt(fixture, Place) = Candidate
           /\ CapturedAt(fixture, Place) =
                 CaptureAt(Current.mint, Current.slot, Current.observed_at_ms)
           /\ RereadAt(fixture, Place) = Reread /\ TimeAt(fixture, Place) = TimeOfCheck
           /\ VerdictAt(fixture, Place) = ValidateCurrent
           /\ \A m : KnownAt(Place, m) = KnownMetrics(m) /\ PreviousAt(Place, m) = CaptureKnown(m)
           /\ Place.pos = pos /\ Place.clock = clock /\ Place.published = published
           /\ Place.cache = cache /\ Place.sequence = sequence /\ Place.pc = pc
           /\ Place.frame = frame
  <1>1. /\ Place.pos = pos /\ Place.clock = clock /\ Place.published = published
        /\ Place.cache = cache /\ Place.sequence = sequence /\ Place.pc = pc
        /\ Place.frame = frame
    BY DEF Place
  <1> HIDE DEF Place
  <1>2. /\ Bot(Place) = Strategy /\ CountedAt(Place) = Counted
        /\ CandidateAt(fixture, Place) = Candidate
    BY <1>1 DEF Bot, Strategy, CountedAt, Counted, CandidateAt, Candidate, Current
  <1>3. CapturedAt(fixture, Place) = CaptureAt(Current.mint, Current.slot, Current.observed_at_ms)
    BY <1>1 DEF CapturedAt, CaptureAt, Current
  <1>4. RereadAt(fixture, Place) = Reread /\ TimeAt(fixture, Place) = TimeOfCheck
    BY <1>1 DEF RereadAt, TimeAt, Reread, TimeOfCheck, Current
  <1>5. \A m : KnownAt(Place, m) = KnownMetrics(m) /\ PreviousAt(Place, m) = CaptureKnown(m)
    BY <1>1 DEF KnownAt, KnownMetrics, PreviousAt, CaptureKnown
  <1>6. VerdictAt(fixture, Place) = ValidateCurrent
    BY <1>1, <1>4, <1>5 DEF VerdictAt, ValidateCurrent, Current
  <1>7. QED
    BY <1>1, <1>2, <1>3, <1>4, <1>5, <1>6 DEF Place

\* A record, without its run.
LEMMA UnrunRecord ==
    ASSUME NEW stage, NEW strategy, NEW outcome, NEW now, NEW detail
    PROVE  /\ Record(stage, strategy, outcome, now, detail).run = run
           /\ Unrun(Record(stage, strategy, outcome, now, detail)) =
                 RecordAt(fixture, Place, stage, strategy, outcome, now, detail)
  <1> DEFINE r == Record(stage, strategy, outcome, now, detail)
  <1>1. r.run = run
    BY DEF Record
  <1>2. Unrun(r) = [run |-> 0, pos |-> r.pos, event |-> r.event, count |-> r.count,
                    stage |-> r.stage, strategy |-> r.strategy, mint |-> r.mint,
                    slot |-> r.slot, outcome |-> r.outcome,
                    occurred_at_ms |-> r.occurred_at_ms, detail |-> r.detail]
    BY DEF Unrun, Record
  <1>3. /\ r.pos = pos /\ r.event = frame.event /\ r.count = frame.count + 1
        /\ r.stage = stage /\ r.strategy = strategy /\ r.mint = fixture[pos].mint
        /\ r.slot = fixture[pos].slot /\ r.outcome = outcome
        /\ r.occurred_at_ms = now /\ r.detail = detail
    BY DEF Record, Current
  <1>4. Place.pos = pos /\ Place.frame = frame
    BY DEF Place
  <1>5. QED
    BY <1>1, <1>2, <1>3, <1>4 DEF RecordAt

\* Where a step goes, given the time and the number it leaves behind.
LEMMA PlaceGoes ==
    ASSUME UNCHANGED <<fixture, pos, published, cache>>, NEW stage, NEW fr, Continue(stage, fr)
    PROVE  /\ Place' = Going(Having(Place, clock', sequence'), stage, fr)
           /\ UNCHANGED <<clock, sequence>> => Place' = Going(Place, stage, fr)
  BY DEF Continue, Place, Going, Having

LEMMA PlaceMovesOn ==
    ASSUME UNCHANGED <<fixture, pos, published, cache>>, NEW fr, MoveOn(fr)
    PROVE  /\ Place' = MovedOn(fixture, Having(Place, clock', sequence'), fr)
           /\ UNCHANGED <<clock, sequence>> => Place' = MovedOn(fixture, Place, fr)
  <1> DEFINE next == [fr EXCEPT !.bot = @ + 1, !.features = <<>>,
                                !.score = None, !.checked = None]
             p == Having(Place, clock', sequence')
  <1>1. p.pos = pos /\ Place.pos = pos
    BY DEF Having, Place
  <1>2. /\ \/ fr.bot < Len(Bots) /\ Continue("filter", next)
           \/ ~(fr.bot < Len(Bots)) /\ NextEvent(fr)
        /\ MovedOn(fixture, p, fr) =
              IF fr.bot < Len(Bots) THEN Going(p, "filter", next)
              ELSE IF fr.event < fixture[pos].events
                  THEN Going(p, "trigger", EventFrame(fr.event + 1, fr.previous))
              ELSE Going(p, "source", NoFrame)
        /\ MovedOn(fixture, Place, fr) =
              IF fr.bot < Len(Bots) THEN Going(Place, "filter", next)
              ELSE IF fr.event < fixture[pos].events
                  THEN Going(Place, "trigger", EventFrame(fr.event + 1, fr.previous))
              ELSE Going(Place, "source", NoFrame)
    BY <1>1, Zenon DEF MoveOn, MovedOn
  <1> HIDE DEF next, p
  <1>3. CASE fr.bot < Len(Bots)
    <2>1. Continue("filter", next)
      BY <1>2, <1>3
    <2>2. Place' = Going(p, "filter", next)
          /\ (UNCHANGED <<clock, sequence>> => Place' = Going(Place, "filter", next))
      BY <2>1, PlaceGoes DEF p
    <2>3. QED
      BY <2>2, <1>2, <1>3 DEF p
  <1>4. CASE ~(fr.bot < Len(Bots)) /\ fr.event < fixture[pos].events
    <2>1. Continue("trigger", EventFrame(fr.event + 1, fr.previous))
      BY <1>2, <1>4 DEF NextEvent, Current
    <2>2. Place' = Going(p, "trigger", EventFrame(fr.event + 1, fr.previous))
          /\ (UNCHANGED <<clock, sequence>> =>
                 Place' = Going(Place, "trigger", EventFrame(fr.event + 1, fr.previous)))
      BY <2>1, PlaceGoes DEF p
    <2>3. QED
      BY <2>2, <1>2, <1>4 DEF p
  <1>5. CASE ~(fr.bot < Len(Bots)) /\ ~(fr.event < fixture[pos].events)
    <2>1. Continue("source", NoFrame)
      BY <1>2, <1>5 DEF NextEvent, Current
    <2>2. Place' = Going(p, "source", NoFrame)
          /\ (UNCHANGED <<clock, sequence>> => Place' = Going(Place, "source", NoFrame))
      BY <2>1, PlaceGoes DEF p
    <2>3. QED
      BY <2>2, <1>2, <1>5 DEF p
  <1>6. QED
    BY <1>3, <1>4, <1>5

LEMMA RecordingAdvances ==
    ASSUME pc \in RecordingStages, NEW stage, NEW strategy, NEW outcome, NEW now, NEW detail,
           records' = Append(records, Record(stage, strategy, outcome, now, detail)),
           UNCHANGED <<fixture, run, snapshots, alerts>>,
           Leads(fixture, Place, Place',
                 RecordAt(fixture, Place, stage, strategy, outcome, now, detail))
    PROVE  Advances
  <1>1. Adds(records, records', TRUE,
             RecordAt(fixture, Place, stage, strategy, outcome, now, detail))
    BY UnrunRecord DEF Adds
  <1>2. QED
    BY <1>1 DEF Advances, Adds, RecordingStages

\* Each step goes where its place leads, and tells what it leads to.
LEMMA EventStagesAdvance ==
    ASSUME Trigger \/ RecordCaptured \/ AnalyzeDelta
    PROVE  Advances
  <1>1. CASE Trigger
    <2>1. pc = "trigger" /\ UNCHANGED <<sessionVars, cache, sequence, run, snapshots, alerts>>
          /\ Continue("capture", Counted)
          /\ records' = Append(records, Record("EVENT_TRIGGER", None, "declared", clock, None))
      BY <1>1 DEF Trigger
    <2>2. Place' = Going(Place, "capture", CountedAt(Place)) /\ Place.pc = pc /\ Place.clock = clock
      BY <2>1, PlaceGoes, PlaceReads DEF sessionVars
    <2>3. Leads(fixture, Place, Place',
                RecordAt(fixture, Place, "EVENT_TRIGGER", None, "declared", clock, None))
      BY <2>1, <2>2 DEF Leads
    <2>4. QED
      BY <2>1, <2>3, RecordingAdvances DEF RecordingStages, Processing, sessionVars
  <1>2. CASE RecordCaptured
    <2> DEFINE detail == [observed_at_ms  |-> frame.snapshot.captured_at_ms,
                          sequence        |-> frame.snapshot.sequence,
                          reported_fields |-> DOMAIN Reported(Current)]
    <2>1. pc = "captured" /\ UNCHANGED <<sessionVars, cache, sequence, run, snapshots, alerts>>
          /\ Continue("delta", Counted)
          /\ records' = Append(records, Record("CONTINUOUS_DATA", None, "captured", clock, detail))
      BY <1>2 DEF RecordCaptured
    <2>2. /\ Place' = Going(Place, "delta", CountedAt(Place)) /\ Place.pc = pc
          /\ Place.clock = clock /\ Place.frame = frame /\ fixture[Place.pos] = Current
      BY <2>1, PlaceGoes, PlaceReads DEF sessionVars, Current
    <2>3. Leads(fixture, Place, Place',
                RecordAt(fixture, Place, "CONTINUOUS_DATA", None, "captured", clock, detail))
      BY <2>1, <2>2 DEF Leads, RecordsCaptured
    <2> HIDE DEF detail
    <2>4. QED
      BY <2>1, <2>3, RecordingAdvances DEF RecordingStages, Processing, sessionVars
  <1>3. CASE AnalyzeDelta
    <2> DEFINE delta   == Diff(frame.previous, frame.snapshot)
               outcome == IF delta.changed = {} THEN "empty" ELSE "changed"
    <2>1. pc = "delta" /\ UNCHANGED <<sessionVars, cache, sequence, run, snapshots, alerts>>
          /\ MoveOn(Counted)
          /\ records' = Append(records, Record("DELTA_ANALYSIS", None, outcome, clock, delta))
      BY <1>3 DEF AnalyzeDelta
    <2>2. /\ Place' = MovedOn(fixture, Place, CountedAt(Place)) /\ Place.pc = pc
          /\ Place.clock = clock /\ Place.frame = frame
      BY <2>1, PlaceMovesOn, PlaceReads DEF sessionVars
    <2>3. Leads(fixture, Place, Place',
                RecordAt(fixture, Place, "DELTA_ANALYSIS", None, outcome, clock, delta))
      BY <2>1, <2>2 DEF Leads, AnalyzesDelta
    <2> HIDE DEF delta, outcome
    <2>4. QED
      BY <2>1, <2>3, RecordingAdvances DEF RecordingStages, Processing, sessionVars
  <1>4. QED
    BY <1>1, <1>2, <1>3

LEMMA CandidateStagesAdvance ==
    ASSUME FilterCandidate \/ HeavyAnalysis \/ Scoring \/ RecordAction
    PROVE  Advances
  <1>1. CASE FilterCandidate
    <2> DEFINE result  == FilterRun(Strategy.filters, Candidate)
               outcome == IF result.accepted THEN "accepted" ELSE "rejected"
    <2>1. pc = "filter" /\ UNCHANGED <<sessionVars, cache, sequence, run, snapshots, alerts>>
          /\ (IF result.accepted THEN Continue("analysis", Counted) ELSE MoveOn(Counted))
          /\ records' = Append(records, Record("CANDIDATE_FILTERING", Strategy.name, outcome,
                                               clock, result.trace))
      BY <1>1 DEF FilterCandidate
    <2>2. /\ Place' = IF result.accepted THEN Going(Place, "analysis", CountedAt(Place))
                      ELSE MovedOn(fixture, Place, CountedAt(Place))
          /\ Place.pc = pc /\ Place.clock = clock /\ Bot(Place) = Strategy
          /\ CandidateAt(fixture, Place) = Candidate
      BY <2>1, PlaceGoes, PlaceMovesOn, PlaceReads DEF sessionVars
    <2>3. Leads(fixture, Place, Place',
                RecordAt(fixture, Place, "CANDIDATE_FILTERING", Strategy.name, outcome,
                         clock, result.trace))
      BY <2>1, <2>2 DEF Leads, Filters
    <2> HIDE DEF result, outcome
    <2>4. QED
      BY <2>1, <2>3, RecordingAdvances DEF RecordingStages, Processing, sessionVars
  <1>2. CASE HeavyAnalysis /\ AnalysisRaises(EnabledModules)
    <2>1. pc = "analysis" /\ UNCHANGED <<sessionVars, cache, sequence, run, snapshots, alerts>>
          /\ MoveOn(Counted)
          /\ records' = Append(records, Record("HEAVY_ANALYSIS", Strategy.name,
                                               "module_not_implemented", clock, None))
      BY <1>2 DEF HeavyAnalysis
    <2>2. /\ Place' = MovedOn(fixture, Place, CountedAt(Place))
          /\ Place.pc = pc /\ Place.clock = clock /\ Bot(Place) = Strategy
      BY <2>1, PlaceMovesOn, PlaceReads DEF sessionVars
    <2>3. Leads(fixture, Place, Place',
                RecordAt(fixture, Place, "HEAVY_ANALYSIS", Strategy.name,
                         "module_not_implemented", clock, None))
      BY <1>2, <2>1, <2>2 DEF Leads, Analyzes
    <2>4. QED
      BY <2>1, <2>3, RecordingAdvances DEF RecordingStages, Processing, sessionVars
  <1>3. CASE HeavyAnalysis /\ ~AnalysisRaises(EnabledModules)
    <2> DEFINE features == Analyze(EnabledModules, Candidate)
               named    == [i \in DOMAIN features |-> features[i].name]
    <2>1. pc = "analysis" /\ UNCHANGED <<sessionVars, cache, sequence, run, snapshots, alerts>>
          /\ Continue("scoring", [Counted EXCEPT !.features = features])
          /\ records' = Append(records, Record("HEAVY_ANALYSIS", Strategy.name, "analyzed",
                                               clock, named))
      BY <1>3, Zenon DEF HeavyAnalysis
    <2>2. /\ Place.pc = pc /\ Place.clock = clock /\ Bot(Place) = Strategy
          /\ CandidateAt(fixture, Place) = Candidate /\ CountedAt(Place) = Counted
      BY PlaceReads
    <2>3. Place' = Going(Place, "scoring", [CountedAt(Place) EXCEPT !.features = features])
      <3> HIDE DEF features
      <3>1. QED
        BY <2>1, <2>2, PlaceGoes DEF sessionVars
    <2>4. Leads(fixture, Place, Place',
                RecordAt(fixture, Place, "HEAVY_ANALYSIS", Strategy.name, "analyzed",
                         clock, named))
      BY <1>3, <2>1, <2>2, <2>3 DEF Leads, Analyzes
    <2> HIDE DEF features, named
    <2>5. QED
      BY <2>1, <2>4, RecordingAdvances DEF RecordingStages, Processing, sessionVars
  <1>4. CASE Scoring
    <2> DEFINE decision == Evaluate(Strategy, Candidate, frame.features)
               going    == [Counted EXCEPT !.score = decision.score]
    <2>1. pc = "scoring" /\ UNCHANGED <<sessionVars, cache, sequence, run, snapshots, alerts>>
          /\ (IF decision.outcome = "advance" THEN Continue("validate", going)
              ELSE MoveOn(Counted))
          /\ records' = Append(records, Record("SCORING", Strategy.name, decision.outcome,
                                               clock, decision.score))
      BY <1>4 DEF Scoring
    <2>2. /\ Place.pc = pc /\ Place.clock = clock /\ Bot(Place) = Strategy
          /\ Place.frame = frame
          /\ CandidateAt(fixture, Place) = Candidate /\ CountedAt(Place) = Counted
      BY PlaceReads
    <2>3. Place' = IF decision.outcome = "advance" THEN Going(Place, "validate", going)
                   ELSE MovedOn(fixture, Place, Counted)
      <3> HIDE DEF decision, going
      <3>1. QED
        BY <2>1, <2>2, PlaceGoes, PlaceMovesOn DEF sessionVars
    <2>4. Leads(fixture, Place, Place',
                RecordAt(fixture, Place, "SCORING", Strategy.name, decision.outcome,
                         clock, decision.score))
      BY <2>1, <2>2, <2>3 DEF Leads, Scores
    <2> HIDE DEF decision
    <2>5. QED
      BY <2>1, <2>4, RecordingAdvances DEF RecordingStages, Processing, sessionVars
  <1>5. CASE RecordAction
    <2>1. pc = "action" /\ UNCHANGED <<sessionVars, cache, sequence, run, snapshots, alerts>>
          /\ MoveOn(Counted)
          /\ records' = Append(records, Record("ACTION", Strategy.name, "alert_raised",
                                               clock, None))
      BY <1>5 DEF RecordAction
    <2>2. /\ Place' = MovedOn(fixture, Place, CountedAt(Place))
          /\ Place.pc = pc /\ Place.clock = clock /\ Bot(Place) = Strategy
      BY <2>1, PlaceMovesOn, PlaceReads DEF sessionVars
    <2>3. Leads(fixture, Place, Place',
                RecordAt(fixture, Place, "ACTION", Strategy.name, "alert_raised", clock, None))
      BY <2>1, <2>2 DEF Leads
    <2>4. QED
      BY <2>1, <2>3, RecordingAdvances DEF RecordingStages, Processing, sessionVars
  <1>6. QED
    BY <1>1, <1>2, <1>3, <1>4, <1>5

LEMMA ValidationAdvances ==
    ASSUME PreTradeValidation
    PROVE  Advances
  <1> DEFINE verdict == ValidateCurrent
             going   == [Counted EXCEPT !.checked = verdict]
             number  == IF Reread = None THEN sequence ELSE sequence + 1
             reread  == Having(Place, TimeOfCheck, number)
  <1>1. /\ pc = "validate" /\ UNCHANGED <<fixture, pos, published, cache, run, snapshots, alerts>>
        /\ clock' = TimeOfCheck /\ sequence' = number
        /\ IF verdict.outcome = "pass" THEN Continue("alert", going) ELSE MoveOn(Counted)
        /\ records' = Append(records, Record("PRE_TRADE_VALIDATION", Strategy.name,
                                             verdict.outcome, TimeOfCheck, verdict))
    BY DEF PreTradeValidation, ReadOnly, KeepDeclared, ConsumeSequence
  <1>2. /\ Place.pc = pc /\ Bot(Place) = Strategy /\ VerdictAt(fixture, Place) = verdict
        /\ CountedAt(Place) = Counted /\ TimeAt(fixture, Place) = TimeOfCheck
        /\ NumberAfter(Place, RereadAt(fixture, Place)) = number
    BY PlaceReads DEF NumberAfter
  <1>3. Place' = IF verdict.outcome = "pass" THEN Going(reread, "alert", going)
                 ELSE MovedOn(fixture, reread, Counted)
    <2> HIDE DEF verdict, going, number
    <2>1. QED
      BY <1>1, PlaceGoes, PlaceMovesOn
  <1>4. Leads(fixture, Place, Place',
              RecordAt(fixture, Place, "PRE_TRADE_VALIDATION", Strategy.name, verdict.outcome,
                       TimeOfCheck, verdict))
    <2> HIDE DEF verdict, number
    <2>1. QED
      BY <1>1, <1>2, <1>3 DEF Leads, Validates
  <1> HIDE DEF verdict, number, reread
  <1>5. QED
    BY <1>1, <1>4, RecordingAdvances DEF RecordingStages, Processing

LEMMA CaptureAdvances ==
    ASSUME Capture
    PROVE  Advances
  <1> DEFINE snapshot == CaptureAt(Current.mint, Current.slot, Current.observed_at_ms)
             entry    == [run |-> run, pos |-> pos, event |-> frame.event, snapshot |-> snapshot]
             told     == [run |-> 0, pos |-> pos, event |-> frame.event, snapshot |-> snapshot]
             number   == IF snapshot = None THEN sequence ELSE sequence + 1
             taken    == [frame EXCEPT !.snapshot = snapshot]
  <1>1. /\ pc = "capture" /\ UNCHANGED <<sessionVars, cache, run, records, alerts>>
        /\ sequence' = number /\ Continue("captured", taken)
        /\ snapshots' = Append(snapshots, entry)
    BY DEF Capture, ConsumeSequence
  <1>2. /\ Place.pc = pc /\ Place.pos = pos /\ Place.frame = frame /\ Place.clock = clock
        /\ CapturedAt(fixture, Place) = snapshot /\ NumberAfter(Place, snapshot) = number
    BY PlaceReads DEF NumberAfter
  <1>3. entry.run = run /\ Unrun(entry) = told
    BY DEF Unrun
  <1> HIDE DEF snapshot, entry, number, taken
  <1>4. Place' = Going(Having(Place, clock, number), "captured", taken)
    BY <1>1, PlaceGoes DEF sessionVars
  <1>5. Leads(fixture, Place, Place', told)
    BY <1>1, <1>2, <1>4 DEF Leads, Captures, taken
  <1>6. Adds(snapshots, snapshots', TRUE, told)
    BY <1>1, <1>3 DEF Adds
  <1>7. QED
    BY <1>1, <1>5, <1>6 DEF Advances, Adds, RecordingStages, sessionVars

LEMMA EmitAdvances ==
    ASSUME EmitAlert
    PROVE  Advances
  <1> DEFINE told == [run |-> 0, pos |-> pos, event |-> frame.event, strategy |-> Strategy.name,
                      raised_at_ms |-> clock, score |-> frame.score,
                      snapshot |-> frame.snapshot, validation |-> frame.checked]
  <1>1. /\ pc = "alert" /\ UNCHANGED <<sessionVars, cache, sequence, run, snapshots, records>>
        /\ Continue("action", frame) /\ alerts' = Append(alerts, Alert)
    BY DEF EmitAlert
  <1>2. /\ Place.pc = pc /\ Place.pos = pos /\ Place.frame = frame /\ Place.clock = clock
        /\ Bot(Place) = Strategy
    BY PlaceReads
  <1>3. Alert.run = run /\ Unrun(Alert) = told
    BY DEF Unrun, Alert
  <1>4. Place' = Going(Place, "action", frame)
    BY <1>1, PlaceGoes DEF sessionVars
  <1>5. Leads(fixture, Place, Place', told)
    BY <1>1, <1>2, <1>4 DEF Leads, Emits
  <1>6. Adds(alerts, alerts', TRUE, told)
    BY <1>1, <1>3 DEF Adds
  <1>7. QED
    BY <1>1, <1>5, <1>6 DEF Advances, Adds, RecordingStages, sessionVars

LEMMA SourceAdvances ==
    ASSUME Observe \/ Finish
    PROVE  Advances
  <1>1. CASE Observe
    <2> DEFINE entry    == fixture[pos + 1]
               previous == CaptureKnown(entry.mint)
               merged   == [metrics |-> MergeMetrics(KnownMetrics(entry.mint), Reported(entry)),
                            last_slot       |-> entry.slot,
                            last_updated_ms |-> entry.observed_at_ms]
    <2>1. /\ pc = "source" /\ pos < Len(fixture) /\ UNCHANGED <<fixture, run, storeVars>>
          /\ pos' = pos + 1 /\ clock' = ObserveTime(clock, entry.observed_at_ms)
          /\ published' = Publish(published, entry.mint, DeclaredBy(entry))
          /\ cache' = [cache EXCEPT ![entry.mint] = merged]
          /\ sequence' = IF previous = None THEN sequence ELSE sequence + 1
          /\ IF entry.events = 0 THEN Continue("source", NoFrame)
             ELSE Continue("trigger", EventFrame(1, previous))
      BY <1>1, Zenon DEF Observe, Yield, Apply, ConsumeSequence
    <2>2. /\ Place.pc = pc /\ Place.pos = pos /\ Place.clock = clock /\ Place.cache = cache
          /\ Place.published = published
          /\ PreviousAt(Place, entry.mint) = previous
          /\ KnownAt(Place, entry.mint) = KnownMetrics(entry.mint)
          /\ NumberAfter(Place, previous) = IF previous = None THEN sequence ELSE sequence + 1
      BY PlaceReads DEF NumberAfter
    <2>3. Observes(fixture, Place, Place')
      <3>1. Place' = [pos |-> pos', clock |-> clock', published |-> published',
                      cache |-> cache', sequence |-> sequence', pc |-> pc', frame |-> frame']
        BY DEF Place
      <3>2. /\ pc' = IF entry.events = 0 THEN "source" ELSE "trigger"
            /\ frame' = IF entry.events = 0 THEN NoFrame ELSE EventFrame(1, previous)
        <4> HIDE DEF entry, previous
        <4>1. QED
          BY <2>1 DEF Continue
      <3>3. QED
        BY <2>1, <2>2, <3>1, <3>2, Zenon DEF Observes
    <2> HIDE DEF entry, previous, merged
    <2>4. QED
      BY <2>1, <2>2, <2>3 DEF Advances, Leads, Adds, RecordingStages, Processing, storeVars
  <1>2. CASE Finish
    <2>1. /\ pc = "source" /\ pos = Len(fixture) /\ Continue("done", frame)
          /\ UNCHANGED <<sessionVars, cache, sequence, run, snapshots, records, alerts>>
      BY <1>2 DEF Finish, processVars, storeVars, Continue
    <2>2. Place.pc = pc /\ Place.pos = pos /\ Place.frame = frame
      BY PlaceReads
    <2>3. Place' = Going(Place, "done", frame)
      BY <2>1, PlaceGoes DEF sessionVars
    <2>4. Leads(fixture, Place, Place', None)
      BY <2>1, <2>2, <2>3 DEF Leads
    <2>5. QED
      BY <2>1, <2>4 DEF Advances, Adds, RecordingStages, Processing, sessionVars
  <1>3. QED
    BY <1>1, <1>2

LEMMA StepAdvances == Step => Advances
  BY EventStagesAdvance, CandidateStagesAdvance, ValidationAdvances, CaptureAdvances,
     EmitAdvances, SourceAdvances DEF Step
------------------------------------------------------------------------------
(* The moments T[1], ..., T[N] of an uninterrupted run, as far as any run   *)
(* has come: each the place it is at, and what it has told by then.         *)
StartPlace ==
    [pos |-> 0, clock |-> None, published |-> [m \in Mints |-> None], cache |-> EmptyCache,
     sequence |-> 0, pc |-> "source", frame |-> NoFrame]

Plus(told, writes, x) == IF writes THEN Append(told, x) ELSE told

IsPart(s, t) == Len(s) =< Len(t) /\ \A n \in 1 .. Len(s) : s[n] = t[n]

IsBefore(t, u) ==
    /\ IsPart(t.snapshots, u.snapshots)
    /\ IsPart(t.records, u.records)
    /\ IsPart(t.alerts, u.alerts)

Follow(fx, t, u) ==
    \E told :
        /\ Leads(fx, t.place, u.place, told)
        /\ u.snapshots = Plus(t.snapshots, t.place.pc = "capture", told)
        /\ u.records = Plus(t.records, t.place.pc \in RecordingStages, told)
        /\ u.alerts = Plus(t.alerts, t.place.pc = "alert", told)

IsTrace(fx, T, N) ==
    /\ N \in Nat \ {0}
    /\ T[1] = [place |-> StartPlace, snapshots |-> <<>>, records |-> <<>>, alerts |-> <<>>]
    /\ \A n \in 1 .. N : /\ IsStore(T[n].snapshots) /\ IsStore(T[n].records)
                         /\ IsStore(T[n].alerts) /\ IsBefore(T[n], T[N])
    /\ \A n \in 1 .. N - 1 : Follow(fx, T[n], T[n + 1])

\* What the run r left in a store, in one piece behind the first b entries.
Kept(store, r, told) ==
    \E b \in Nat :
        /\ {k \in DOMAIN store : store[k].run = r} = b + 1 .. b + Len(told)
        /\ \A n \in 1 .. Len(told) : Unrun(store[b + n]) = told[n]

RunByRun(store, last) ==
    /\ IsStore(store)
    /\ \A k \in DOMAIN store : store[k].run \in 1 .. last
    /\ \A k, l \in DOMAIN store : k < l => store[k].run =< store[l].run

KeptAll(r, t) ==
    Kept(snapshots, r, t.snapshots) /\ Kept(records, r, t.records) /\ Kept(alerts, r, t.alerts)

\* The inductive invariant: all runs are somewhere on one trace, and what they
\* left is what is told up to there.
RepeatInv ==
    /\ run \in Nat \ {0}
    /\ RunByRun(snapshots, run) /\ RunByRun(records, run) /\ RunByRun(alerts, run)
    /\ \E T, N, reached :
          /\ IsTrace(fixture, T, N)
          /\ reached \in [1 .. run -> 1 .. N]
          /\ \A r \in 1 .. run : KeptAll(r, T[reached[r]])
          /\ pc # "down" => T[reached[run]].place = Place

\* Two runs that left parts of the same left the same, as far as both got.
LEMMA PartsRepeat ==
    ASSUME NEW store, NEW last \in Nat, RunByRun(store, last), NEW all, NEW told,
           \A r \in 1 .. last : Kept(store, r, told[r]) /\ IsStore(told[r]) /\ IsPart(told[r], all)
    PROVE  Repeats(store)
  <1> DEFINE Of(r) == {k \in DOMAIN store : store[k].run = r}
  <1>1. \A r \in {x.run : x \in ToSet(store)} : r \in 1 .. last /\ Of(r) # {}
    BY DEF RunByRun, IsStore, ToSet
  <1>2. ASSUME NEW r \in 1 .. last, Of(r) # {}
        PROVE  \E b \in Nat : /\ Of(r) = b + 1 .. b + Len(told[r]) /\ Min(Of(r)) = b + 1
                              /\ Len(told[r]) \in Nat
                              /\ \A n \in 1 .. Len(told[r]) : Unrun(store[b + n]) = all[n]
    <2>1. PICK b \in Nat : /\ Of(r) = b + 1 .. b + Len(told[r])
                           /\ \A n \in 1 .. Len(told[r]) : Unrun(store[b + n]) = told[r][n]
      BY DEF Kept
    <2>2. Len(told[r]) \in Nat /\ \A n \in 1 .. Len(told[r]) : told[r][n] = all[n]
      BY DEF IsStore, IsPart
    <2>3. b + 1 \in Of(r) /\ Of(r) \subseteq Int /\ \A j \in Of(r) : b + 1 =< j
      <3> HIDE DEF Of
      <3>1. QED
        BY <1>2, <2>1, <2>2
    <2>4. Min(Of(r)) = b + 1
      <3> HIDE DEF Of
      <3>1. QED
        BY <2>3, FirstIsMin
    <2>5. QED
      BY <2>1, <2>2, <2>4
  <1>3. ASSUME NEW r \in 1 .. last, NEW s \in 1 .. last, Of(r) # {}, Of(s) # {},
               NEW k \in Of(r)
        PROVE  /\ k = Min(Of(r)) \/ k - 1 \in Of(r)
               /\ k + (Min(Of(s)) - Min(Of(r))) \in Of(s) =>
                     Unrun(store[k]) = Unrun(store[k + (Min(Of(s)) - Min(Of(r)))])
    <2>1. PICK b \in Nat : /\ Of(r) = b + 1 .. b + Len(told[r]) /\ Min(Of(r)) = b + 1
                           /\ Len(told[r]) \in Nat
                           /\ \A n \in 1 .. Len(told[r]) : Unrun(store[b + n]) = all[n]
      BY <1>2, <1>3
    <2>2. PICK c \in Nat : /\ Of(s) = c + 1 .. c + Len(told[s]) /\ Min(Of(s)) = c + 1
                           /\ Len(told[s]) \in Nat
                           /\ \A n \in 1 .. Len(told[s]) : Unrun(store[c + n]) = all[n]
      BY <1>2, <1>3
    <2> DEFINE n == k - b
    <2>3. k \in b + 1 .. b + Len(told[r])
      BY <1>3, <2>1, Zenon
    <2>4. n \in 1 .. Len(told[r]) /\ k = b + n
      BY <2>1, <2>3
    <2>5. k = b + 1 \/ k - 1 \in b + 1 .. b + Len(told[r])
      BY <2>1, <2>3
    <2>6. k + (Min(Of(s)) - Min(Of(r))) = c + n
      <3> HIDE DEF Of
      <3>1. QED
        BY <2>1, <2>2, <2>3
    <2>7. ASSUME c + n \in Of(s)
          PROVE  Unrun(store[b + n]) = Unrun(store[c + n])
      <3>1. c + n \in c + 1 .. c + Len(told[s])
        BY <2>7, <2>2, Zenon
      <3>2. n \in 1 .. Len(told[s])
        BY <2>4, <3>1, <2>1, <2>2
      <3>3. Unrun(store[b + n]) = all[n] /\ Unrun(store[c + n]) = all[n]
        BY <2>1, <2>2, <2>4, <3>2, Zenon
      <3>4. QED
        BY <3>3
    <2> HIDE DEF n
    <2>8. k = Min(Of(r)) \/ k - 1 \in Of(r)
      BY <2>1, <2>5, Zenon
    <2>9. QED
      BY <2>4, <2>6, <2>7, <2>8, Zenon
  <1>4. QED
    BY <1>1, <1>3, Zenon DEF Repeats, Unrun

LEMMA RepeatInvSuffices == RepeatInv => ReplayRepeats
  <1> SUFFICES ASSUME RepeatInv
               PROVE  ReplayRepeats
    OBVIOUS
  <1>1. PICK T, N, reached :
          /\ IsTrace(fixture, T, N)
          /\ reached \in [1 .. run -> 1 .. N]
          /\ \A r \in 1 .. run : KeptAll(r, T[reached[r]])
    BY DEF RepeatInv
  <1>2. \A r \in 1 .. run :
          LET t == T[reached[r]] IN
          /\ Kept(snapshots, r, t.snapshots) /\ IsStore(t.snapshots)
          /\ IsPart(t.snapshots, T[N].snapshots)
          /\ Kept(records, r, t.records) /\ IsStore(t.records) /\ IsPart(t.records, T[N].records)
          /\ Kept(alerts, r, t.alerts) /\ IsStore(t.alerts) /\ IsPart(t.alerts, T[N].alerts)
    BY <1>1 DEF IsTrace, KeptAll, IsBefore
  <1>3. run \in Nat /\ RunByRun(snapshots, run) /\ RunByRun(records, run) /\ RunByRun(alerts, run)
    BY DEF RepeatInv
  <1> DEFINE S == [r \in 1 .. run |-> T[reached[r]].snapshots]
             R == [r \in 1 .. run |-> T[reached[r]].records]
             A == [r \in 1 .. run |-> T[reached[r]].alerts]
  <1>4. \A r \in 1 .. run :
          /\ Kept(snapshots, r, S[r]) /\ IsStore(S[r]) /\ IsPart(S[r], T[N].snapshots)
          /\ Kept(records, r, R[r]) /\ IsStore(R[r]) /\ IsPart(R[r], T[N].records)
          /\ Kept(alerts, r, A[r]) /\ IsStore(A[r]) /\ IsPart(A[r], T[N].alerts)
    BY <1>2
  <1> HIDE DEF S, R, A
  <1>5. Repeats(snapshots)
    BY <1>3, <1>4, PartsRepeat
  <1>6. Repeats(records)
    BY <1>3, <1>4, PartsRepeat
  <1>7. Repeats(alerts)
    BY <1>3, <1>4, PartsRepeat
  <1>8. QED
    BY <1>5, <1>6, <1>7 DEF ReplayRepeats

\* A store with one entry more of the last run, or none.
LEMMA StoreGainsOne ==
    ASSUME NEW store, NEW last \in Nat \ {0}, RunByRun(store, last), NEW told, IsStore(told),
           Kept(store, last, told), NEW x, x.run = last
    PROVE  /\ RunByRun(Append(store, x), last)
           /\ Kept(Append(store, x), last, Append(told, Unrun(x)))
           /\ \A r \in 1 .. last - 1 : \A t :
                 IsStore(t) /\ Kept(store, r, t) => Kept(Append(store, x), r, t)
  <1> DEFINE new   == Append(store, x)
             tale  == Append(told, Unrun(x))
             Of(r) == {k \in DOMAIN store : store[k].run = r}
             In(r) == {k \in DOMAIN new : new[k].run = r}
  <1>1. /\ IsStore(new) /\ Len(store) \in Nat /\ DOMAIN store = 1 .. Len(store)
        /\ Len(new) = Len(store) + 1 /\ DOMAIN new = 1 .. Len(store) + 1
        /\ new[Len(store) + 1] = x /\ \A i \in 1 .. Len(store) : new[i] = store[i]
    <2>1. IsStore(store)
      BY DEF RunByRun
    <2>2. /\ IsStore(new) /\ Len(new) = Len(store) + 1
          /\ new[Len(store) + 1] = x /\ \A i \in 1 .. Len(store) : new[i] = store[i]
      BY <2>1, AppendExtends
    <2> HIDE DEF new
    <2>3. QED
      BY <2>1, <2>2 DEF IsStore
  <1>2. /\ IsStore(tale) /\ Len(told) \in Nat /\ Len(tale) = Len(told) + 1
        /\ tale[Len(told) + 1] = Unrun(x) /\ \A i \in 1 .. Len(told) : tale[i] = told[i]
    <2>1. /\ IsStore(tale) /\ Len(tale) = Len(told) + 1
          /\ tale[Len(told) + 1] = Unrun(x) /\ \A i \in 1 .. Len(told) : tale[i] = told[i]
      BY AppendExtends
    <2> HIDE DEF tale
    <2>2. QED
      BY <2>1 DEF IsStore
  <1>3. /\ \A k \in 1 .. Len(store) : store[k].run \in 1 .. last
        /\ \A k, l \in 1 .. Len(store) : k < l => store[k].run =< store[l].run
    BY <1>1 DEF RunByRun
  <1> HIDE DEF new, tale
  <1>4. RunByRun(new, last)
    <2>1. \A k \in DOMAIN new : new[k].run \in 1 .. last
      BY <1>1, <1>3
    <2>2. ASSUME NEW k \in DOMAIN new, NEW l \in DOMAIN new, k < l
          PROVE  new[k].run =< new[l].run
      <3>1. CASE l = Len(store) + 1
        BY <3>1, <2>1, <1>1
      <3>2. CASE l \in 1 .. Len(store)
        BY <3>2, <2>2, <1>1, <1>3
      <3>3. QED
        BY <3>1, <3>2, <1>1
    <2>3. QED
      BY <1>1, <2>1, <2>2 DEF RunByRun
  <1>5. In(last) = Of(last) \cup {Len(store) + 1}
    BY <1>1
  <1>6. \A r \in 1 .. last - 1 : In(r) = Of(r)
    BY <1>1
  <1>7. Kept(new, last, tale)
    <2>1. PICK b \in Nat : /\ Of(last) = b + 1 .. b + Len(told)
                           /\ \A n \in 1 .. Len(told) : Unrun(store[b + n]) = told[n]
      BY DEF Kept
    <2>2. CASE Len(told) = 0
      <3>1. Of(last) = {}
        BY <2>1, <2>2
      <3>2. In(last) = Len(store) + 1 .. Len(store) + Len(tale)
        BY <1>1, <1>2, <1>5, <2>2, <3>1
      <3>3. \A n \in 1 .. Len(tale) : Unrun(new[Len(store) + n]) = tale[n]
        BY <1>1, <1>2, <2>2
      <3> HIDE DEF Of
      <3>4. Len(store) \in Nat
            /\ {k \in DOMAIN new : new[k].run = last} = Len(store) + 1 .. Len(store) + Len(tale)
        BY <1>1, <3>2, Zenon
      <3> HIDE DEF In
      <3>5. QED
        BY <3>3, <3>4 DEF Kept
    <2>3. CASE Len(told) # 0
      <3>1. b + Len(told) \in Of(last) /\ b + Len(told) \in Nat
        <4>1. b + Len(told) \in b + 1 .. b + Len(told) /\ b + Len(told) \in Nat
          BY <1>2, <2>3
        <4>2. QED
          BY <2>1, <4>1, Zenon
      <3>2. b + Len(told) = Len(store)
        <4>1. b + Len(told) \in 1 .. Len(store) /\ store[b + Len(told)].run = last
          BY <3>1, <1>1
        <4>2. Len(store) \in Of(last)
          <5>1. last =< store[Len(store)].run
            BY <4>1, <1>1, <1>3
          <5>2. store[Len(store)].run = last
            BY <5>1, <1>1, <1>3, <4>1
          <5>3. QED
            BY <5>2, <1>1, <4>1
        <4> HIDE DEF Of
        <4>3. b \in Nat /\ Len(told) \in Nat /\ Len(store) \in b + 1 .. b + Len(told)
          BY <4>2, <2>1, <1>2
        <4>4. b + Len(told) \in 1 .. Len(store) /\ Len(store) \in Nat
          BY <4>1, <1>1
        <4>5. QED
          BY <4>3, <4>4
      <3>3. In(last) = b + 1 .. b + Len(tale)
        <4> HIDE DEF Of, In
        <4>1. QED
          BY <1>1, <1>2, <1>5, <2>1, <3>2
      <3>4. ASSUME NEW n \in 1 .. Len(tale)
            PROVE  Unrun(new[b + n]) = tale[n]
        <4>1. CASE n = Len(told) + 1
          <5>1. b + n = Len(store) + 1
            BY <4>1, <3>2, <1>1, <1>2
          <5>2. QED
            BY <5>1, <4>1, <1>1, <1>2
        <4>2. CASE n \in 1 .. Len(told)
          <5>1. b + n \in 1 .. Len(store)
            BY <4>2, <3>2, <1>1, <1>2
          <5>2. QED
            BY <5>1, <4>2, <1>1, <1>2, <2>1
        <4>3. QED
          BY <4>1, <4>2, <1>2
      <3>5. QED
        BY <3>3, <3>4 DEF Kept
    <2>4. QED
      BY <2>2, <2>3
  <1>8. ASSUME NEW r \in 1 .. last - 1, NEW t, IsStore(t), Kept(store, r, t)
        PROVE  Kept(new, r, t)
    <2>1. PICK b \in Nat : /\ Of(r) = b + 1 .. b + Len(t)
                           /\ \A n \in 1 .. Len(t) : Unrun(store[b + n]) = t[n]
      BY <1>8 DEF Kept
    <2>2. In(r) = b + 1 .. b + Len(t)
      BY <1>6, <2>1
    <2>3. \A n \in 1 .. Len(t) : Unrun(new[b + n]) = t[n]
      <3>1. ASSUME NEW n \in 1 .. Len(t)
            PROVE  Unrun(new[b + n]) = t[n]
        <4>1. b + n \in Of(r)
          <5>1. Len(t) \in Nat
            BY <1>8 DEF IsStore
          <5>2. b + n \in b + 1 .. b + Len(t)
            BY <5>1, <3>1
          <5>3. QED
            BY <2>1, <5>2, Zenon
        <4>2. new[b + n] = store[b + n]
          BY <4>1, <1>1
        <4>3. QED
          BY <4>2, <2>1
      <3>2. QED
        BY <3>1
    <2>4. QED
      BY <2>2, <2>3 DEF Kept
  <1>9. QED
    BY <1>4, <1>7, <1>8 DEF new, tale

\* An entry more is a part that grew.
LEMMA PlusGrows ==
    ASSUME NEW s, IsStore(s), NEW writes, NEW x
    PROVE  /\ IsStore(Plus(s, writes, x)) /\ IsPart(s, Plus(s, writes, x))
           /\ \A t : IsPart(t, s) /\ IsStore(t) => IsPart(t, Plus(s, writes, x))
  <1>1. CASE writes
    <2> DEFINE new == Append(s, x)
    <2>1. /\ IsStore(new) /\ Len(new) = Len(s) + 1 /\ \A i \in 1 .. Len(s) : new[i] = s[i]
      BY AppendExtends
    <2>2. Plus(s, writes, x) = new
      BY <1>1 DEF Plus
    <2> HIDE DEF new
    <2>3. Len(s) \in Nat
      BY DEF IsStore
    <2>4. IsPart(s, new)
      BY <2>1, <2>3 DEF IsPart
    <2>5. \A t : IsPart(t, s) /\ IsStore(t) => IsPart(t, new)
      BY <2>1, <2>3 DEF IsPart, IsStore
    <2>6. QED
      BY <2>1, <2>2, <2>4, <2>5
  <1>2. CASE ~writes
    <2>1. Plus(s, writes, x) = s /\ Len(s) \in Nat
      BY <1>2 DEF Plus, IsStore
    <2>2. QED
      BY <2>1 DEF IsPart
  <1>3. QED
    BY <1>1, <1>2

\* Where a moment of a trace leads is on the trace, or lengthens it.
LEMMA TraceGoesOn ==
    ASSUME NEW fx, NEW T, NEW N, IsTrace(fx, T, N), NEW n \in 1 .. N,
           NEW u, Follow(fx, T[n], u),
           u = [place |-> u.place, snapshots |-> u.snapshots,
                records |-> u.records, alerts |-> u.alerts]
    PROVE  \E U, M : /\ IsTrace(fx, U, M) /\ N =< M /\ n + 1 \in 1 .. M
                     /\ \A k \in 1 .. N : U[k] = T[k]
                     /\ U[n + 1].place = u.place /\ U[n + 1].snapshots = u.snapshots
                     /\ U[n + 1].records = u.records /\ U[n + 1].alerts = u.alerts
  <1>1. /\ N \in Nat \ {0}
        /\ \A k \in 1 .. N : /\ IsStore(T[k].snapshots) /\ IsStore(T[k].records)
                             /\ IsStore(T[k].alerts) /\ IsBefore(T[k], T[N])
        /\ \A k \in 1 .. N - 1 : Follow(fx, T[k], T[k + 1])
    BY DEF IsTrace
  <1>2. CASE n < N
    <2>1. Follow(fx, T[n], T[n + 1]) /\ n + 1 \in 1 .. N /\ N =< N
      BY <1>1, <1>2
    <2>2. PICK tale : /\ Leads(fx, T[n].place, T[n + 1].place, tale)
                      /\ T[n + 1].snapshots = Plus(T[n].snapshots, T[n].place.pc = "capture", tale)
                      /\ T[n + 1].records = Plus(T[n].records, T[n].place.pc \in RecordingStages, tale)
                      /\ T[n + 1].alerts = Plus(T[n].alerts, T[n].place.pc = "alert", tale)
      BY <2>1 DEF Follow
    <2>3. PICK told : /\ Leads(fx, T[n].place, u.place, told)
                      /\ u.snapshots = Plus(T[n].snapshots, T[n].place.pc = "capture", told)
                      /\ u.records = Plus(T[n].records, T[n].place.pc \in RecordingStages, told)
                      /\ u.alerts = Plus(T[n].alerts, T[n].place.pc = "alert", told)
      BY DEF Follow
    <2>4. T[n + 1].place = u.place /\ tale = told
      BY <2>2, <2>3, LeadsOnce
    <2>5. QED
      BY <2>1, <2>2, <2>3, <2>4
  <1>3. CASE n = N
    <2> DEFINE U == [k \in 1 .. N + 1 |-> IF k =< N THEN T[k] ELSE u]
    <2>1. /\ \A k \in 1 .. N : U[k] = T[k]
          /\ U[N + 1] = u /\ N + 1 \in Nat \ {0} /\ N + 1 \in 1 .. N + 1 /\ N =< N + 1
      BY <1>1
    <2> HIDE DEF U
    <2>2. PICK told : /\ u.snapshots = Plus(T[N].snapshots, T[N].place.pc = "capture", told)
                      /\ u.records = Plus(T[N].records, T[N].place.pc \in RecordingStages, told)
                      /\ u.alerts = Plus(T[N].alerts, T[N].place.pc = "alert", told)
      BY <1>3 DEF Follow
    <2>3. N \in 1 .. N /\ IsStore(T[N].snapshots) /\ IsStore(T[N].records) /\ IsStore(T[N].alerts)
      BY <1>1
    <2>4. IsStore(u.snapshots) /\ IsStore(u.records) /\ IsStore(u.alerts)
      BY <2>2, <2>3, PlusGrows
    <2>5. ASSUME NEW k \in 1 .. N
          PROVE  IsBefore(T[k], u)
      <3>1. /\ IsStore(T[k].snapshots) /\ IsPart(T[k].snapshots, T[N].snapshots)
            /\ IsStore(T[k].records) /\ IsPart(T[k].records, T[N].records)
            /\ IsStore(T[k].alerts) /\ IsPart(T[k].alerts, T[N].alerts)
        BY <1>1 DEF IsBefore
      <3>2. QED
        BY <3>1, <2>2, <2>3, PlusGrows DEF IsBefore
    <2>6. IsBefore(u, u)
      BY <2>4 DEF IsBefore, IsPart, IsStore
    <2>7. ASSUME NEW k \in 1 .. N + 1
          PROVE  /\ IsStore(U[k].snapshots) /\ IsStore(U[k].records)
                 /\ IsStore(U[k].alerts) /\ IsBefore(U[k], U[N + 1])
      <3>1. CASE k = N + 1
        BY <3>1, <2>1, <2>4, <2>6
      <3>2. CASE k \in 1 .. N
        BY <3>2, <2>1, <2>5, <1>1
      <3>3. QED
        BY <3>1, <3>2, <1>1
    <2>8. ASSUME NEW k \in 1 .. N + 1 - 1
          PROVE  Follow(fx, U[k], U[k + 1])
      <3>1. CASE k = N
        BY <3>1, <2>1, <2>3, <1>3
      <3>2. CASE k \in 1 .. N - 1
        <4>1. U[k] = T[k] /\ U[k + 1] = T[k + 1]
          BY <3>2, <2>1, <1>1
        <4>2. QED
          BY <4>1, <3>2, <1>1
      <3>3. QED
        BY <3>1, <3>2, <1>1
    <2>9. U[1] = T[1]
      BY <2>1, <1>1
    <2>10. IsTrace(fx, U, N + 1)
      BY <2>1, <2>7, <2>8, <2>9 DEF IsTrace
    <2>11. QED
      BY <2>1, <2>10, <1>3
  <1>4. QED
    BY <1>1, <1>2, <1>3

\* Nothing has been told of a run that is only beginning.
LEMMA NothingKept ==
    ASSUME NEW store, NEW last \in Nat, RunByRun(store, last)
    PROVE  /\ Kept(store, last + 1, <<>>)
           /\ RunByRun(store, last + 1)
  <1>1. {k \in DOMAIN store : store[k].run = last + 1} = 0 + 1 .. 0 + Len(<<>>)
    BY DEF RunByRun
  <1>2. Kept(store, last + 1, <<>>)
    BY <1>1 DEF Kept
  <1>3. RunByRun(store, last + 1)
    BY DEF RunByRun
  <1>4. QED
    BY <1>2, <1>3

\* What a step adds to a store, of all runs.
LEMMA StoreGains ==
    ASSUME run \in Nat \ {0}, NEW store, RunByRun(store, run), NEW new, NEW writes, NEW x,
           Adds(store, new, writes, x), NEW told, IsStore(told), Kept(store, run, told)
    PROVE  /\ RunByRun(new, run)
           /\ Kept(new, run, Plus(told, writes, x))
           /\ \A r \in 1 .. run - 1 : \A t : IsStore(t) /\ Kept(store, r, t) => Kept(new, r, t)
  <1>1. CASE writes
    <2>1. PICK y : new = Append(store, y) /\ y.run = run /\ Unrun(y) = x
      BY <1>1 DEF Adds
    <2>2. Plus(told, writes, x) = Append(told, Unrun(y))
      BY <1>1, <2>1 DEF Plus
    <2>3. QED
      BY <2>1, <2>2, StoreGainsOne
  <1>2. CASE ~writes
    BY <1>2 DEF Adds, Plus
  <1>3. QED
    BY <1>1, <1>2

LEMMA AdvancesRepeats ==
    ASSUME RepeatInv, Advances
    PROVE  RepeatInv'
  <1>1. PICK told :
          /\ Leads(fixture, Place, Place', told)
          /\ Adds(snapshots, snapshots', pc = "capture", told)
          /\ Adds(records, records', pc \in RecordingStages, told)
          /\ Adds(alerts, alerts', pc = "alert", told)
          /\ fixture' = fixture /\ run' = run
    BY DEF Advances
  <1>2. PICK T, N, reached :
          /\ IsTrace(fixture, T, N)
          /\ reached \in [1 .. run -> 1 .. N]
          /\ \A r \in 1 .. run : KeptAll(r, T[reached[r]])
          /\ pc # "down" => T[reached[run]].place = Place
    BY DEF RepeatInv
  <1>3. /\ run \in Nat \ {0} /\ run \in 1 .. run
        /\ RunByRun(snapshots, run) /\ RunByRun(records, run) /\ RunByRun(alerts, run)
    BY DEF RepeatInv
  <1>4. Place.pc = pc /\ pc # "down"
    BY <1>1 DEF Leads, Place
  <1> DEFINE n == reached[run]
             t == T[n]
             u == [place |-> Place', snapshots |-> Plus(t.snapshots, pc = "capture", told),
                   records |-> Plus(t.records, pc \in RecordingStages, told),
                   alerts |-> Plus(t.alerts, pc = "alert", told)]
  <1>5. n \in 1 .. N /\ t.place = Place /\ N \in Nat \ {0}
    BY <1>2, <1>3, <1>4 DEF IsTrace
  <1>6. /\ u.place = Place' /\ u.snapshots = Plus(t.snapshots, pc = "capture", told)
        /\ u.records = Plus(t.records, pc \in RecordingStages, told)
        /\ u.alerts = Plus(t.alerts, pc = "alert", told)
        /\ u = [place |-> u.place, snapshots |-> u.snapshots,
                records |-> u.records, alerts |-> u.alerts]
    OBVIOUS
  <1> HIDE DEF u
  <1>7. Follow(fixture, t, u)
    BY <1>1, <1>4, <1>5, <1>6 DEF Follow
  <1>8. PICK U, M : /\ IsTrace(fixture, U, M) /\ N =< M /\ n + 1 \in 1 .. M
                    /\ \A k \in 1 .. N : U[k] = T[k]
                    /\ U[n + 1].place = u.place /\ U[n + 1].snapshots = u.snapshots
                    /\ U[n + 1].records = u.records /\ U[n + 1].alerts = u.alerts
    BY <1>2, <1>5, <1>7, <1>6, TraceGoesOn
  <1>9. \A r \in 1 .. run :
          /\ reached[r] \in 1 .. N
          /\ IsStore(T[reached[r]].snapshots) /\ Kept(snapshots, r, T[reached[r]].snapshots)
          /\ IsStore(T[reached[r]].records) /\ Kept(records, r, T[reached[r]].records)
          /\ IsStore(T[reached[r]].alerts) /\ Kept(alerts, r, T[reached[r]].alerts)
    BY <1>2 DEF IsTrace, KeptAll
  <1>10. /\ RunByRun(snapshots', run) /\ Kept(snapshots', run, u.snapshots)
         /\ \A r \in 1 .. run - 1 : Kept(snapshots', r, T[reached[r]].snapshots)
    BY <1>1, <1>3, <1>6, <1>9, StoreGains
  <1>11. /\ RunByRun(records', run) /\ Kept(records', run, u.records)
         /\ \A r \in 1 .. run - 1 : Kept(records', r, T[reached[r]].records)
    BY <1>1, <1>3, <1>6, <1>9, StoreGains
  <1>12. /\ RunByRun(alerts', run) /\ Kept(alerts', run, u.alerts)
         /\ \A r \in 1 .. run - 1 : Kept(alerts', r, T[reached[r]].alerts)
    BY <1>1, <1>3, <1>6, <1>9, StoreGains
  <1>13. PICK further : /\ further \in [1 .. run -> 1 .. M] /\ further[run] = n + 1
                        /\ \A r \in 1 .. run - 1 : further[r] = reached[r]
    <2> DEFINE f == [r \in 1 .. run |-> IF r = run THEN n + 1 ELSE reached[r]]
    <2> HIDE DEF n
    <2>1. M \in Nat
      BY <1>8 DEF IsTrace
    <2>2. /\ f \in [1 .. run -> 1 .. M] /\ f[run] = n + 1
          /\ \A r \in 1 .. run - 1 : f[r] = reached[r]
      BY <1>3, <1>5, <1>8, <1>9, <2>1
    <2> HIDE DEF f
    <2>3. QED
      BY <2>2
  <1>14. ASSUME NEW r \in 1 .. run
         PROVE  KeptAll(r, U[further[r]])'
    <2>1. CASE r = run
      BY <2>1, <1>8, <1>10, <1>11, <1>12, <1>13 DEF KeptAll
    <2>2. CASE r # run
      <3>1. r \in 1 .. run - 1 /\ U[further[r]] = T[reached[r]]
        BY <2>2, <1>3, <1>8, <1>9, <1>13
      <3>2. QED
        BY <3>1, <1>10, <1>11, <1>12 DEF KeptAll
    <2>3. QED
      BY <2>1, <2>2
  <1>15. U[further[run]].place = Place'
    BY <1>6, <1>8, <1>13
  <1>16. QED
    BY <1>1, <1>3, <1>8, <1>10, <1>11, <1>12, <1>13, <1>14, <1>15 DEF RepeatInv

LEMMA OtherStepsRepeat ==
    ASSUME RepeatInv, Crash \/ Boot \/ UNCHANGED vars
    PROVE  RepeatInv'
  <1>1. PICK T, N, reached :
          /\ IsTrace(fixture, T, N)
          /\ reached \in [1 .. run -> 1 .. N]
          /\ \A r \in 1 .. run : KeptAll(r, T[reached[r]])
          /\ pc # "down" => T[reached[run]].place = Place
    BY DEF RepeatInv
  <1>2. /\ run \in Nat \ {0}
        /\ RunByRun(snapshots, run) /\ RunByRun(records, run) /\ RunByRun(alerts, run)
    BY DEF RepeatInv
  <1>3. UNCHANGED <<fixture, snapshots, records, alerts>>
    BY DEF Crash, Boot, Reopen, vars, sessionVars, storeVars
  <1>4. CASE Crash \/ UNCHANGED vars
    <2>1. run' = run /\ (pc' # "down" => UNCHANGED <<pc, Place>>)
      BY <1>4 DEF Crash, vars, Place
    <2>2. QED
      BY <1>1, <1>2, <1>3, <2>1 DEF RepeatInv, KeptAll
  <1>5. CASE Boot
    <2> DEFINE further == [r \in 1 .. run + 1 |-> IF r =< run THEN reached[r] ELSE 1]
    <2>1. run' = run + 1 /\ Place' = StartPlace
      BY <1>5 DEF Boot, Reopen, Place, StartPlace
    <2>2. /\ N \in Nat \ {0}
          /\ T[1] = [place |-> StartPlace, snapshots |-> <<>>, records |-> <<>>, alerts |-> <<>>]
      BY <1>1 DEF IsTrace
    <2>3. /\ further \in [1 .. run + 1 -> 1 .. N] /\ further[run + 1] = 1
          /\ \A r \in 1 .. run : further[r] = reached[r]
      BY <1>1, <1>2, <2>2
    <2> HIDE DEF further
    <2>4. /\ RunByRun(snapshots, run + 1) /\ Kept(snapshots, run + 1, <<>>)
          /\ RunByRun(records, run + 1) /\ Kept(records, run + 1, <<>>)
          /\ RunByRun(alerts, run + 1) /\ Kept(alerts, run + 1, <<>>)
      BY <1>2, NothingKept
    <2>5. ASSUME NEW r \in 1 .. run + 1
          PROVE  KeptAll(r, T[further[r]])
      <3>1. CASE r = run + 1
        BY <3>1, <2>2, <2>3, <2>4 DEF KeptAll
      <3>2. CASE r \in 1 .. run
        BY <3>2, <2>3, <1>1
      <3>3. QED
        BY <3>1, <3>2, <1>2
    <2>6. T[further[run + 1]].place = StartPlace
      BY <2>2, <2>3
    <2>7. run + 1 \in Nat \ {0}
      BY <1>2
    <2>8. QED
      BY <1>1, <1>3, <2>1, <2>3, <2>4, <2>5, <2>6, <2>7 DEF RepeatInv, KeptAll
  <1>6. QED
    BY <1>4, <1>5

LEMMA RepeatStarts == Init => RepeatInv
  <1> SUFFICES ASSUME Init
               PROVE  RepeatInv
    OBVIOUS
  <1>1. /\ run = 1 /\ snapshots = <<>> /\ records = <<>> /\ alerts = <<>>
        /\ Place = StartPlace
    BY DEF Init, SessionInit, Opened, Place, StartPlace
  <1> DEFINE start   == [place |-> StartPlace, snapshots |-> <<>>, records |-> <<>>, alerts |-> <<>>]
             T       == [k \in 1 .. 1 |-> start]
             reached == [r \in 1 .. 1 |-> 1]
  <1>2. IsStore(<<>>) /\ IsPart(<<>>, <<>>) /\ RunByRun(<<>>, 1) /\ Kept(<<>>, 1, <<>>)
    <2>1. {k \in DOMAIN <<>> : <<>>[k].run = 1} = 0 + 1 .. 0 + Len(<<>>)
      OBVIOUS
    <2>2. QED
      BY <2>1 DEF IsStore, IsPart, RunByRun, Kept
  <1>3. IsTrace(fixture, T, 1)
    BY <1>2 DEF IsTrace, IsBefore
  <1>4. \A r \in 1 .. 1 : KeptAll(r, T[reached[r]])
    BY <1>1, <1>2 DEF KeptAll
  <1>5. reached \in [1 .. 1 -> 1 .. 1] /\ T[reached[1]].place = Place
    BY <1>1
  <1> HIDE DEF T, reached
  <1>6. \E U, M, r : /\ IsTrace(fixture, U, M) /\ r \in [1 .. 1 -> 1 .. M]
                     /\ \A k \in 1 .. 1 : KeptAll(k, U[r[k]])
                     /\ U[r[1]].place = Place
    BY <1>3, <1>4, <1>5
  <1>7. QED
    BY <1>1, <1>2, <1>6 DEF RepeatInv

\* However often the command is run on a fixture, and wherever its runs stop,
\* whatever two of them both got to they left identically in both stores and
\* the sink (runner.py: identifiers are derived deterministically).
THEOREM RunsRepeatEachOther == Spec => []ReplayRepeats
  <1>1. Init => RepeatInv
    BY RepeatStarts
  <1>2. RepeatInv /\ [Next]_vars => RepeatInv'
    BY StepAdvances, AdvancesRepeats, OtherStepsRepeat DEF Next
  <1>3. RepeatInv => ReplayRepeats
    BY RepeatInvSuffices
  <1>4. QED
    BY <1>1, <1>2, <1>3, PTL DEF Spec
=============================================================================
