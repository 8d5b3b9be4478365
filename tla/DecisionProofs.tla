---------------------------- MODULE DecisionProofs ---------------------------
(****************************************************************************)
(* The pipeline implements the decision protocol, for every deployment;     *)
(* and what stands on record of the events and strategies it went through:  *)
(* every trail is canonical, every bot that had its turn is concluded once, *)
(* and every alert of a run that went on is told of by one ACTION record.   *)
(****************************************************************************)
EXTENDS PipelineProofs, FiniteSetTheorems

\* A candidacy of an event that is over...
OfEarlierEvent(k) ==
    \/ k.run < run
    \/ k.run = run /\ k.pos < pos
    \/ k.run = run /\ k.pos = pos /\ (pc \in Processing => k.event < frame.event)

\* ... or of the current event and a bot that had its turn.
OfEarlierBot(k) ==
    /\ k.run = run /\ k.pos = pos
    /\ pc \in Processing /\ k.event = frame.event
    /\ \E b \in 1 .. frame.bot - 1 : k.strategy = Bots[b].name

Settled(k) == OfEarlierEvent(k) \/ OfEarlierBot(k)

IsCandidacy(k) == k.run \in Nat /\ k.pos \in Nat /\ k.event \in Nat

\* The inductive invariant: stores and sink only tell of candidacies that are
\* settled, and of the current one as far as it has come.
DecisionInv ==
    /\ IsStore(records) /\ IsStore(alerts)
    /\ \A k \in Concluded : IsCandidacy(k) /\ Settled(k)
    /\ \A k \in Approved :
          IsCandidacy(k) /\ (Settled(k) \/ (pc \in {"alert", "action"} /\ k = Candidacy))
    /\ \A k \in ToSet(Raised) :
          IsCandidacy(k) /\ (Settled(k) \/ (pc = "action" /\ k = Candidacy))
    /\ pc = "alert" => Candidacy \in Approved
    /\ pc = "action" => Candidacy \in ToSet(Raised)
    /\ pc # "down" => \A k \in Approved : k.run = run =>
          k \in Concluded \/ (pc \in {"alert", "action"} /\ k = Candidacy)

\* What the alerts say of candidacies.
LEMMA RaisedKeys ==
    ASSUME IsStore(alerts)
    PROVE  /\ ToSet(Raised) = {CandidacyOf(a) : a \in ToSet(alerts)}
           /\ IsStore(Raised) /\ Len(Raised) = Len(alerts) /\ DOMAIN Raised = 1 .. Len(alerts)
  <1>1. DOMAIN alerts = 1 .. Len(alerts) /\ Len(alerts) \in Nat
    BY DEF IsStore
  <1>2. DOMAIN Raised = 1 .. Len(alerts) /\ \A i \in 1 .. Len(alerts) : Raised[i] = CandidacyOf(alerts[i])
    BY <1>1 DEF Raised
  <1>3. ToSet(Raised) = {CandidacyOf(a) : a \in ToSet(alerts)}
    BY <1>1, <1>2, Zenon DEF ToSet
  <1> DEFINE S == {Raised[i] : i \in 1 .. Len(alerts)}
  <1>4. Raised \in [1 .. Len(alerts) -> S]
    BY <1>2 DEF Raised
  <1>5. Raised \in Seq(S) /\ Len(Raised) = Len(alerts)
    <2> HIDE DEF S
    <2>1. Raised \in Seq(S)
      BY <1>1, <1>4
    <2>2. QED
      BY <1>1, <1>2, <2>1
  <1>6. QED
    BY <1>1, <1>2, <1>3, <1>4, <1>5 DEF IsStore

\* A record more says of candidacies what the record says.
LEMMA RecordTells ==
    ASSUME IsStore(records), NEW r, records' = Append(records, r)
    PROVE  /\ IsStore(records')
           /\ Concluded' = Concluded \cup (IF EndsStrategy(r) THEN {CandidacyOf(r)} ELSE {})
           /\ Approved' = Approved \cup
                 (IF r.stage = "PRE_TRADE_VALIDATION" /\ r.outcome = "pass"
                     THEN {CandidacyOf(r)} ELSE {})
  <1>1. IsStore(records') /\ ToSet(records') = ToSet(records) \cup {r}
    BY AppendAdds
  <1>2. Concluded' = {CandidacyOf(x) : x \in {y \in ToSet(records) \cup {r} : EndsStrategy(y)}}
    BY <1>1 DEF Concluded, CandidacyOf, EndsStrategy
  <1>3. Approved' = {CandidacyOf(x) : x \in {y \in ToSet(records) \cup {r} :
                        y.stage = "PRE_TRADE_VALIDATION" /\ y.outcome = "pass"}}
    BY <1>1 DEF Approved, CandidacyOf
  <1>4. QED
    BY <1>1, <1>2, <1>3 DEF Concluded, Approved

\* When an event or a strategy ends, what was settled stays settled and the
\* candidacy it was about is settled too.
LEMMA MoveOnSettles ==
    ASSUME TypeOK, pc \in Processing, MoveOn(Counted), UNCHANGED <<pos, run>>,
           NEW k, IsCandidacy(k),
           Settled(k) \/ (pc \in BotStages /\ k = Candidacy)
    PROVE  Settled(k)'
  <1>0. /\ IsFrame(Counted) /\ Counted.event = frame.event /\ Counted.bot = frame.bot
        /\ run \in Int /\ pos \in Int /\ frame.event \in Nat /\ frame.bot \in 0 .. Len(Bots)
        /\ pc \in BotStages => frame.bot > 0
    BY CountedStage, CurrentEntry, ClockIsSet, MaxRunsAssumption DEF TypeOK, IsFrame
  <1>b. Len(Bots) \in Nat
    BY BotsAssumption
  <1>s. k = Candidacy => /\ k.run = run /\ k.pos = pos /\ k.event = frame.event
                         /\ k.strategy = Bots[frame.bot].name
    BY DEF Candidacy, Strategy
  <1> HIDE DEF Counted
  <1>1. CASE Counted.bot < Len(Bots)
    <2>1. pc' = "filter" /\ frame'.event = frame.event /\ frame'.bot = frame.bot + 1
      BY <1>0, <1>1 DEF MoveOn, Continue, IsFrame
    <2>2. pc' \in Processing
      BY <2>1 DEF Processing
    <2>3. CASE OfEarlierEvent(k)
      BY <2>1, <2>2, <2>3 DEF OfEarlierEvent, Settled
    <2>4. CASE OfEarlierBot(k)
      <3>1. PICK b \in 1 .. frame.bot - 1 : k.strategy = Bots[b].name
        BY <2>4 DEF OfEarlierBot
      <3>2. b \in 1 .. frame'.bot - 1
        BY <1>0, <2>1
      <3>3. QED
        BY <2>1, <2>2, <2>4, <3>1, <3>2 DEF OfEarlierBot, Settled
    <2>5. CASE pc \in BotStages /\ k = Candidacy
      <3>1. frame.bot \in 1 .. frame'.bot - 1
        BY <1>0, <2>1, <2>5
      <3>2. QED
        BY <1>s, <2>1, <2>2, <2>5, <3>1 DEF OfEarlierBot, Settled
    <2>6. QED
      BY <2>3, <2>4, <2>5 DEF Settled
  <1>2. CASE ~(Counted.bot < Len(Bots)) /\ Counted.event < Current.events
    <2>1. pc' = "trigger" /\ frame'.event = frame.event + 1
      BY <1>0, <1>2 DEF MoveOn, NextEvent, Continue, EventFrame
    <2>2. \/ k.run < run
          \/ k.run = run /\ k.pos < pos
          \/ k.run = run /\ k.pos = pos /\ k.event =< frame.event
      BY <1>0, <1>s DEF Settled, OfEarlierEvent, OfEarlierBot, IsCandidacy
    <2>3. QED
      BY <1>0, <2>1, <2>2 DEF Settled, OfEarlierEvent, IsCandidacy
  <1>3. CASE ~(Counted.bot < Len(Bots)) /\ ~(Counted.event < Current.events)
    <2>1. pc' = "source"
      BY <1>3 DEF MoveOn, NextEvent, Continue
    <2>2. pc' \notin Processing
      BY <2>1 DEF Processing
    <2>3. \/ k.run < run
          \/ k.run = run /\ k.pos < pos
          \/ k.run = run /\ k.pos = pos
      BY <1>s DEF Settled, OfEarlierEvent, OfEarlierBot
    <2>4. QED
      BY <2>2, <2>3 DEF Settled, OfEarlierEvent
  <1>4. QED
    BY <1>1, <1>2, <1>3

\* A stage that goes on to the next settles nothing.
LEMMA GoingOnKeeps ==
    ASSUME pc \in Processing, pc' \in Processing, UNCHANGED <<pos, run>>,
           frame'.event = frame.event, frame'.bot = frame.bot
    PROVE  /\ \A k : Settled(k)' <=> Settled(k)
           /\ Candidacy' = Candidacy
  BY DEF Settled, OfEarlierEvent, OfEarlierBot, Candidacy, Strategy

\* The current candidacy is not settled before its strategy moves on.
LEMMA CurrentIsNotSettled ==
    ASSUME TypeOK, pc \in BotStages
    PROVE  ~Settled(Candidacy) /\ IsCandidacy(Candidacy)
  <1>1. pc \in Processing /\ frame.bot \in 1 .. Len(Bots) /\ Len(Bots) \in Nat
        /\ run \in Nat /\ pos \in Nat /\ frame.event \in Nat
    <2>1. pc \in Processing
      BY DEF BotStages, Processing
    <2>2. QED
      BY <2>1, CountedStage, ClockIsSet, CurrentEntry, BotsAssumption, MaxRunsAssumption, SMTT(30)
         DEF TypeOK, IsFrame, BotStages
  <1>2. /\ Candidacy.run = run /\ Candidacy.pos = pos /\ Candidacy.event = frame.event
        /\ Candidacy.strategy = Bots[frame.bot].name
    BY DEF Candidacy, Strategy
  <1>3. ~OfEarlierEvent(Candidacy)
    BY <1>1, <1>2 DEF OfEarlierEvent
  <1>4. ~OfEarlierBot(Candidacy)
    <2>1. SUFFICES ASSUME NEW b \in 1 .. frame.bot - 1, Bots[frame.bot].name = Bots[b].name
                   PROVE  FALSE
      BY <1>2 DEF OfEarlierBot
    <2>2. b \in DOMAIN Bots /\ frame.bot \in DOMAIN Bots /\ b # frame.bot
      BY <1>1, BotsAssumption
    <2>3. QED
      BY <2>1, <2>2, BotNamesAssumption
  <1>5. QED
    BY <1>1, <1>2, <1>3, <1>4 DEF Settled, IsCandidacy

\* The current candidacy is one of those a bot can look at.
LEMMA CurrentIsACandidacy ==
    ASSUME TypeOK, pc \in BotStages
    PROVE  Candidacy \in Candidacies
  <1>1. pc \in Processing
    BY DEF BotStages, Processing
  <1>2. /\ frame.bot \in DOMAIN Bots /\ run \in 1 .. MaxRuns
        /\ pos \in 1 .. Len(fixture) /\ fixture \in Fixtures
        /\ frame.event \in 1 .. fixture[pos].events
    BY <1>1, CountedStage, ClockIsSet, CurrentEntry, BotsAssumption
       DEF TypeOK, SessionTypeOK, IsFrame, Current
  <1>3. DOMAIN fixture = 1 .. Len(fixture)
    BY <1>2, FixturesAssumption DEF IsFixture
  <1>4. pos \in UNION {DOMAIN fx : fx \in Fixtures}
    BY <1>2, <1>3
  <1>5. frame.event \in UNION {UNION {1 .. fx[i].events : i \in DOMAIN fx} : fx \in Fixtures}
    BY <1>2, <1>3
  <1>6. Strategy.name \in {Bots[b].name : b \in DOMAIN Bots}
    BY <1>2 DEF Strategy
  <1>7. QED
    BY <1>2, <1>4, <1>5, <1>6 DEF Candidacy, Candidacies

\* It is its turn: nothing later was looked at, and nothing of its run is
\* approved and not concluded.
LEMMA CurrentIsInTurn ==
    ASSUME TypeOK, DecisionInv, pc \in BotStages
    PROVE  Decisions!InTurn(Candidacy)
  <1>1. /\ pc \in Processing /\ pc # "down"
        /\ run \in Nat /\ pos \in Nat /\ frame.event \in Nat
    <2>1. pc \in Processing /\ pc # "down"
      BY DEF BotStages, Processing
    <2>2. QED
      BY <2>1, ClockIsSet, CurrentEntry, MaxRunsAssumption DEF TypeOK, IsFrame
  <1>2. Candidacy.run = run /\ Candidacy.pos = pos /\ Candidacy.event = frame.event
    BY DEF Candidacy
  <1>3. ASSUME NEW j, IsCandidacy(j), Settled(j) \/ j = Candidacy
        PROVE  ~Decisions!IsBefore(Candidacy, j)
    <2>1. \/ j.run < run
          \/ j.run = run /\ j.pos < pos
          \/ j.run = run /\ j.pos = pos /\ j.event =< frame.event
      BY <1>1, <1>2, <1>3 DEF Settled, OfEarlierEvent, OfEarlierBot, IsCandidacy
    <2>2. QED
      BY <1>1, <1>2, <1>3, <2>1 DEF Decisions!IsBefore, IsCandidacy
  <1>4. \A j \in Approved \cup Concluded : IsCandidacy(j) /\ (Settled(j) \/ j = Candidacy)
    BY DEF DecisionInv
  <1>5. \A j \in Approved \cup Concluded : j.run = run => j \in Concluded \/ j = Candidacy
    BY <1>1 DEF DecisionInv
  <1>6. QED
    BY <1>2, <1>3, <1>4, <1>5 DEF Decisions!InTurn

\* What a record of the current stage does to the stores of candidacies.
LEMMA StrategyRecord ==
    ASSUME NEW stage, NEW outcome, NEW now, NEW detail
    PROVE  LET r == Record(stage, Strategy.name, outcome, now, detail) IN
           /\ CandidacyOf(r) = Candidacy
           /\ r.stage = stage /\ r.outcome = outcome
           /\ EndsStrategy(r) <=>
                 \/ stage = "ACTION"
                 \/ outcome \in {"rejected", "module_not_implemented", "reject",
                                 "not_configured", "cancelled"}
  BY DEF Record, CandidacyOf, Candidacy, EndsStrategy

\* A strategy advances, rejects, or is not configured to decide.
LEMMA DecisionOutcomes ==
    ASSUME NEW strategy, NEW candidate, NEW features
    PROVE  Evaluate(strategy, candidate, features).outcome
              \in {"advance", "reject", "not_configured"}
  BY DEF Evaluate, EvaluateBotA, EvaluateBotB, ThresholdDecision

\* A stage of a strategy records that it goes on.
LEMMA RecordsGoingOn ==
    ASSUME TypeOK, DecisionInv, pc \in {"filter", "analysis", "scoring"},
           NEW stage, NEW outcome, NEW now, NEW detail,
           stage # "ACTION", stage # "PRE_TRADE_VALIDATION",
           outcome \in {"accepted", "analyzed", "advance"},
           records' = Append(records, Record(stage, Strategy.name, outcome, now, detail)),
           pc' \in {"analysis", "scoring", "validate"},
           frame'.event = frame.event, frame'.bot = frame.bot,
           UNCHANGED <<pos, run, alerts>>
    PROVE  DecisionInv' /\ UNCHANGED <<Approved, Raised, Concluded>>
  <1> DEFINE r == Record(stage, Strategy.name, outcome, now, detail)
  <1>1. /\ ~EndsStrategy(r) /\ r.stage # "PRE_TRADE_VALIDATION"
    BY StrategyRecord
  <1> HIDE DEF r
  <1>2. IsStore(records') /\ Concluded' = Concluded /\ Approved' = Approved
    BY <1>1, RecordTells DEF r, DecisionInv
  <1>3. Raised' = Raised
    BY DEF Raised
  <1>4. (\A k : Settled(k)' <=> Settled(k)) /\ Candidacy' = Candidacy
    BY GoingOnKeeps DEF Processing
  <1>5. pc \notin {"alert", "action", "down"} /\ pc' \notin {"alert", "action", "down"}
    OBVIOUS
  <1>6. QED
    BY <1>2, <1>3, <1>4, <1>5 DEF DecisionInv, IsCandidacy, IsStore

\* A stage of a strategy records its end.
LEMMA RecordsItsEnd ==
    ASSUME TypeOK, DecisionInv, pc \in BotStages, pc # "alert",
           NEW stage, NEW outcome, NEW now, NEW detail,
           stage = "PRE_TRADE_VALIDATION" => outcome # "pass",
           stage = "ACTION" \/
              outcome \in {"rejected", "module_not_implemented", "reject",
                           "not_configured", "cancelled"},
           records' = Append(records, Record(stage, Strategy.name, outcome, now, detail)),
           MoveOn(Counted),
           UNCHANGED <<fixture, pos, run, alerts>>
    PROVE  DecisionInv' /\ [Decisions!DecisionNext]_<<Approved, Raised, Concluded>>
  <1> DEFINE r == Record(stage, Strategy.name, outcome, now, detail)
  <1>1. /\ EndsStrategy(r) /\ CandidacyOf(r) = Candidacy
        /\ ~(r.stage = "PRE_TRADE_VALIDATION" /\ r.outcome = "pass")
    BY StrategyRecord
  <1> HIDE DEF r
  <1>2. /\ IsStore(records') /\ Concluded' = Concluded \cup {Candidacy}
        /\ Approved' = Approved
    BY <1>1, RecordTells DEF r, DecisionInv
  <1>3. Raised' = Raised
    BY DEF Raised
  <1>4. ~Settled(Candidacy) /\ IsCandidacy(Candidacy)
    BY CurrentIsNotSettled
  <1>5. pc \in Processing
    BY DEF BotStages, Processing
  <1>6. \A k : IsCandidacy(k) /\ (Settled(k) \/ k = Candidacy) => Settled(k)'
    BY <1>5, MoveOnSettles
  <1>7. pc' \notin {"alert", "action", "down"}
    BY DEF MoveOn, NextEvent, Continue
  <1>8. DecisionInv'
    <2>1. \A k \in Concluded' : IsCandidacy(k) /\ Settled(k)'
      BY <1>2, <1>4, <1>6 DEF DecisionInv
    <2>2. \A k \in Approved' : IsCandidacy(k) /\ Settled(k)'
      BY <1>2, <1>4, <1>6 DEF DecisionInv
    <2>3. \A k \in ToSet(Raised') : IsCandidacy(k) /\ Settled(k)'
      BY <1>3, <1>4, <1>6 DEF DecisionInv
    <2>4. \A k \in Approved' : k.run = run' => k \in Concluded'
      BY <1>2, <1>7 DEF DecisionInv, BotStages
    <2>5. IsStore(alerts') /\ IsStore(records')
      BY <1>2 DEF DecisionInv, IsStore
    <2>6. QED
      BY <1>7, <2>1, <2>2, <2>3, <2>4, <2>5 DEF DecisionInv, IsCandidacy, IsStore
  <1>9. Decisions!Conclude(Candidacy)
    <2>1. Candidacy \notin Concluded
      BY <1>4 DEF DecisionInv
    <2>2. Candidacy \in Approved => \E i \in DOMAIN Raised : Raised[i] = Candidacy
      <3>1. Candidacy \in Approved => pc = "action"
        BY <1>4 DEF DecisionInv
      <3>2. pc = "action" => Candidacy \in ToSet(Raised)
        BY DEF DecisionInv
      <3>3. QED
        BY <3>1, <3>2 DEF ToSet
    <2>3. Decisions!InTurn(Candidacy)
      BY CurrentIsInTurn
    <2>4. QED
      BY <1>2, <1>3, <2>1, <2>2, <2>3 DEF Decisions!Conclude
  <1>10. Candidacy \in Candidacies
    BY CurrentIsACandidacy
  <1>11. QED
    BY <1>8, <1>9, <1>10 DEF Decisions!DecisionNext

\* A step that decides nothing: what was settled, or under way, is settled.
LEMMA QuietStep ==
    ASSUME DecisionInv, IsStore(records'), alerts' = alerts,
           UNCHANGED <<Approved, Concluded>>,
           pc' \notin {"alert", "action"},
           \A k : IsCandidacy(k) /\ (Settled(k) \/ (pc \in {"alert", "action"} /\ k = Candidacy))
                     => Settled(k)',
           pc' # "down" => \A k \in Approved : k.run = run' => k \in Concluded
    PROVE  DecisionInv' /\ UNCHANGED <<Approved, Raised, Concluded>>
  <1>1. Raised' = Raised
    BY DEF Raised
  <1>2. IsStore(alerts')
    BY DEF DecisionInv, IsStore
  <1>3. \A k \in Approved \cup Concluded \cup ToSet(Raised) : IsCandidacy(k) /\ Settled(k)'
    BY DEF DecisionInv
  <1>4. \A k \in Approved' \cup Concluded' \cup ToSet(Raised') : IsCandidacy(k) /\ Settled(k)'
    BY <1>1, <1>3
  <1>5. QED
    BY <1>1, <1>2, <1>4 DEF DecisionInv, IsCandidacy, IsStore

\* Between observations, and when a run stops or starts, nothing is decided.
LEMMA RunsDecideNothing ==
    ASSUME TypeOK, DecisionInv, TakesUp \/ Finish \/ Crash \/ StartsOver
    PROVE  DecisionInv' /\ UNCHANGED <<Approved, Raised, Concluded>>
  <1>1. /\ IsStore(records') /\ alerts' = alerts /\ records' = records
        /\ UNCHANGED <<Approved, Concluded>>
    <2>1. records' = records /\ alerts' = alerts
      BY DEF TakesUp, Finish, Crash, StartsOver, storeVars
    <2>2. QED
      BY <2>1 DEF Approved, Concluded, DecisionInv, IsStore
  <1>2. run \in Nat /\ pos \in Nat
    BY MaxRunsAssumption DEF TypeOK, SessionTypeOK
  <1>3. \A k : IsCandidacy(k) /\ (Settled(k) \/ (pc \in {"alert", "action"} /\ k = Candidacy))
           => k.run < run \/ (k.run = run /\ k.pos =< pos)
    BY <1>2 DEF Settled, OfEarlierEvent, OfEarlierBot, Candidacy, IsCandidacy
  <1>4. CASE TakesUp
    <2>1. pc = "source" /\ pos' = pos + 1 /\ run' = run
      BY <1>4 DEF TakesUp
    <2>2. pc' \in {"source", "trigger"}
      BY <1>4 DEF TakesUp, Continue
    <2>3. \A k : IsCandidacy(k) /\ (Settled(k) \/ (pc \in {"alert", "action"} /\ k = Candidacy))
             => Settled(k)'
      BY <1>2, <1>3, <2>1 DEF Settled, OfEarlierEvent, IsCandidacy
    <2>4. \A k \in Approved : k.run = run' => k \in Concluded
      BY <2>1 DEF DecisionInv
    <2>5. QED
      BY <1>1, <2>2, <2>3, <2>4, QuietStep
  <1>5. CASE Finish \/ Crash
    <2>1. /\ pos' = pos /\ run' = run /\ pc' \in {"done", "down"}
          /\ pc' = "done" => pc = "source"
      BY <1>5 DEF Finish, Crash, sessionVars
    <2>2. \A k : IsCandidacy(k) /\ (Settled(k) \/ (pc \in {"alert", "action"} /\ k = Candidacy))
             => Settled(k)'
      BY <1>2, <1>3, <2>1 DEF Settled, OfEarlierEvent, IsCandidacy, Processing
    <2>3. pc' # "down" => \A k \in Approved : k.run = run' => k \in Concluded
      BY <2>1 DEF DecisionInv
    <2>4. QED
      BY <1>1, <2>1, <2>2, <2>3, QuietStep
  <1>6. CASE StartsOver
    <2>1. run' = run + 1 /\ pc' = "source" /\ pc \notin {"alert", "action"}
      BY <1>6 DEF StartsOver, Continue, Processing
    <2>2. \A k : IsCandidacy(k) /\ (Settled(k) \/ (pc \in {"alert", "action"} /\ k = Candidacy))
             => Settled(k)'
      BY <1>2, <1>3, <2>1 DEF Settled, OfEarlierEvent, IsCandidacy
    <2>3. \A k \in Approved : k.run = run' => k \in Concluded
      BY <1>2, <1>3, <2>1 DEF DecisionInv, IsCandidacy
    <2>4. QED
      BY <1>1, <2>1, <2>2, <2>3, QuietStep
  <1>7. QED
    BY <1>4, <1>5, <1>6

\* Nor do the stages up to the strategies.
LEMMA EventStagesDecideNothing ==
    ASSUME TypeOK, DecisionInv, Trigger \/ Capture \/ RecordCaptured \/ AnalyzeDelta
    PROVE  DecisionInv' /\ UNCHANGED <<Approved, Raised, Concluded>>
  <1>1. /\ pc \in Processing /\ pc \notin {"alert", "action", "down"}
        /\ UNCHANGED <<fixture, pos, run, alerts>>
    BY DEF Trigger, Capture, RecordCaptured, AnalyzeDelta, Processing, sessionVars
  <1>2. IsStore(records') /\ Approved' = Approved /\ Concluded' = Concluded
    <2>1. CASE Capture
      <3>1. records' = records
        BY <2>1 DEF Capture
      <3>2. QED
        BY <3>1 DEF Approved, Concluded, DecisionInv, IsStore
    <2>2. CASE Trigger \/ RecordCaptured \/ AnalyzeDelta
      <3>0. PICK stage \in {"EVENT_TRIGGER", "CONTINUOUS_DATA", "DELTA_ANALYSIS"},
                 outcome \in {"declared", "captured", "empty", "changed"} :
               \E now, detail :
                   records' = Append(records, Record(stage, None, outcome, now, detail))
        BY <2>2, Zenon DEF Trigger, RecordCaptured, AnalyzeDelta
      <3>1. PICK now, detail :
               records' = Append(records, Record(stage, None, outcome, now, detail))
        BY <3>0, Zenon
      <3> DEFINE r == Record(stage, None, outcome, now, detail)
      <3>2. ~EndsStrategy(r) /\ r.stage # "PRE_TRADE_VALIDATION"
        BY DEF Record, EndsStrategy
      <3> HIDE DEF r
      <3>3. QED
        BY <3>1, <3>2, RecordTells DEF r, DecisionInv
    <2>3. QED
      BY <2>1, <2>2
  <1>3. /\ pc' \notin {"alert", "action", "down"}
        /\ \A k : IsCandidacy(k) /\ Settled(k) => Settled(k)'
    <2>1. CASE Trigger \/ Capture \/ RecordCaptured
      <3>1. pc' \in {"capture", "captured", "delta"}
        BY <2>1 DEF Trigger, Capture, RecordCaptured, Continue
      <3>2. IsFrame(frame) /\ IsFrame(Counted) /\ Counted.event = frame.event
            /\ Counted.bot = frame.bot
        BY <1>1, CountedStage, ClockIsSet
      <3>3. frame'.event = frame.event /\ frame'.bot = frame.bot
        <4>1. CASE Capture
          BY <3>2, <4>1 DEF Capture, Continue, IsFrame
        <4>2. CASE Trigger \/ RecordCaptured
          BY <3>2, <4>2 DEF Trigger, RecordCaptured, Continue
        <4>3. QED
          BY <2>1, <4>1, <4>2
      <3>4. QED
        BY <1>1, <3>1, <3>3, GoingOnKeeps DEF Processing
    <2>2. CASE AnalyzeDelta
      <3>1. MoveOn(Counted)
        BY <2>2 DEF AnalyzeDelta
      <3>2. pc' \notin {"alert", "action", "down"}
        BY <3>1 DEF MoveOn, NextEvent, Continue
      <3>3. QED
        BY <1>1, <3>1, <3>2, MoveOnSettles
    <2>3. QED
      BY <2>1, <2>2
  <1>4. \A k \in Approved : k.run = run' => k \in Concluded
    BY <1>1 DEF DecisionInv
  <1>5. QED
    BY <1>1, <1>2, <1>3, <1>4, QuietStep

\* A pass of the validator approves the current candidacy.
LEMMA PassApproves ==
    ASSUME TypeOK, DecisionInv, pc = "validate", NEW now, NEW detail,
           records' = Append(records, Record("PRE_TRADE_VALIDATION", Strategy.name,
                                             "pass", now, detail)),
           pc' = "alert", frame'.event = frame.event, frame'.bot = frame.bot,
           UNCHANGED <<pos, run, alerts>>
    PROVE  DecisionInv' /\ Decisions!Approve(Candidacy)
  <1> DEFINE r == Record("PRE_TRADE_VALIDATION", Strategy.name, "pass", now, detail)
  <1>1. /\ ~EndsStrategy(r) /\ CandidacyOf(r) = Candidacy
        /\ r.stage = "PRE_TRADE_VALIDATION" /\ r.outcome = "pass"
    BY StrategyRecord
  <1> HIDE DEF r
  <1>2. /\ IsStore(records') /\ Concluded' = Concluded
        /\ Approved' = Approved \cup {Candidacy}
    BY <1>1, RecordTells DEF r, DecisionInv
  <1>3. Raised' = Raised
    BY DEF Raised
  <1>4. ~Settled(Candidacy) /\ IsCandidacy(Candidacy)
    BY CurrentIsNotSettled DEF BotStages
  <1>5. (\A k : Settled(k)' <=> Settled(k)) /\ Candidacy' = Candidacy
    BY GoingOnKeeps DEF Processing
  <1>6. DecisionInv'
    BY <1>2, <1>3, <1>4, <1>5 DEF DecisionInv, IsCandidacy, IsStore
  <1>7. Candidacy \notin Approved \cup Concluded
    BY <1>4 DEF DecisionInv
  <1>8. Decisions!InTurn(Candidacy)
    BY CurrentIsInTurn DEF BotStages
  <1>9. QED
    BY <1>2, <1>3, <1>6, <1>7, <1>8 DEF Decisions!Approve

\* The sink raises the current candidacy.
LEMMA EmitRaises ==
    ASSUME TypeOK, DecisionInv, EmitAlert
    PROVE  DecisionInv' /\ Decisions!Raise(Candidacy)
  <1>1. /\ pc = "alert" /\ pc' = "action" /\ frame' = frame
        /\ alerts' = Append(alerts, Alert)
        /\ UNCHANGED <<pos, run, records>>
    BY DEF EmitAlert, Continue, sessionVars
  <1>2. CandidacyOf(Alert) = Candidacy
    BY DEF Alert, CandidacyOf, Candidacy
  <1>3. Approved' = Approved /\ Concluded' = Concluded /\ IsStore(records')
    BY <1>1 DEF Approved, Concluded, DecisionInv, IsStore
  <1>4. IsStore(alerts') /\ Raised' = Append(Raised, Candidacy)
        /\ ToSet(Raised') = ToSet(Raised) \cup {Candidacy}
    <2>1. IsStore(alerts) /\ IsStore(Raised) /\ Len(Raised) = Len(alerts) /\ Len(alerts) \in Nat
          /\ \A i \in 1 .. Len(alerts) : Raised[i] = CandidacyOf(alerts[i])
      BY RaisedKeys DEF DecisionInv, Raised, IsStore
    <2> HIDE DEF Alert
    <2>2. /\ IsStore(alerts') /\ Len(alerts') = Len(alerts) + 1
          /\ alerts'[Len(alerts) + 1] = Alert
          /\ \A i \in 1 .. Len(alerts) : alerts'[i] = alerts[i]
      BY <1>1, <2>1, AppendExtends
    <2>3. /\ IsStore(Append(Raised, Candidacy))
          /\ Len(Append(Raised, Candidacy)) = Len(alerts) + 1
          /\ Append(Raised, Candidacy)[Len(alerts) + 1] = Candidacy
          /\ \A i \in 1 .. Len(alerts) : Append(Raised, Candidacy)[i] = Raised[i]
      BY <2>1, AppendExtends
    <2>4. Raised' = [i \in 1 .. Len(alerts) + 1 |-> CandidacyOf(alerts'[i])]
      BY <2>2 DEF Raised, IsStore, CandidacyOf
    <2>5. \A i \in 1 .. Len(alerts) + 1 :
             CandidacyOf(alerts'[i]) = Append(Raised, Candidacy)[i]
      BY <1>2, <2>1, <2>2, <2>3
    <2>6. Raised' = Append(Raised, Candidacy)
      <3> DEFINE t == Append(Raised, Candidacy)
      <3>1. t = [i \in 1 .. Len(alerts) + 1 |-> t[i]]
        BY <2>3 DEF IsStore
      <3> HIDE DEF t
      <3>2. QED
        BY <2>4, <2>5, <3>1 DEF t
    <2>7. QED
      BY <2>1, <2>2, <2>6, AppendAdds
  <1>5. ~Settled(Candidacy) /\ IsCandidacy(Candidacy)
    BY <1>1, CurrentIsNotSettled DEF BotStages
  <1>6. (\A k : Settled(k)' <=> Settled(k)) /\ Candidacy' = Candidacy
    BY <1>1, GoingOnKeeps DEF Processing
  <1>7. Candidacy \in Approved \ Concluded
    BY <1>1, <1>5 DEF DecisionInv
  <1>8. Candidacy \notin ToSet(Raised)
    BY <1>1, <1>5 DEF DecisionInv
  <1>9. DecisionInv'
    <2>1. \A k \in Approved' : k.run = run' => k \in Concluded' \/ k = Candidacy'
      BY <1>1, <1>3, <1>6 DEF DecisionInv
    <2>2. \A k \in Concluded' : IsCandidacy(k) /\ Settled(k)'
      BY <1>3, <1>6 DEF DecisionInv
    <2>3. \A k \in Approved' : IsCandidacy(k) /\ (Settled(k)' \/ k = Candidacy')
      BY <1>3, <1>6 DEF DecisionInv
    <2>4. \A k \in ToSet(Raised') : IsCandidacy(k) /\ (Settled(k)' \/ k = Candidacy')
      BY <1>1, <1>4, <1>5, <1>6 DEF DecisionInv
    <2>5. QED
      BY <1>1, <1>3, <1>4, <1>6, <2>1, <2>2, <2>3, <2>4 DEF DecisionInv, IsCandidacy, IsStore
  <1>10. Decisions!InTurn(Candidacy)
    BY <1>1, CurrentIsInTurn DEF BotStages
  <1>11. \A i \in DOMAIN Raised : Raised[i] # Candidacy
    BY <1>8 DEF ToSet
  <1>12. QED
    BY <1>3, <1>4, <1>7, <1>9, <1>10, <1>11 DEF Decisions!Raise

\* The stages of a strategy decide about the current candidacy, or go on.
LEMMA BotStagesDecide ==
    ASSUME TypeOK, DecisionInv,
           \/ FilterCandidate \/ HeavyAnalysis \/ Scoring
           \/ PreTradeValidation \/ EmitAlert \/ RecordAction
    PROVE  DecisionInv' /\ [Decisions!DecisionNext]_<<Approved, Raised, Concluded>>
  <1>0. pc \in BotStages /\ pc \in Processing
    BY DEF FilterCandidate, HeavyAnalysis, Scoring, PreTradeValidation, EmitAlert,
           RecordAction, BotStages, Processing
  <1>c. IsFrame(Counted) /\ Counted.event = frame.event /\ Counted.bot = frame.bot
    BY <1>0, CountedStage
  <1>k. Candidacy \in Candidacies
    BY <1>0, CurrentIsACandidacy
  <1> HIDE DEF Counted
  <1>1. CASE FilterCandidate
    <2> DEFINE trace == FilterRun(Strategy.filters, Candidate).trace
    <2>1. pc = "filter" /\ UNCHANGED <<fixture, pos, run, alerts>>
      BY <1>1 DEF FilterCandidate, sessionVars
    <2>2. \/ /\ records' = Append(records, Record("CANDIDATE_FILTERING", Strategy.name,
                                                  "accepted", clock, trace))
             /\ Continue("analysis", Counted)
          \/ /\ records' = Append(records, Record("CANDIDATE_FILTERING", Strategy.name,
                                                  "rejected", clock, trace))
             /\ MoveOn(Counted)
      BY <1>1, Zenon DEF FilterCandidate
    <2> HIDE DEF trace
    <2>3. CASE Continue("analysis", Counted)
      <3>1. CASE records' = Append(records, Record("CANDIDATE_FILTERING", Strategy.name,
                                                   "accepted", clock, trace))
        BY <1>c, <2>1, <2>3, <3>1, RecordsGoingOn DEF Continue
      <3>2. CASE MoveOn(Counted) /\ records' = Append(records,
                     Record("CANDIDATE_FILTERING", Strategy.name, "rejected", clock, trace))
        BY <1>0, <2>1, <3>2, RecordsItsEnd
      <3>3. QED
        BY <2>2, <3>1, <3>2
    <2>4. CASE /\ MoveOn(Counted)
               /\ records' = Append(records, Record("CANDIDATE_FILTERING", Strategy.name,
                                                    "rejected", clock, trace))
      BY <1>0, <2>1, <2>4, RecordsItsEnd
    <2>5. QED
      BY <2>2, <2>3, <2>4
  <1>2. CASE HeavyAnalysis
    <2>1. pc = "analysis" /\ UNCHANGED <<fixture, pos, run, alerts>>
      BY <1>2 DEF HeavyAnalysis, sessionVars
    <2>2. CASE AnalysisRaises(EnabledModules)
      <3>1. /\ MoveOn(Counted)
            /\ records' = Append(records, Record("HEAVY_ANALYSIS", Strategy.name,
                                                 "module_not_implemented", clock, None))
        BY <1>2, <2>2 DEF HeavyAnalysis
      <3>2. QED
        BY <1>0, <2>1, <3>1, RecordsItsEnd
    <2>3. CASE ~AnalysisRaises(EnabledModules)
      <3>1. PICK features, names :
               /\ records' = Append(records, Record("HEAVY_ANALYSIS", Strategy.name,
                                                    "analyzed", clock, names))
               /\ Continue("scoring", [Counted EXCEPT !.features = features])
        BY <1>2, <2>3, Zenon DEF HeavyAnalysis
      <3>2. pc' = "scoring" /\ frame'.event = frame.event /\ frame'.bot = frame.bot
        BY <1>c, <3>1, UntypedLocals DEF Continue
      <3>3. QED
        BY <2>1, <3>1, <3>2, RecordsGoingOn
    <2>4. QED
      BY <2>2, <2>3
  <1>3. CASE Scoring
    <2> DEFINE decision == Evaluate(Strategy, Candidate, frame.features)
    <2>1. pc = "scoring" /\ UNCHANGED <<fixture, pos, run, alerts>>
      BY <1>3 DEF Scoring, sessionVars
    <2>2. /\ records' = Append(records, Record("SCORING", Strategy.name, decision.outcome,
                                               clock, decision.score))
          /\ IF decision.outcome = "advance"
                THEN Continue("validate", [Counted EXCEPT !.score = decision.score])
                ELSE MoveOn(Counted)
      BY <1>3 DEF Scoring
    <2>3. decision.outcome \in {"advance", "reject", "not_configured"}
      BY DecisionOutcomes
    <2> HIDE DEF decision
    <2>4. CASE decision.outcome = "advance"
      <3>1. pc' = "validate" /\ frame'.event = frame.event /\ frame'.bot = frame.bot
        <4>1. pc' = "validate" /\ frame' = [Counted EXCEPT !.score = decision.score]
          BY <2>2, <2>4 DEF Continue
        <4>2. QED
          BY <1>c, <4>1, UntypedLocals
      <3>2. QED
        BY <2>1, <2>2, <2>4, <3>1, RecordsGoingOn
    <2>5. CASE decision.outcome # "advance"
      BY <1>0, <2>1, <2>2, <2>3, <2>5, RecordsItsEnd
    <2>6. QED
      BY <2>4, <2>5
  <1>4. CASE PreTradeValidation
    <2> DEFINE verdict == ValidateCurrent
    <2>1. pc = "validate" /\ UNCHANGED <<fixture, pos, run, alerts>>
      BY <1>4 DEF PreTradeValidation
    <2>2. /\ records' = Append(records, Record("PRE_TRADE_VALIDATION", Strategy.name,
                                               verdict.outcome, TimeOfCheck, verdict))
          /\ IF verdict.outcome = "pass"
                THEN Continue("alert", [Counted EXCEPT !.checked = verdict])
                ELSE MoveOn(Counted)
      BY <1>4 DEF PreTradeValidation
    <2>3. verdict.outcome \in {"pass", "cancelled"}
      BY DEF ValidateCurrent, Validate, Unread, Verdict
    <2> HIDE DEF verdict
    <2>4. CASE verdict.outcome = "pass"
      <3>1. pc' = "alert" /\ frame'.event = frame.event /\ frame'.bot = frame.bot
        <4>1. pc' = "alert" /\ frame' = [Counted EXCEPT !.checked = verdict]
          BY <2>2, <2>4 DEF Continue
        <4>2. QED
          BY <1>c, <4>1, UntypedLocals
      <3>2. DecisionInv' /\ Decisions!Approve(Candidacy)
        BY <2>1, <2>2, <2>4, <3>1, PassApproves
      <3>3. QED
        BY <1>k, <3>2 DEF Decisions!DecisionNext
    <2>5. CASE verdict.outcome # "pass"
      BY <1>0, <2>1, <2>2, <2>3, <2>5, RecordsItsEnd
    <2>6. QED
      BY <2>4, <2>5
  <1>5. CASE EmitAlert
    BY <1>5, <1>k, EmitRaises DEF Decisions!DecisionNext
  <1>6. CASE RecordAction
    <2>1. /\ pc = "action" /\ MoveOn(Counted) /\ UNCHANGED <<fixture, pos, run, alerts>>
          /\ records' = Append(records, Record("ACTION", Strategy.name, "alert_raised",
                                               clock, None))
      BY <1>6 DEF RecordAction, sessionVars
    <2>2. QED
      BY <1>0, <2>1, RecordsItsEnd
  <1>7. QED
    BY <1>1, <1>2, <1>3, <1>4, <1>5, <1>6

LEMMA StepDecides ==
    ASSUME TypeOK, DecisionInv, [Next]_vars
    PROVE  DecisionInv' /\ [Decisions!DecisionNext]_<<Approved, Raised, Concluded>>
  <1>1. CASE UNCHANGED vars
    <2>1. UNCHANGED <<Approved, Raised, Concluded>>
      BY <1>1 DEF vars, Approved, Raised, Concluded
    <2>2. DecisionInv'
      BY <1>1, <2>1 DEF vars, DecisionInv, Settled, OfEarlierEvent, OfEarlierBot, Candidacy,
                        Strategy, IsCandidacy, IsStore
    <2>3. QED
      BY <2>1, <2>2
  <1>2. CASE Next
    BY <1>2, RunsDecideNothing, ObserveTakesUp, BootStartsOver, EventStagesDecideNothing,
       BotStagesDecide DEF Next, Step
  <1>3. QED
    BY <1>1, <1>2

LEMMA NothingIsDecidedYet ==
    ASSUME Init
    PROVE  DecisionInv /\ Decisions!DecisionInit
  <1>1. records = <<>> /\ alerts = <<>> /\ pc = "source"
    BY DEF Init
  <1>2. ToSet(records) = {} /\ ToSet(alerts) = {} /\ IsStore(records) /\ IsStore(alerts)
    BY <1>1 DEF ToSet, IsStore
  <1>3. Approved = {} /\ Concluded = {}
    BY <1>2 DEF Approved, Concluded
  <1>4. Raised = <<>>
    BY <1>1 DEF Raised
  <1>5. ToSet(Raised) = {}
    BY <1>4 DEF ToSet
  <1>6. QED
    BY <1>1, <1>2, <1>3, <1>4, <1>5 DEF DecisionInv, Decisions!DecisionInit

\* For every deployment the pipeline implements the decision protocol.
THEOREM PipelineImplementsDecisions == Spec => ImplementsDecisions
  BY NothingIsDecidedYet, StepDecides, PipelineTyping, PTL
     DEF Spec, ImplementsDecisions, Decisions!DecisionSpec, Decisions!protocolVars
------------------------------------------------------------------------------
\* Nothing is enabled, or something that is only declared.
NothingImplemented ==
    EnabledModules = <<>>
        \/ \E i \in DOMAIN EnabledModules : ModuleIsDeclaredOnly(EnabledModules[i])

\* The inductive invariant: no strategy is past scoring, and what one scores
\* has no features.
NothingRaised ==
    /\ pc \notin {"validate", "alert", "action"}
    /\ pc = "scoring" => frame.features = <<>>
    /\ IsStore(records)
    /\ alerts = <<>>
    /\ \A r \in ToSet(records) : r.stage \notin {"PRE_TRADE_VALIDATION", "ACTION"}

\* Without features no strategy advances: its weights ask for some, or it has
\* none and no score.
LEMMA NoFeaturesNoAdvance ==
    ASSUME NEW strategy, NEW candidate
    PROVE  Evaluate(strategy, candidate, <<>>).outcome # "advance"
  <1>1. {<<>>[i].name : i \in DOMAIN <<>>} = {}
    OBVIOUS
  <1>2. WeightedScore(strategy.weights, <<>>) = None
    BY <1>1 DEF WeightedScore
  <1>3. ThresholdDecision(strategy, <<>>).outcome = "not_configured"
    BY <1>2 DEF ThresholdDecision
  <1>4. QED
    BY <1>3 DEF Evaluate, EvaluateBotA, EvaluateBotB

LEMMA StepRaisesNothing ==
    ASSUME TypeOK, NothingImplemented, NothingRaised, [Next]_vars
    PROVE  NothingRaised'
  <1>1. \A fr : MoveOn(fr) => pc' \in {"filter", "trigger", "source"}
    BY DEF MoveOn, NextEvent, Continue
  <1>2. ASSUME NEW stage, NEW strategy, NEW outcome, NEW detail,
               stage \notin {"PRE_TRADE_VALIDATION", "ACTION"},
               records' = Append(records, Record(stage, strategy, outcome, clock, detail))
        PROVE  IsStore(records') /\
               \A r \in ToSet(records') : r.stage \notin {"PRE_TRADE_VALIDATION", "ACTION"}
    <2> DEFINE r == Record(stage, strategy, outcome, clock, detail)
    <2>1. r.stage = stage
      BY DEF Record
    <2> HIDE DEF r
    <2>2. IsStore(records') /\ ToSet(records') = ToSet(records) \cup {r}
      BY <1>2, AppendAdds DEF NothingRaised, r
    <2>3. QED
      BY <1>2, <2>1, <2>2 DEF NothingRaised
  <1>3. CASE Trigger \/ RecordCaptured \/ AnalyzeDelta \/ FilterCandidate
    <2>1. alerts' = alerts /\ pc' \in {"capture", "delta", "filter", "trigger", "source", "analysis"}
      BY <1>1, <1>3 DEF Trigger, RecordCaptured, AnalyzeDelta, FilterCandidate, Continue
    <2>0. PICK stage \in {"EVENT_TRIGGER", "CONTINUOUS_DATA", "DELTA_ANALYSIS",
                          "CANDIDATE_FILTERING"} :
             \E strategy, outcome, detail :
                records' = Append(records, Record(stage, strategy, outcome, clock, detail))
      BY <1>3, Zenon DEF Trigger, RecordCaptured, AnalyzeDelta, FilterCandidate
    <2>2. PICK strategy, outcome, detail :
             records' = Append(records, Record(stage, strategy, outcome, clock, detail))
      BY <2>0, Zenon
    <2>3. stage \notin {"PRE_TRADE_VALIDATION", "ACTION"}
      OBVIOUS
    <2>4. QED
      BY <1>2, <2>1, <2>2, <2>3 DEF NothingRaised
  <1>4. CASE HeavyAnalysis
    <2>1. /\ \E outcome, detail : records' =
                Append(records, Record("HEAVY_ANALYSIS", Strategy.name, outcome, clock, detail))
          /\ alerts' = alerts
      BY <1>4, Zenon DEF HeavyAnalysis
    <2>2. IsStore(records') /\
          \A r \in ToSet(records') : r.stage \notin {"PRE_TRADE_VALIDATION", "ACTION"}
      BY <1>2, <2>1
    <2>3. CASE AnalysisRaises(EnabledModules)
      <3>1. MoveOn(Counted)
        BY <1>4, <2>3 DEF HeavyAnalysis
      <3>2. QED
        BY <1>1, <2>1, <2>2, <3>1 DEF NothingRaised
    <2>4. CASE ~AnalysisRaises(EnabledModules)
      <3>1. EnabledModules = <<>>
        BY <2>4 DEF NothingImplemented, AnalysisRaises
      <3>2. Analyze(EnabledModules, Candidate) = <<>>
        BY <3>1 DEF Analyze, FlattenSeq
      <3>3. pc' = "scoring" /\ frame' = [Counted EXCEPT !.features = <<>>]
        BY <1>4, <2>4, <3>2 DEF HeavyAnalysis, Continue
      <3>4. IsFrame(Counted)
        BY <1>4, CountedStage DEF HeavyAnalysis, Processing
      <3> HIDE DEF Counted
      <3>5. frame'.features = <<>>
        BY <3>3, <3>4 DEF IsFrame
      <3>6. QED
        BY <2>1, <2>2, <3>3, <3>5 DEF NothingRaised
    <2>5. QED
      BY <2>3, <2>4
  <1>5. CASE Scoring
    <2> DEFINE decision == Evaluate(Strategy, Candidate, frame.features)
    <2>1. /\ records' = Append(records, Record("SCORING", Strategy.name, decision.outcome,
                                               clock, decision.score))
          /\ decision.outcome # "advance" => MoveOn(Counted)
          /\ alerts' = alerts
      BY <1>5, Zenon DEF Scoring
    <2>2. frame.features = <<>>
      BY <1>5 DEF Scoring, NothingRaised
    <2>3. decision.outcome # "advance"
      BY <2>2, NoFeaturesNoAdvance
    <2> HIDE DEF decision
    <2>4. QED
      BY <1>1, <1>2, <2>1, <2>3 DEF NothingRaised
  <1>6. CASE Observe \/ Finish \/ Capture \/ Crash \/ Boot
    <2>1. /\ records' = records /\ alerts' = alerts
          /\ pc' \in {"source", "trigger", "done", "captured", "down"}
      BY <1>6 DEF Observe, Finish, Capture, Crash, Boot, storeVars, Continue
    <2>2. QED
      BY <2>1 DEF NothingRaised, IsStore
  <1>7. CASE PreTradeValidation \/ EmitAlert \/ RecordAction
    BY <1>7 DEF PreTradeValidation, EmitAlert, RecordAction, NothingRaised
  <1>8. CASE UNCHANGED vars
    BY <1>8 DEF vars, NothingRaised, IsStore
  <1>9. QED
    BY <1>3, <1>4, <1>5, <1>6, <1>7, <1>8 DEF Next, Step

\* For every deployment without an implemented module, or with one that is
\* only declared, nothing is validated and nothing raised.
THEOREM UnimplementedIsQuiet == Spec => []UnimplementedRaisesNothing
  <1>1. Init /\ NothingImplemented => NothingRaised
    BY DEF Init, NothingRaised, IsStore, ToSet
  <1>2. (NothingImplemented => NothingRaised) => UnimplementedRaisesNothing
    BY DEF NothingImplemented, NothingRaised, UnimplementedRaisesNothing
  <1>3. NothingImplemented' <=> NothingImplemented
    BY DEF NothingImplemented
  <1>4. TypeOK /\ (NothingImplemented => NothingRaised) /\ [Next]_vars
           => (NothingImplemented => NothingRaised)'
    BY <1>3, StepRaisesNothing
  <1>5. Init => (NothingImplemented => NothingRaised)
    BY <1>1
  <1>6. QED
    BY <1>2, <1>4, <1>5, PipelineTyping, PTL DEF Spec
------------------------------------------------------------------------------
\* Every trail is canonical, record by record: the records of the j-th record's
\* event before it, and what they make of it.
Before(j) == {i \in DOMAIN records : EventOf(records[i]) = EventOf(records[j]) /\ i < j}

CanonicalAt(j) ==
    IF Before(j) = {}
        THEN records[j].stage = "EVENT_TRIGGER" /\ records[j].count = 1
        ELSE /\ records[j].count = records[Max(Before(j))].count + 1
             /\ Follows(records[Max(Before(j))], records[j])

LEMMA CanonicalRecords ==
    (\A j \in DOMAIN records : CanonicalAt(j)) => TrailIsCanonical
  <1> SUFFICES ASSUME \A j \in DOMAIN records : CanonicalAt(j),
                      NEW id, NEW j \in {i \in DOMAIN records : EventOf(records[i]) = id}
               PROVE  LET trail  == {i \in DOMAIN records : EventOf(records[i]) = id}
                          before == {i \in trail : i < j}
                      IN  IF before = {}
                             THEN records[j].stage = "EVENT_TRIGGER" /\ records[j].count = 1
                             ELSE /\ records[j].count = records[Max(before)].count + 1
                                  /\ Follows(records[Max(before)], records[j])
    BY Zenon DEF TrailIsCanonical
  <1>1. Before(j) = {i \in {k \in DOMAIN records : EventOf(records[k]) = id} : i < j}
    BY DEF Before
  <1>2. QED
    BY <1>1, Zenon DEF CanonicalAt

\* The last stage on record when a stage of the event or strategy is reached.
Preceding ==
    {<<"capture", "EVENT_TRIGGER">>, <<"captured", "EVENT_TRIGGER">>,
     <<"delta", "CONTINUOUS_DATA">>, <<"analysis", "CANDIDATE_FILTERING">>,
     <<"scoring", "HEAVY_ANALYSIS">>, <<"validate", "SCORING">>,
     <<"alert", "PRE_TRADE_VALIDATION">>, <<"action", "PRE_TRADE_VALIDATION">>}

\* The record q is the last before the current stage's own.
LeadsHere(q) ==
    \/ /\ <<pc, q.stage>> \in Preceding /\ ~EndsStrategy(q)
       /\ q.strategy = IF pc \in BotStages THEN Strategy.name ELSE None
    \/ pc = "filter" /\ frame.bot = 1 /\ q.stage = "DELTA_ANALYSIS"
    \/ /\ pc = "filter" /\ frame.bot > 1
       /\ q.stage # "DELTA_ANALYSIS" /\ EndsStrategy(q)
       /\ q.strategy = Bots[frame.bot - 1].name

\* The records about the current event.
CurrentTrail == {i \in DOMAIN records : EventOf(records[i]) = <<run, pos, frame.event>>}

\* The inductive invariant: records are canonical and about events up to the
\* current one, and the last about the current one is what its stage goes on
\* from.
TrailInv ==
    /\ IsStore(records)
    /\ \A j \in DOMAIN records :
          /\ CanonicalAt(j)
          /\ IsCandidacy(records[j])
          /\ \/ OfEarlierEvent(records[j])
             \/ pc \in Processing /\ EventOf(records[j]) = <<run, pos, frame.event>>
    /\ pc \in Processing \ BotStages => frame.bot = 0
    /\ pc = "trigger" => CurrentTrail = {} /\ frame.count = 0
    /\ pc \in Processing \ {"trigger"} =>
          \E i \in CurrentTrail : /\ \A j \in CurrentTrail : j =< i
                                  /\ records[i].count = frame.count
                                  /\ LeadsHere(records[i])

\* A record of an earlier event is not of the current one.
LEMMA EarlierIsNotCurrent ==
    ASSUME TypeOK, pc \in Processing, NEW x, OfEarlierEvent(x)
    PROVE  EventOf(x) # <<run, pos, frame.event>>
  BY ClockIsSet, CurrentEntry, MaxRunsAssumption
     DEF OfEarlierEvent, EventOf, TypeOK, IsFrame

\* What leads to a stage is followed by the stage's own record.
LEMMA LeadsToRecord ==
    ASSUME TypeOK, NEW q, LeadsHere(q), NEW r, Writes(r)
    PROVE  Follows(q, r)
  <1>1. /\ <<pc, r.stage>> \in Recorded
        /\ r.strategy = IF pc \in BotStages THEN Strategy.name ELSE None
    BY DEF Writes
  <1>2. CASE <<pc, q.stage>> \in Preceding /\ ~EndsStrategy(q)
             /\ q.strategy = IF pc \in BotStages THEN Strategy.name ELSE None
    <2>1. <<q.stage, r.stage>> \in Succession /\ q.stage # "DELTA_ANALYSIS"
      BY <1>1, <1>2 DEF Recorded, Preceding, Succession
    <2>2. QED
      BY <1>1, <1>2, <2>1 DEF Follows
  <1>3. CASE pc = "filter" /\ frame.bot = 1 /\ q.stage = "DELTA_ANALYSIS"
    BY <1>1, <1>3 DEF Follows, Recorded, Strategy, BotStages
  <1>4. CASE /\ pc = "filter" /\ frame.bot > 1
             /\ q.stage # "DELTA_ANALYSIS" /\ EndsStrategy(q)
             /\ q.strategy = Bots[frame.bot - 1].name
    <2>1. frame.bot \in 0 .. Len(Bots) /\ Len(Bots) \in Nat
      BY BotsAssumption DEF TypeOK, IsFrame
    <2>2. frame.bot - 1 \in 1 .. Len(Bots) - 1 /\ (frame.bot - 1) + 1 = frame.bot
      BY <1>4, <2>1
    <2>3. r.stage = "CANDIDATE_FILTERING" /\ r.strategy = Bots[frame.bot].name
      BY <1>1, <1>4 DEF Recorded, Strategy, BotStages
    <2>4. \E b \in 1 .. Len(Bots) - 1 :
             q.strategy = Bots[b].name /\ r.strategy = Bots[b + 1].name
      BY <1>4, <2>2, <2>3
    <2>5. QED
      BY <1>4, <2>3, <2>4 DEF Follows
  <1>5. QED
    BY <1>2, <1>3, <1>4 DEF LeadsHere

\* What the record of a stage does to the trails.
LEMMA TrailExtends ==
    ASSUME TypeOK, TrailInv, NEW r, Writes(r)
    PROVE  /\ IsStore(records')
           /\ \A j \in DOMAIN records' : CanonicalAt(j)'
           /\ {i \in DOMAIN records' : EventOf(records'[i]) = <<run, pos, frame.event>>}
                 = CurrentTrail \cup {Len(records) + 1}
           /\ \A j \in CurrentTrail : j =< Len(records)
           /\ Len(records) \in Nat
  <1>n. PICK n : n = Len(records) + 1
    OBVIOUS
  <1>1. /\ IsStore(records') /\ Len(records) \in Nat /\ DOMAIN records = 1 .. Len(records)
        /\ DOMAIN records' = 1 .. n /\ records'[n] = r
        /\ \A i \in DOMAIN records : records'[i] = records[i]
    BY <1>n, WritesAdds DEF TrailInv
  <1>2. EventOf(r) = <<run, pos, frame.event>> /\ r.count = frame.count + 1
        /\ pc \in Processing /\ pc # "capture" /\ pc # "alert"
    BY DEF Writes, EventOf, Recorded, Processing
  <1>3. \A i \in DOMAIN records : EventOf(records'[i]) = EventOf(records[i])
    BY <1>1
  <1>e. EventOf(records'[n]) = <<run, pos, frame.event>>
    BY <1>1, <1>2
  <1>4. \A j \in DOMAIN records : Before(j)' = Before(j) /\ Before(j) \subseteq 1 .. Len(records)
    <2>1. \A j \in DOMAIN records :
             Before(j)' = {i \in DOMAIN records' : EventOf(records'[i]) = EventOf(records'[j]) /\ i < j}
      BY DEF Before, EventOf
    <2>2. QED
      BY <1>n, <1>1, <1>3, <2>1 DEF Before
  <1>5. Before(n)' = CurrentTrail
    <2>1. Before(n)' = {i \in DOMAIN records' : EventOf(records'[i]) = EventOf(records'[n]) /\ i < n}
      BY <1>1 DEF Before, EventOf
    <2>2. QED
      <3>1. \A i \in DOMAIN records' : i < n <=> i \in DOMAIN records
        BY <1>n, <1>1
      <3>2. DOMAIN records \subseteq DOMAIN records'
        BY <1>n, <1>1
      <3>3. QED
        BY <1>3, <1>e, <2>1, <3>1, <3>2 DEF CurrentTrail
  <1>6. ASSUME NEW j \in DOMAIN records PROVE CanonicalAt(j)'
    <2>1. CanonicalAt(j)
      BY DEF TrailInv
    <2>2. CASE Before(j) = {}
      BY <1>1, <1>4, <2>1, <2>2 DEF CanonicalAt
    <2>3. CASE Before(j) # {}
      <3>1. Max(Before(j)) \in DOMAIN records
        BY <1>1, <1>4, <2>3, MaxIsLast
      <3>2. records'[Max(Before(j)')] = records[Max(Before(j))] /\ records'[j] = records[j]
        BY <1>1, <1>4, <3>1
      <3>3. /\ records'[j].count = records'[Max(Before(j)')].count + 1
            /\ Follows(records'[Max(Before(j)')], records'[j])
        BY <2>1, <2>3, <3>2 DEF CanonicalAt
      <3>4. QED
        BY <1>4, <2>3, <3>3 DEF CanonicalAt, Follows, EndsStrategy
    <2>4. QED
      BY <2>2, <2>3
  <1>7. CanonicalAt(n)'
    <2>1. CASE pc = "trigger"
      <3>1. CurrentTrail = {} /\ r.count = 1 /\ r.stage = "EVENT_TRIGGER"
        BY <1>2, <2>1 DEF TrailInv, Writes, Recorded
      <3>2. QED
        BY <1>1, <1>5, <3>1 DEF CanonicalAt
    <2>2. CASE pc # "trigger"
      <3>1. PICK i \in CurrentTrail : /\ \A j \in CurrentTrail : j =< i
                                      /\ records[i].count = frame.count
                                      /\ LeadsHere(records[i])
        BY <1>2, <2>2 DEF TrailInv
      <3>2. Max(CurrentTrail) = i /\ CurrentTrail # {} /\ i \in DOMAIN records
        BY <1>1, <3>1, LastIsMax, SMTT(30) DEF CurrentTrail
      <3>3. records'[Max(Before(n)')] = records[i]
        BY <1>1, <1>5, <3>2
      <3>4. Follows(records[i], r)
        BY <1>2, <3>1, LeadsToRecord
      <3>5. /\ records'[n].count = records'[Max(Before(n)')].count + 1
            /\ Follows(records'[Max(Before(n)')], records'[n])
        BY <1>1, <1>2, <3>1, <3>3, <3>4
      <3>6. QED
        BY <1>5, <3>2, <3>5 DEF CanonicalAt, Follows, EndsStrategy
    <2>3. QED
      BY <2>1, <2>2
  <1>8. QED
    BY <1>n, <1>1, <1>3, <1>6, <1>7, <1>e DEF CurrentTrail

\* A record of the current stage keeps the trails in order.
LEMMA RecordKeepsTrails ==
    ASSUME TypeOK, TrailInv, NEW r, Writes(r)
    PROVE  TrailInv'
  <1>n. PICK n : n = Len(records) + 1
    OBVIOUS
  <1>1. /\ IsStore(records') /\ Len(records) \in Nat /\ DOMAIN records = 1 .. Len(records)
        /\ DOMAIN records' = 1 .. n /\ records'[n] = r
        /\ \A i \in DOMAIN records : records'[i] = records[i]
    BY <1>n, WritesAdds DEF TrailInv
  <1>2. /\ \A j \in DOMAIN records' : CanonicalAt(j)'
        /\ {i \in DOMAIN records' : EventOf(records'[i]) = <<run, pos, frame.event>>}
              = CurrentTrail \cup {n}
        /\ \A j \in CurrentTrail : j =< n
    BY <1>n, TrailExtends DEF CurrentTrail
  <1>3. /\ pc \in Processing /\ run' = run /\ pos' = pos /\ r.count = frame.count + 1
        /\ EventOf(r) = <<run, pos, frame.event>>
        /\ r.run = run /\ r.pos = pos /\ r.event = frame.event
        /\ r.strategy = IF pc \in BotStages THEN Strategy.name ELSE None
        /\ <<pc, r.stage>> \in Recorded
    BY DEF Writes, EventOf, Recorded, Processing
  <1>4. /\ IsFrame(frame) /\ run \in Nat /\ pos \in Nat /\ frame.event \in Nat
        /\ frame.event \in 1 .. Current.events /\ Current.events \in Nat
        /\ frame.bot \in 0 .. Len(Bots) /\ Len(Bots) \in Nat
    BY <1>3, ClockIsSet, CountedStage, CurrentEntry, BotsAssumption, MaxRunsAssumption, SMTT(30)
       DEF TypeOK, IsFrame
  <1>5. ASSUME NEW j \in DOMAIN records'
        PROVE  /\ IsCandidacy(records'[j])
               /\ records'[j].run < run \/
                     (records'[j].run = run /\
                        (records'[j].pos < pos \/
                           (records'[j].pos = pos /\ records'[j].event =< frame.event)))
    <2>1. CASE j = n
      BY <1>1, <1>3, <1>4, <2>1 DEF IsCandidacy
    <2>2. CASE j # n
      <3>1. j \in DOMAIN records /\ records'[j] = records[j]
        BY <1>n, <1>1, <2>2
      <3>2. IsCandidacy(records[j]) /\
            (OfEarlierEvent(records[j]) \/ EventOf(records[j]) = <<run, pos, frame.event>>)
        BY <3>1 DEF TrailInv
      <3>3. QED
        BY <1>3, <1>4, <3>1, <3>2 DEF OfEarlierEvent, EventOf, IsCandidacy
    <2>3. QED
      BY <2>1, <2>2
  <1>6. CASE frame'.event = frame.event /\ pc' \in Processing \ {"trigger"}
             /\ frame'.count = frame.count + 1 /\ LeadsHere(r)'
             /\ (pc' \notin BotStages => frame'.bot = 0)
    <2>1. CurrentTrail' = CurrentTrail \cup {n}
      BY <1>2, <1>3, <1>6 DEF CurrentTrail, EventOf
    <2>2. \A j \in DOMAIN records' :
             LET x == records'[j] IN
             \/ x.run < run' \/ (x.run = run' /\ x.pos < pos')
             \/ x.run = run' /\ x.pos = pos' /\ x.event < frame'.event
             \/ x.run = run' /\ x.pos = pos' /\ x.event = frame'.event
      <3>1. SUFFICES ASSUME NEW j \in DOMAIN records'
                     PROVE  records'[j].event =< frame.event =>
                              records'[j].event < frame.event \/ records'[j].event = frame.event
        BY <1>3, <1>5, <1>6
      <3>2. records'[j].event \in Nat
        BY <1>5 DEF IsCandidacy
      <3>3. QED
        BY <1>4, <3>2
    <2>3. n \in CurrentTrail' /\ (\A j \in CurrentTrail' : j =< n)
          /\ records'[n].count = frame'.count /\ LeadsHere(records[n])'
      <3>1. n =< n
        BY <1>n, <1>1
      <3>2. LeadsHere(records[n])'
        BY <1>1, <1>6 DEF LeadsHere, EndsStrategy
      <3>3. QED
        BY <1>1, <1>2, <1>3, <1>6, <2>1, <3>1, <3>2
    <2>4. (\A j \in DOMAIN records : CanonicalAt(j) /\ IsCandidacy(records[j])
             /\ \/ OfEarlierEvent(records[j])
                \/ pc \in Processing /\ EventOf(records[j]) = <<run, pos, frame.event>>)'
      BY <1>2, <1>5, <1>6, <2>2 DEF IsCandidacy, OfEarlierEvent, EventOf
    <2>5. (\E i \in CurrentTrail : /\ \A j \in CurrentTrail : j =< i
                                   /\ records[i].count = frame.count
                                   /\ LeadsHere(records[i]))'
      BY <2>3
    <2>6. QED
      BY <1>1, <1>6, <2>4, <2>5 DEF TrailInv, IsStore
  <1>7. CASE EventAfter \/ EventsOver
    <2>1. /\ pc' \in {"trigger", "source"}
          /\ pc' = "trigger" => /\ frame'.event = frame.event + 1 /\ frame'.bot = 0
                                /\ frame'.count = 0
      BY <1>7 DEF EventAfter, EventsOver, EventFrame
    <2>2. \A j \in DOMAIN records' :
             LET x == records'[j] IN
             \/ x.run < run' \/ (x.run = run' /\ x.pos < pos')
             \/ x.run = run' /\ x.pos = pos' /\ (pc' \in Processing => x.event < frame'.event)
      <3>1. SUFFICES ASSUME NEW j \in DOMAIN records', pc' \in Processing
                     PROVE  records'[j].event =< frame.event => records'[j].event < frame'.event
        BY <1>3, <1>5
      <3>2. records'[j].event \in Nat /\ frame'.event = frame.event + 1
        BY <1>5, <2>1, <3>1 DEF IsCandidacy, Processing
      <3>3. QED
        BY <1>4, <3>2
    <2>3. pc' = "trigger" => CurrentTrail' = {}
      BY <1>3, <1>4, <1>5, <2>1 DEF CurrentTrail, EventOf, IsCandidacy
    <2>4. (\A j \in DOMAIN records : CanonicalAt(j) /\ IsCandidacy(records[j])
             /\ OfEarlierEvent(records[j]))'
      BY <1>2, <1>5, <2>2 DEF IsCandidacy, OfEarlierEvent
    <2>5. QED
      BY <1>1, <2>1, <2>3, <2>4 DEF TrailInv, IsStore, Processing, BotStages
  <1>8. CASE NextBot
    <2>1. /\ pc' = "filter" /\ frame'.event = frame.event /\ frame'.bot = frame.bot + 1
          /\ frame'.count = frame.count + 1
      BY <1>8 DEF NextBot
    <2>2. CASE pc = "delta"
      <3>1. frame.bot = 0 /\ r.stage = "DELTA_ANALYSIS"
        BY <1>3, <2>2 DEF TrailInv, Processing, BotStages, Recorded
      <3>2. LeadsHere(r)'
        BY <2>1, <3>1 DEF LeadsHere
      <3>3. QED
        BY <1>6, <2>1, <3>2 DEF Processing, BotStages
    <2>3. CASE pc # "delta"
      <3>1. pc \in BotStages /\ EndsStrategy(r)
        BY <2>1, <2>3 DEF Writes, EndsStrategy, Recorded, BotStages, GoingOn
      <3>2. frame.bot > 0 /\ r.stage # "DELTA_ANALYSIS" /\ r.strategy = Bots[frame.bot].name
        BY <1>3, <2>3, <3>1, CountedStage DEF Strategy, Recorded
      <3>3. frame'.bot > 1 /\ frame'.bot - 1 = frame.bot
        BY <1>4, <2>1, <3>2
      <3>4. EndsStrategy(r)'
        BY <3>1 DEF EndsStrategy
      <3>5. LeadsHere(r)'
        BY <2>1, <3>2, <3>3, <3>4 DEF LeadsHere
      <3>6. QED
        BY <1>6, <2>1, <3>5 DEF Processing, BotStages
    <2>4. QED
      BY <2>2, <2>3
  <1>9. CASE <<pc, pc'>> \in GoingOn /\ ~EndsStrategy(r) /\ GoesOn
    <2>1. /\ frame'.event = frame.event /\ frame'.bot = frame.bot
          /\ frame'.count = frame.count + 1
      BY <1>9 DEF GoesOn
    <2>2. /\ <<pc', r.stage>> \in Preceding /\ pc' \in Processing \ {"trigger"}
          /\ pc' \in BotStages <=> pc \in BotStages
      BY <1>3, <1>9 DEF GoingOn, Recorded, Preceding, Processing, BotStages
    <2>3. LeadsHere(r)'
      BY <1>3, <1>9, <2>1, <2>2 DEF LeadsHere, EndsStrategy, Strategy
    <2>4. pc' \notin BotStages => frame'.bot = 0
      BY <1>3, <2>1, <2>2 DEF TrailInv
    <2>5. QED
      BY <1>6, <2>1, <2>2, <2>3, <2>4
  <1>10. QED
    BY <1>7, <1>8, <1>9 DEF Writes, MovesOn

\* A step that writes no record keeps them too.
LEMMA OtherStepsKeepTrails ==
    ASSUME TypeOK, TrailInv,
           TakesUp \/ Finish \/ Capture \/ EmitAlert \/ Crash \/ StartsOver \/ UNCHANGED vars
    PROVE  TrailInv'
  <1>1. records' = records
    BY DEF TakesUp, Finish, Capture, EmitAlert, Crash, StartsOver, vars, storeVars
  <1>2. IsStore(records') /\ (\A j \in DOMAIN records : CanonicalAt(j))'
    <2>1. ASSUME NEW j PROVE CanonicalAt(j)' <=> CanonicalAt(j)
      <3>1. Before(j)' = Before(j)
        BY <1>1 DEF Before, EventOf
      <3>2. QED
        BY <1>1, <3>1 DEF CanonicalAt, Follows, EndsStrategy
    <2>2. \A j \in DOMAIN records' : CanonicalAt(j)'
      BY <1>1, <2>1 DEF TrailInv
    <2>3. QED
      BY <1>1, <2>2 DEF TrailInv, IsStore
  <1>c. \A j \in DOMAIN records : IsCandidacy(records[j])
    BY DEF TrailInv
  <1>3. run \in Nat /\ pos \in Nat
    BY MaxRunsAssumption DEF TypeOK, SessionTypeOK
  <1>4. \A j \in DOMAIN records :
           records[j].run < run \/ (records[j].run = run /\ records[j].pos =< pos)
    BY <1>3 DEF TrailInv, OfEarlierEvent, EventOf, IsCandidacy
  <1>5. CASE TakesUp
    <2>1. pos' = pos + 1 /\ run' = run
      BY <1>5 DEF TakesUp
    <2>2. \A j \in DOMAIN records : OfEarlierEvent(records[j])'
      BY <1>1, <1>c, <1>3, <1>4, <2>1 DEF OfEarlierEvent, IsCandidacy
    <2>3. CurrentTrail' = {}
      BY <1>1, <1>c, <1>3, <1>4, <2>1 DEF CurrentTrail, EventOf, IsCandidacy
    <2>4. \/ pc' = "source"
          \/ pc' = "trigger" /\ frame'.bot = 0 /\ frame'.count = 0
      BY <1>5 DEF TakesUp, Continue, EventFrame
    <2>5. QED
      BY <1>1, <1>2, <1>c, <2>2, <2>3, <2>4 DEF TrailInv, IsCandidacy, Processing, BotStages
  <1>6. CASE Finish \/ Crash \/ StartsOver
    <2>1. pc' \notin Processing /\ (StartsOver \/ UNCHANGED <<pos, run>>)
      BY <1>6 DEF Finish, Crash, StartsOver, Continue, Processing, sessionVars
    <2>2. \A j \in DOMAIN records : OfEarlierEvent(records[j])'
      <3>1. CASE StartsOver
        BY <1>1, <1>c, <1>3, <1>4, <3>1 DEF StartsOver, OfEarlierEvent, IsCandidacy
      <3>2. CASE UNCHANGED <<pos, run>>
        BY <1>1, <1>c, <1>3, <1>4, <2>1, <3>2 DEF OfEarlierEvent, IsCandidacy
      <3>3. QED
        BY <2>1, <3>1, <3>2
    <2>3. QED
      BY <1>1, <1>2, <1>c, <2>1, <2>2 DEF TrailInv, IsCandidacy, Processing
  <1>7. CASE Capture \/ EmitAlert \/ UNCHANGED vars
    <2>1. /\ UNCHANGED <<pos, run>>
          /\ frame'.event = frame.event /\ frame'.bot = frame.bot /\ frame'.count = frame.count
          /\ pc' = pc \/ (pc = "capture" /\ pc' = "captured") \/ (pc = "alert" /\ pc' = "action")
      <3>1. CASE Capture
        <4>1. IsFrame(frame)
          BY <3>1, ClockIsSet DEF Capture, Processing
        <4>2. QED
          BY <3>1, <4>1 DEF Capture, Continue, IsFrame, sessionVars
      <3>2. CASE EmitAlert
        BY <3>2 DEF EmitAlert, Continue, sessionVars
      <3>3. CASE UNCHANGED vars
        BY <3>3 DEF vars
      <3>4. QED
        BY <1>7, <3>1, <3>2, <3>3
    <2>2. /\ pc' \in Processing <=> pc \in Processing
          /\ pc' \in BotStages <=> pc \in BotStages
          /\ pc' = "trigger" <=> pc = "trigger"
          /\ pc' = "filter" <=> pc = "filter"
          /\ \A s : <<pc, s>> \in Preceding => <<pc', s>> \in Preceding
      BY <2>1 DEF Processing, BotStages, Preceding
    <2>3. /\ CurrentTrail' = CurrentTrail
          /\ \A j \in DOMAIN records : OfEarlierEvent(records[j])' <=> OfEarlierEvent(records[j])
      BY <1>1, <2>1, <2>2 DEF CurrentTrail, OfEarlierEvent, EventOf
    <2>4. \A i : LeadsHere(records[i]) => LeadsHere(records[i])'
      BY <1>1, <2>1, <2>2 DEF LeadsHere, EndsStrategy, Strategy
    <2>5. (\A j \in DOMAIN records : CanonicalAt(j) /\ IsCandidacy(records[j])
             /\ \/ OfEarlierEvent(records[j])
                \/ pc \in Processing /\ EventOf(records[j]) = <<run, pos, frame.event>>)'
      BY <1>1, <1>2, <1>c, <2>1, <2>2, <2>3 DEF TrailInv, IsCandidacy, EventOf
    <2>6. QED
      BY <1>1, <1>2, <1>c, <2>1, <2>2, <2>3, <2>4, <2>5 DEF TrailInv
  <1>8. QED
    BY <1>5, <1>6, <1>7

LEMMA TrailsAreKept == Spec => []TrailInv
  <1>1. Init => TrailInv
    BY DEF Init, TrailInv, IsStore, Processing, BotStages
  <1>2. TypeOK /\ TrailInv /\ [Next]_vars => TrailInv'
    BY StepWrites, ObserveTakesUp, BootStartsOver, RecordKeepsTrails, OtherStepsKeepTrails
  <1>3. QED
    BY <1>1, <1>2, PipelineTyping, PTL DEF Spec

\* For every deployment the trail of an event is the canonical pipeline,
\* numbered without gap or repetition.
THEOREM TrailsAreCanonical == Spec => []TrailIsCanonical
  <1>1. TrailInv => TrailIsCanonical
    BY CanonicalRecords DEF TrailInv
  <1>2. QED
    BY <1>1, TrailsAreKept, PTL
------------------------------------------------------------------------------
\* The decisions on record are settled or under way, for every deployment.
LEMMA DecisionsAreInOrder == Spec => []DecisionInv
  BY NothingIsDecidedYet, StepDecides, PipelineTyping, PTL DEF Spec
------------------------------------------------------------------------------
\* The candidacy of a bot and an event, in this run.
Key(i, e, b) == [run |-> run, pos |-> i, event |-> e, strategy |-> Bots[b].name]

\* The inductive invariant: no candidacy is concluded twice, and every one
\* that had its turn in this run is concluded.
ConclusionsInv ==
    /\ \A k, l \in DOMAIN records :
          EndsStrategy(records[k]) /\ EndsStrategy(records[l])
          /\ CandidacyOf(records[k]) = CandidacyOf(records[l]) => k = l
    /\ pc # "down" =>
          \A i \in 1 .. pos : \A e \in 1 .. fixture[i].events : \A b \in DOMAIN Bots :
              \/ i < pos \/ pc \notin Processing
              \/ e < frame.event \/ (e = frame.event /\ b < frame.bot)
              => Key(i, e, b) \in Concluded
    /\ pc = "done" => pos = Len(fixture)

\* A record that ends a strategy is the first to conclude its candidacy.
LEMMA EndingIsNew ==
    ASSUME TypeOK, DecisionInv, NEW r, Writes(r), EndsStrategy(r)
    PROVE  pc \in BotStages /\ CandidacyOf(r) = Candidacy /\ Candidacy \notin Concluded
  <1>1. pc \in BotStages
    BY DEF Writes, GoingOn, BotStages
  <1>2. CandidacyOf(r) = Candidacy
    BY <1>1 DEF Writes, CandidacyOf, Candidacy
  <1>3. QED
    BY <1>1, <1>2, CurrentIsNotSettled DEF DecisionInv

LEMMA RecordConcludes ==
    ASSUME TypeOK, DecisionInv, TrailInv, ConclusionsInv, NEW r, Writes(r)
    PROVE  ConclusionsInv'
  <1>n. PICK n : n = Len(records) + 1
    OBVIOUS
  <1>1. /\ Len(records) \in Nat /\ DOMAIN records = 1 .. Len(records)
        /\ DOMAIN records' = 1 .. n /\ records'[n] = r
        /\ \A i \in DOMAIN records : records'[i] = records[i]
    BY <1>n, WritesAdds DEF TrailInv
  <1>2. /\ records' = Append(records, r) /\ UNCHANGED <<run, pos, fixture>>
        /\ <<pc, r.stage>> \in Recorded
    BY DEF Writes
  <1>3. Concluded' = Concluded \cup (IF EndsStrategy(r) THEN {CandidacyOf(r)} ELSE {})
    BY <1>2, RecordTells DEF TrailInv
  <1>4. \A k \in DOMAIN records : EndsStrategy(records[k]) => CandidacyOf(records[k]) \in Concluded
    BY DEF Concluded, ToSet
  <1>5. ASSUME NEW k \in DOMAIN records', NEW l \in DOMAIN records',
               EndsStrategy(records'[k]), EndsStrategy(records'[l]),
               CandidacyOf(records'[k]) = CandidacyOf(records'[l])
        PROVE  k = l
    <2>1. ASSUME NEW m \in DOMAIN records, EndsStrategy(records[m]), EndsStrategy(r)
          PROVE  CandidacyOf(records[m]) # CandidacyOf(r)
      BY <1>4, <2>1, EndingIsNew
    <2>2. \A m \in DOMAIN records' : m = n \/ m \in DOMAIN records
      BY <1>n, <1>1
    <2>3. QED
      BY <1>1, <1>5, <2>1, <2>2 DEF ConclusionsInv
  <1>6. /\ frame.event \in 1 .. Current.events /\ Current.events \in Nat
        /\ Len(Bots) \in Nat /\ DOMAIN Bots = 1 .. Len(Bots) /\ frame.bot \in 0 .. Len(Bots)
        /\ pc \in Processing /\ pc # "down" /\ pos \in Nat /\ Current = fixture[pos]
    <2>1. pc \in Processing /\ pc # "down"
      BY <1>2 DEF Recorded, Processing
    <2>2. QED
      BY <2>1, ClockIsSet, CountedStage, CurrentEntry, BotsAssumption
         DEF TypeOK, IsFrame, Current
  <1>7. ASSUME NEW i \in 1 .. pos, NEW e \in 1 .. fixture[i].events, NEW b \in DOMAIN Bots,
               \/ i < pos \/ pc' \notin Processing
               \/ e < frame'.event \/ (e = frame'.event /\ b < frame'.bot)
        PROVE  Key(i, e, b) \in Concluded'
    <2>1. CASE i < pos \/ e < frame.event \/ (e = frame.event /\ b < frame.bot)
      BY <1>3, <1>6, <2>1 DEF ConclusionsInv
    <2>2. CASE i = pos /\ e = frame.event /\ b = frame.bot /\ EndsStrategy(r)
      <3>1. Key(i, e, b) = Candidacy
        BY <2>2 DEF Key, Candidacy, Strategy
      <3>2. QED
        BY <1>3, <2>2, <3>1, EndingIsNew
    <2>3. CASE <<pc, pc'>> \in GoingOn /\ GoesOn
      <3>1. pc' \in Processing /\ frame'.event = frame.event /\ frame'.bot = frame.bot
        BY <2>3 DEF GoingOn, GoesOn, Processing
      <3>2. QED
        BY <1>7, <2>1, <3>1
    <2>4. CASE MovesOn /\ (pc = "delta" \/ (pc \in BotStages /\ EndsStrategy(r)))
      <3>1. pc = "delta" => frame.bot = 0
        BY DEF TrailInv, Processing, BotStages
      <3>2. e \in Int /\ b \in Int /\ frame.event \in Int /\ frame.bot \in Int
            /\ b >= 1 /\ b =< Len(Bots) /\ (i = pos => e =< Current.events)
        BY <1>6
      <3>3. i < pos \/ i = pos
        BY <1>6
      <3>4. CASE NextBot
        <4>1. /\ pc' \in Processing /\ frame'.event = frame.event
              /\ frame'.bot = frame.bot + 1
          BY <3>4 DEF NextBot, Processing
        <4>2. CASE i = pos /\ e = frame.event /\ b = frame.bot
          BY <2>2, <2>4, <3>1, <3>2, <4>2
        <4>3. QED
          BY <1>7, <2>1, <3>2, <3>3, <4>1, <4>2
      <3>5. CASE EventAfter \/ EventsOver
        <4>1. /\ frame.bot = Len(Bots)
              /\ \/ pc' \in Processing /\ frame'.event = frame.event + 1 /\ frame'.bot = 0
                 \/ frame.event = Current.events
          BY <3>5 DEF EventAfter, EventsOver, EventFrame, Processing
        <4>2. CASE i = pos /\ e = frame.event /\ b = frame.bot
          BY <2>2, <2>4, <3>1, <3>2, <4>2
        <4>3. i < pos \/ e =< frame.event
          BY <1>6, <1>7, <3>2, <3>3, <4>1
        <4>4. QED
          BY <2>1, <3>2, <3>3, <4>1, <4>2, <4>3
      <3>6. QED
        BY <2>4, <3>4, <3>5 DEF MovesOn
    <2>6. pc = "action" => pc \in BotStages /\ EndsStrategy(r)
      BY <1>2 DEF Recorded, BotStages, EndsStrategy
    <2>7. QED
      BY <2>3, <2>4, <2>6 DEF Writes
  <1>8. pc' # "done"
    BY DEF Writes, MovesOn, NextBot, EventAfter, EventsOver, GoingOn
  <1>9. QED
    BY <1>2, <1>5, <1>7, <1>8 DEF ConclusionsInv, Key, EndsStrategy, CandidacyOf

LEMMA OtherStepsConclude ==
    ASSUME TypeOK, ConclusionsInv,
           TakesUp \/ Finish \/ Capture \/ EmitAlert \/ Crash \/ StartsOver \/ UNCHANGED vars
    PROVE  ConclusionsInv'
  <1>1. records' = records /\ Concluded' = Concluded
    BY DEF TakesUp, Finish, Capture, EmitAlert, Crash, StartsOver, vars, storeVars, Concluded
  <1>2. (\A k, l \in DOMAIN records :
            EndsStrategy(records[k]) /\ EndsStrategy(records[l])
            /\ CandidacyOf(records[k]) = CandidacyOf(records[l]) => k = l)'
    BY <1>1 DEF ConclusionsInv, EndsStrategy, CandidacyOf
  <1>3. pos \in Nat
    BY DEF TypeOK, SessionTypeOK
  <1>4. CASE TakesUp
    <2>1. /\ pc = "source" /\ pos' = pos + 1 /\ run' = run /\ fixture' = fixture
          /\ IF fixture[pos'].events = 0 THEN pc' = "source"
             ELSE pc' = "trigger" /\ frame'.event = 1 /\ frame'.bot = 0
      BY <1>4 DEF TakesUp, Continue, EventFrame
    <2>2. ASSUME NEW i \in 1 .. pos + 1, NEW e \in 1 .. fixture[i].events, NEW b \in DOMAIN Bots,
                 \/ i < pos' \/ pc' \notin Processing
                 \/ e < frame'.event \/ (e = frame'.event /\ b < frame'.bot)
          PROVE  Key(i, e, b) \in Concluded
      <3>1. CASE i \in 1 .. pos
        BY <2>1, <3>1 DEF ConclusionsInv, Processing
      <3>2. CASE i = pos + 1
        <4>1. e \in Int /\ e >= 1 /\ b \in Int /\ b >= 1 /\ ~(i < pos')
          BY <1>3, <2>1, <3>2, BotsAssumption
        <4>2. fixture[i].events # 0
          BY <2>2, <4>1
        <4>3. pc' = "trigger" /\ frame'.event = 1 /\ frame'.bot = 0 /\ pc' \in Processing
          BY <2>1, <3>2, <4>2 DEF Processing
        <4>4. QED
          BY <2>2, <4>1, <4>3
      <3>3. QED
        BY <1>3, <3>1, <3>2
    <2>3. pc' # "done"
      BY <2>1
    <2>4. QED
      BY <1>1, <1>2, <2>1, <2>2, <2>3 DEF ConclusionsInv, Key
  <1>5. CASE StartsOver
    <2>1. pos' = 0 /\ pc' = "source" /\ fixture' = fixture
      BY <1>5 DEF StartsOver, Continue
    <2>2. QED
      BY <1>2, <2>1 DEF ConclusionsInv
  <1>6. CASE Crash
    BY <1>2, <1>6 DEF Crash, ConclusionsInv
  <1>7. CASE Finish
    BY <1>1, <1>2, <1>7 DEF Finish, ConclusionsInv, Processing, Key, sessionVars
  <1>8. CASE Capture \/ EmitAlert \/ UNCHANGED vars
    <2>1. /\ UNCHANGED <<fixture, pos, run>>
          /\ frame'.event = frame.event /\ frame'.bot = frame.bot
          /\ pc' = pc \/ (pc' \in Processing /\ pc \in Processing)
      <3>1. CASE Capture
        <4>1. IsFrame(frame)
          BY <3>1, ClockIsSet DEF Capture, Processing
        <4>2. QED
          BY <3>1, <4>1 DEF Capture, Continue, IsFrame, sessionVars, Processing
      <3>2. CASE EmitAlert
        BY <3>2 DEF EmitAlert, Continue, sessionVars, Processing
      <3>3. CASE UNCHANGED vars
        BY <3>3 DEF vars
      <3>4. QED
        BY <1>8, <3>1, <3>2, <3>3
    <2>2. pc' \notin Processing <=> pc \notin Processing
      BY <2>1
    <2>3. (pc' # "down" <=> pc # "down") /\ (pc' = "done" <=> pc = "done")
      BY <2>1 DEF Processing
    <2>4. QED
      BY <1>1, <1>2, <2>1, <2>2, <2>3 DEF ConclusionsInv, Key
  <1>9. QED
    BY <1>4, <1>5, <1>6, <1>7, <1>8

LEMMA ConclusionsSuffice == ConclusionsInv => EveryBotConcluded
  <1> SUFFICES ASSUME ConclusionsInv, pc = "done",
                      NEW i \in 1 .. Len(fixture), NEW e \in 1 .. fixture[i].events,
                      NEW b \in DOMAIN Bots
               PROVE  Cardinality({k \in DOMAIN records :
                         /\ records[k].run = run /\ records[k].pos = i /\ records[k].event = e
                         /\ records[k].strategy = Bots[b].name
                         /\ EndsStrategy(records[k])}) = 1
    BY DEF EveryBotConcluded
  <1> DEFINE K == {k \in DOMAIN records :
                      /\ records[k].run = run /\ records[k].pos = i /\ records[k].event = e
                      /\ records[k].strategy = Bots[b].name
                      /\ EndsStrategy(records[k])}
  <1>1. Key(i, e, b) \in Concluded
    BY DEF ConclusionsInv, Processing
  <1>2. PICK k \in DOMAIN records :
           EndsStrategy(records[k]) /\ CandidacyOf(records[k]) = Key(i, e, b)
    BY <1>1 DEF Concluded, ToSet
  <1>3. k \in K
    BY <1>2 DEF CandidacyOf, Key
  <1>4. \A l \in K : CandidacyOf(records[l]) = Key(i, e, b)
    BY DEF CandidacyOf, Key
  <1>5. K = {k}
    BY <1>2, <1>3, <1>4 DEF ConclusionsInv
  <1>6. QED
    BY <1>5, FS_Singleton

\* For every deployment, once the source is exhausted every bot has come to
\* exactly one recorded conclusion about every event that was declared.
THEOREM EveryBotConcludes == Spec => []EveryBotConcluded
  <1>1. Init => ConclusionsInv
    BY DEF Init, SessionInit, Opened, ConclusionsInv
  <1>2. TypeOK /\ DecisionInv /\ TrailInv /\ ConclusionsInv /\ [Next]_vars => ConclusionsInv'
    BY StepWrites, ObserveTakesUp, BootStartsOver, RecordConcludes, OtherStepsConclude
  <1>3. Spec => []TrailInv
    BY TrailsAreKept
  <1>4. QED
    BY <1>1, <1>2, <1>3, ConclusionsSuffice, DecisionsAreInOrder, PipelineTyping, PTL DEF Spec
------------------------------------------------------------------------------
Actions == {k \in DOMAIN records : records[k].stage = "ACTION"}
Unrecorded(n) == \A k \in Actions : ~Tells(k, n)

\* The inductive invariant: no two alerts are of one candidacy, and an alert
\* without its record is of the current candidacy, or of a run that is over.
ActionsInv ==
    /\ \A m, n \in DOMAIN alerts :
          CandidacyOf(alerts[m]) = CandidacyOf(alerts[n]) => m = n
    /\ pc = "action" => Len(alerts) > 0 /\ CandidacyOf(alerts[Len(alerts)]) = Candidacy
    /\ \A k \in Actions : \E n \in DOMAIN alerts : Tells(k, n)
    /\ \A n \in DOMAIN alerts : Unrecorded(n) =>
          /\ \A m \in n + 1 .. Len(alerts) : alerts[m].run # alerts[n].run
          /\ alerts[n].run = run => pc \in {"action", "down"}
    /\ \A k, l \in Actions, m, n \in DOMAIN alerts :
          Tells(k, m) /\ Tells(l, n) => (k < l <=> m < n)

LEMMA ActionsInvSuffices == ActionsInv => ActionsAreRecorded
  BY Zenon DEF ActionsInv, ActionsAreRecorded, Actions, Unrecorded

\* An ACTION record concludes its candidacy.
LEMMA ActionsConclude ==
    ASSUME NEW k \in Actions
    PROVE  CandidacyOf(records[k]) \in Concluded
  BY DEF Actions, Concluded, ToSet, EndsStrategy

\* A record that is not of an action tells of no alert.
LEMMA OtherRecordsKeepActions ==
    ASSUME TypeOK, IsStore(records), ActionsInv, NEW r, Writes(r), pc # "action"
    PROVE  ActionsInv'
  <1>n. PICK n : n = Len(records) + 1
    OBVIOUS
  <1>1. /\ Len(records) \in Nat /\ DOMAIN records = 1 .. Len(records)
        /\ DOMAIN records' = 1 .. n /\ records'[n] = r
        /\ \A i \in DOMAIN records : records'[i] = records[i]
    BY <1>n, WritesAdds
  <1>2. /\ r.stage # "ACTION" /\ UNCHANGED <<run, alerts>>
        /\ pc \notin {"action", "down"} /\ pc' \notin {"action", "down"}
    BY DEF Writes, Recorded, GoingOn, MovesOn, NextBot, EventAfter, EventsOver
  <1>3. Actions' = Actions /\ Actions \subseteq DOMAIN records
    BY <1>n, <1>1, <1>2 DEF Actions
  <1>4. \A k \in Actions : \A m : Tells(k, m)' <=> Tells(k, m)
    BY <1>1, <1>2, <1>3 DEF Tells, CandidacyOf
  <1>5. \A m : Unrecorded(m)' <=> Unrecorded(m)
    BY <1>3, <1>4 DEF Unrecorded
  <1>7. (\A m \in DOMAIN alerts : Unrecorded(m) =>
            /\ \A i \in m + 1 .. Len(alerts) : alerts[i].run # alerts[m].run
            /\ alerts[m].run = run => pc \in {"action", "down"})'
    BY <1>2, <1>5 DEF ActionsInv
  <1>8. (\A k, l \in Actions, m, i \in DOMAIN alerts :
            Tells(k, m) /\ Tells(l, i) => (k < l <=> m < i))'
    BY <1>2, <1>3, <1>4 DEF ActionsInv
  <1>9. (\A k \in Actions : \E m \in DOMAIN alerts : Tells(k, m))'
    BY <1>2, <1>3, <1>4 DEF ActionsInv
  <1>10. QED
    BY <1>2, <1>7, <1>8, <1>9 DEF ActionsInv, CandidacyOf

\* The record of an action tells of the last alert, and is the first to do so.
LEMMA ActionRecordTells ==
    ASSUME TypeOK, DecisionInv, ActionsInv, NEW r, Writes(r), pc = "action"
    PROVE  ActionsInv'
  <1>n. PICK n, last : n = Len(records) + 1 /\ last = Len(alerts)
    OBVIOUS
  <1>1. /\ Len(records) \in Nat /\ DOMAIN records = 1 .. Len(records)
        /\ DOMAIN records' = 1 .. n /\ records'[n] = r
        /\ \A i \in DOMAIN records : records'[i] = records[i]
    BY <1>n, WritesAdds DEF DecisionInv
  <1>2. /\ r.stage = "ACTION" /\ UNCHANGED <<run, alerts>> /\ pc' # "action"
        /\ EndsStrategy(r)
    BY DEF Writes, Recorded, GoingOn, MovesOn, NextBot, EventAfter, EventsOver, EndsStrategy
  <1>3. CandidacyOf(r) = Candidacy /\ Candidacy \notin Concluded
    BY <1>2, EndingIsNew
  <1>4. /\ last \in DOMAIN alerts /\ CandidacyOf(alerts[last]) = Candidacy
        /\ DOMAIN alerts = 1 .. last /\ last \in Nat
    BY <1>n DEF ActionsInv, DecisionInv, IsStore
  <1>5. Actions' = Actions \cup {n} /\ Actions \subseteq 1 .. Len(records)
    BY <1>n, <1>1, <1>2 DEF Actions
  <1>6. \A k \in Actions : \A m : Tells(k, m)' <=> Tells(k, m)
    BY <1>1, <1>2, <1>5 DEF Tells, CandidacyOf
  <1>7. \A m \in DOMAIN alerts : Tells(n, m)' <=> m = last
    <2>1. \A m \in DOMAIN alerts : Tells(n, m)' <=> CandidacyOf(r) = CandidacyOf(alerts[m])
      BY <1>1, <1>2 DEF Tells, CandidacyOf
    <2>2. QED
      BY <1>3, <1>4, <2>1 DEF ActionsInv
  <1>8. \A k \in Actions : \A m \in DOMAIN alerts : Tells(k, m) => m # last
    BY <1>3, <1>4, ActionsConclude DEF Tells
  <1>9. \A m \in DOMAIN alerts : Unrecorded(m)' => Unrecorded(m) /\ m # last
    BY <1>4, <1>5, <1>6, <1>7 DEF Unrecorded
  <1>a. (\A m, i \in DOMAIN alerts : CandidacyOf(alerts[m]) = CandidacyOf(alerts[i]) => m = i)'
    BY <1>2 DEF ActionsInv, CandidacyOf
  <1>c. (\A k \in Actions : \E m \in DOMAIN alerts : Tells(k, m))'
    BY <1>2, <1>4, <1>5, <1>6, <1>7 DEF ActionsInv
  <1>d. (\A m \in DOMAIN alerts : Unrecorded(m) =>
            /\ \A i \in m + 1 .. Len(alerts) : alerts[i].run # alerts[m].run
            /\ alerts[m].run = run => pc \in {"action", "down"})'
    <2>1. SUFFICES ASSUME NEW m \in DOMAIN alerts, Unrecorded(m)'
                   PROVE  /\ \A i \in m + 1 .. Len(alerts) : alerts[i].run # alerts[m].run
                          /\ alerts[m].run # run
      BY <1>2
    <2>2. Unrecorded(m) /\ m # last
      BY <1>9, <2>1
    <2>3. \A i \in m + 1 .. Len(alerts) : alerts[i].run # alerts[m].run
      BY <2>2 DEF ActionsInv
    <2>4. last \in m + 1 .. Len(alerts)
      BY <1>n, <1>4, <2>2
    <2>5. alerts[last].run = run
      BY <1>4 DEF CandidacyOf, Candidacy
    <2>6. QED
      BY <2>3, <2>4, <2>5
  <1>e. (\A k, l \in Actions, m, i \in DOMAIN alerts :
            Tells(k, m) /\ Tells(l, i) => (k < l <=> m < i))'
    <2>1. SUFFICES ASSUME NEW k \in Actions \cup {n}, NEW l \in Actions \cup {n},
                          NEW m \in DOMAIN alerts, NEW i \in DOMAIN alerts,
                          Tells(k, m)', Tells(l, i)'
                   PROVE  k < l <=> m < i
      BY <1>2, <1>5
    <2>2. /\ k # n => k \in 1 .. Len(records) /\ Tells(k, m) /\ m # last
          /\ l # n => l \in 1 .. Len(records) /\ Tells(l, i) /\ i # last
          /\ k = n => m = last
          /\ l = n => i = last
      BY <1>5, <1>6, <1>7, <1>8, <2>1
    <2>3. CASE k # n /\ l # n
      BY <2>2, <2>3, <1>5 DEF ActionsInv
    <2>4. CASE k = n \/ l = n
      BY <1>n, <1>1, <1>4, <2>2, <2>4
    <2>5. QED
      BY <2>3, <2>4
  <1>f. QED
    BY <1>2, <1>a, <1>c, <1>d, <1>e DEF ActionsInv

\* The sink is given an alert of a candidacy nobody knows of.
LEMMA EmitKeepsActions ==
    ASSUME TypeOK, DecisionInv, ActionsInv, EmitAlert
    PROVE  ActionsInv'
  <1>n. PICK n : n = Len(alerts) + 1
    OBVIOUS
  <1>1. /\ pc = "alert" /\ pc' = "action" /\ frame' = frame
        /\ alerts' = Append(alerts, Alert) /\ UNCHANGED <<pos, run, records>>
    BY DEF EmitAlert, Continue, sessionVars
  <1>2. CandidacyOf(Alert) = Candidacy /\ Candidacy' = Candidacy
    BY <1>1 DEF Alert, CandidacyOf, Candidacy, Strategy
  <1>3. IsStore(alerts) /\ Len(alerts) \in Nat /\ DOMAIN alerts = 1 .. Len(alerts)
    BY DEF DecisionInv, IsStore
  <1> HIDE DEF Alert
  <1>4. /\ IsStore(alerts') /\ DOMAIN alerts' = 1 .. n /\ Len(alerts') = n
        /\ alerts'[n] = Alert /\ \A i \in DOMAIN alerts : alerts'[i] = alerts[i]
    <2>1. /\ IsStore(Append(alerts, Alert)) /\ Len(Append(alerts, Alert)) = n
          /\ Append(alerts, Alert)[n] = Alert
          /\ \A i \in 1 .. Len(alerts) : Append(alerts, Alert)[i] = alerts[i]
      BY <1>n, <1>3, AppendExtends
    <2>2. QED
      BY <1>1, <1>3, <2>1 DEF IsStore
  <1>5. ~Settled(Candidacy) /\ IsCandidacy(Candidacy)
    BY <1>1, CurrentIsNotSettled DEF BotStages
  <1>6. Candidacy \notin Concluded /\ Candidacy \notin ToSet(Raised)
    BY <1>1, <1>5 DEF DecisionInv
  <1>7. Actions' = Actions
    BY <1>1 DEF Actions
  <1>8. /\ \A k \in Actions : \A m \in DOMAIN alerts : Tells(k, m)' <=> Tells(k, m)
        /\ \A k \in Actions : ~Tells(k, n)'
    <2>1. \A k \in Actions : CandidacyOf(records[k]) # Candidacy
      BY <1>6, ActionsConclude
    <2>2. \A k \in Actions : Tells(k, n)' <=> CandidacyOf(records[k]) = CandidacyOf(Alert)
      BY <1>1, <1>4 DEF Tells, CandidacyOf
    <2>3. \A k \in Actions : \A m \in DOMAIN alerts : Tells(k, m)' <=> Tells(k, m)
      BY <1>1, <1>4 DEF Tells, CandidacyOf
    <2>4. QED
      BY <1>2, <2>1, <2>2, <2>3
  <1>9. \A m \in DOMAIN alerts : Unrecorded(m)' <=> Unrecorded(m)
    BY <1>7, <1>8 DEF Unrecorded
  <1>d. \A m \in DOMAIN alerts' : m = n \/ m \in DOMAIN alerts
    BY <1>n, <1>3, <1>4
  <1>a. (\A m, i \in DOMAIN alerts : CandidacyOf(alerts[m]) = CandidacyOf(alerts[i]) => m = i)'
    <2>1. \A m \in DOMAIN alerts : CandidacyOf(alerts'[m]) # CandidacyOf(alerts'[n])
      <3>1. \A m \in DOMAIN alerts : CandidacyOf(alerts[m]) \in ToSet(Raised)
        BY <1>3, RaisedKeys DEF ToSet
      <3>2. QED
        BY <1>2, <1>4, <1>6, <3>1
    <2>2. \A m, i \in DOMAIN alerts :
             CandidacyOf(alerts'[m]) = CandidacyOf(alerts'[i]) => m = i
      BY <1>4 DEF ActionsInv
    <2>3. \A m, i \in DOMAIN alerts' :
             CandidacyOf(alerts'[m]) = CandidacyOf(alerts'[i]) => m = i
      BY <1>d, <2>1, <2>2
    <2>4. QED
      BY <2>3 DEF CandidacyOf
  <1>c. (pc = "action" => Len(alerts) > 0 /\ CandidacyOf(alerts[Len(alerts)]) = Candidacy)'
    BY <1>n, <1>2, <1>3, <1>4 DEF CandidacyOf
  <1>e. (\A k \in Actions : \E m \in DOMAIN alerts : Tells(k, m))'
    BY <1>n, <1>3, <1>4, <1>7, <1>8 DEF ActionsInv
  <1>f. (\A m \in DOMAIN alerts : Unrecorded(m) =>
            /\ \A i \in m + 1 .. Len(alerts) : alerts[i].run # alerts[m].run
            /\ alerts[m].run = run => pc \in {"action", "down"})'
    <2>1. SUFFICES ASSUME NEW m \in DOMAIN alerts', Unrecorded(m)', NEW i \in m + 1 .. n
                   PROVE  alerts'[i].run # alerts'[m].run
      BY <1>1, <1>4
    <2>2. m \in DOMAIN alerts /\ (i = n \/ i \in m + 1 .. Len(alerts)) /\ i \in DOMAIN alerts'
      BY <1>n, <1>3, <1>4, <1>d, <2>1
    <2>3. /\ \A j \in m + 1 .. Len(alerts) : alerts[j].run # alerts[m].run
          /\ alerts[m].run # run
      BY <1>1, <1>9, <2>1, <2>2 DEF ActionsInv
    <2>4. alerts'[n].run = run
      BY <1>2, <1>4 DEF CandidacyOf, Candidacy
    <2>5. i \in m + 1 .. Len(alerts) => i \in DOMAIN alerts
      BY <1>3, <2>2
    <2>6. QED
      BY <1>4, <2>2, <2>3, <2>4, <2>5
  <1>g. (\A k, l \in Actions, m, i \in DOMAIN alerts :
            Tells(k, m) /\ Tells(l, i) => (k < l <=> m < i))'
    <2>1. SUFFICES ASSUME NEW k \in Actions, NEW l \in Actions,
                          NEW m \in DOMAIN alerts', NEW i \in DOMAIN alerts',
                          Tells(k, m)', Tells(l, i)'
                   PROVE  k < l <=> m < i
      BY <1>7
    <2>2. m \in DOMAIN alerts /\ i \in DOMAIN alerts
      BY <1>d, <1>8, <2>1
    <2>3. QED
      BY <1>8, <2>1, <2>2 DEF ActionsInv
  <1>h. QED
    BY <1>a, <1>c, <1>e, <1>f, <1>g DEF ActionsInv

LEMMA OtherStepsKeepActions ==
    ASSUME TypeOK, DecisionInv, ActionsInv,
           Observe \/ Finish \/ Capture \/ Crash \/ Boot \/ UNCHANGED vars
    PROVE  ActionsInv'
  <1>1. records' = records /\ alerts' = alerts
    BY DEF Observe, Finish, Capture, Crash, Boot, vars, storeVars
  <1>2. /\ Actions' = Actions
        /\ \A k, m : Tells(k, m)' <=> Tells(k, m)
        /\ \A m : Unrecorded(m)' <=> Unrecorded(m)
    BY <1>1 DEF Actions, Tells, Unrecorded, CandidacyOf
  <1>3. /\ pc' = "action" => pc = "action" /\ Candidacy' = Candidacy
        /\ pc \in {"action", "down"} => pc' \in {"action", "down"} \/ Boot
    <2>1. CASE UNCHANGED vars
      BY <2>1 DEF vars, Candidacy, Strategy
    <2>2. CASE Observe \/ Finish \/ Capture \/ Crash \/ Boot
      BY <2>2 DEF Observe, Finish, Capture, Crash, Boot, Continue
    <2>3. QED
      BY <2>1, <2>2
  <1>4. \A m \in DOMAIN alerts : Unrecorded(m) /\ alerts[m].run = run' =>
           pc' \in {"action", "down"}
    <2>1. CASE Boot
      <3>1. run \in Nat /\ run' = run + 1
        BY <2>1, MaxRunsAssumption DEF Boot, TypeOK
      <3>2. \A m \in DOMAIN alerts : CandidacyOf(alerts[m]) \in ToSet(Raised)
        BY RaisedKeys DEF ToSet, DecisionInv
      <3>3. \A m \in DOMAIN alerts : alerts[m].run \in Nat /\ alerts[m].run =< run
        <4>1. \A k \in ToSet(Raised) : k.run \in Nat /\ k.run =< run
          BY <3>1 DEF DecisionInv, IsCandidacy, Settled, OfEarlierEvent, OfEarlierBot, Candidacy
        <4>2. QED
          BY <3>2, <4>1 DEF CandidacyOf
      <3>4. QED
        BY <3>1, <3>3
    <2>2. CASE ~Boot
      <3>1. run' = run
        BY <2>2 DEF Observe, Finish, Capture, Crash, vars
      <3>2. QED
        BY <1>3, <2>2, <3>1 DEF ActionsInv
    <2>3. QED
      BY <2>1, <2>2
  <1>5. (\A m \in DOMAIN alerts : Unrecorded(m) =>
            /\ \A i \in m + 1 .. Len(alerts) : alerts[i].run # alerts[m].run
            /\ alerts[m].run = run => pc \in {"action", "down"})'
    BY <1>1, <1>2, <1>4 DEF ActionsInv
  <1>6. (\A m, n \in DOMAIN alerts :
            CandidacyOf(alerts[m]) = CandidacyOf(alerts[n]) => m = n)'
    BY <1>1 DEF ActionsInv, CandidacyOf
  <1>7. (pc = "action" => Len(alerts) > 0 /\ CandidacyOf(alerts[Len(alerts)]) = Candidacy)'
    BY <1>1, <1>3 DEF ActionsInv, CandidacyOf
  <1>8. QED
    BY <1>1, <1>2, <1>5, <1>6, <1>7 DEF ActionsInv

\* For every deployment the ACTION records say what went out, in that order,
\* and lack at most the alert a run was cut short after.
THEOREM ActionsAreOnRecord == Spec => []ActionsAreRecorded
  <1>1. Init => ActionsInv
    BY DEF Init, ActionsInv, Actions
  <1>2. TypeOK /\ DecisionInv /\ ActionsInv /\ [Next]_vars => ActionsInv'
    BY StepWrites, OtherRecordsKeepActions, ActionRecordTells, EmitKeepsActions,
       OtherStepsKeepActions DEF DecisionInv
  <1>3. QED
    BY <1>1, <1>2, ActionsInvSuffices, DecisionsAreInOrder, PipelineTyping, PTL DEF Spec
==============================================================================
