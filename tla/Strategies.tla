------------------------------ MODULE Strategies -----------------------------
(****************************************************************************)
(* What a strategy makes of a candidate: its filter chain, heavy analysis,  *)
(* the weighted score and the two bots' gates.                              *)
(*                                                                          *)
(* Filters, rejection rules and analysis modules are ports.  Their answers  *)
(* are functions of what the pipeline hands them, given as CONSTANT         *)
(* operators: a deployment chooses them, the pipeline must work with any.   *)
(****************************************************************************)
EXTENDS Metrics, FiniteSetsExt, SequencesExt

CONSTANTS
    FilterAccepts(_, _),     \* does this filter accept the candidate?
    RuleRejects(_, _, _),    \* does this hard rule reject candidate and features?
    ModuleFeatures(_, _),    \* the features a module produces for a candidate
    ModuleIsDeclaredOnly(_)  \* does this module raise ModuleNotImplementedError?

\* FilterChain.run: the filters asked, up to and including the first rejection.
FilterRun(filters, candidate) ==
    LET rejecting == {i \in DOMAIN filters : ~FilterAccepts(filters[i], candidate)}
    IN  [accepted |-> rejecting = {},
         trace    |-> IF rejecting = {} THEN filters
                      ELSE SubSeq(filters, 1, Min(rejecting))]

\* Mutant: only when nothing that is enabled is implemented.
RaisesIfAllRaise(enabled) == \A i \in DOMAIN enabled : ModuleIsDeclaredOnly(enabled[i])

\* HeavyAnalysisRegistry.analyze raises when an enabled module is declared only.
AnalysisRaises(enabled) == \E i \in DOMAIN enabled : ModuleIsDeclaredOnly(enabled[i])

Analyze(enabled, candidate) ==
    FlattenSeq([i \in DOMAIN enabled |-> ModuleFeatures(enabled[i], candidate)])

\* FeatureSet.get: the first feature of that name.
FeatureValue(features, name) ==
    features[Min({i \in DOMAIN features : features[i].name = name})].value

\* Mutant: a weighted feature no module produced counts for nothing.
ScoreOfProduced(weights, features) ==
    LET produced == {features[i].name : i \in DOMAIN features}
    IN  IF DOMAIN weights = {} THEN None
        ELSE MapThenSumSet(LAMBDA f : weights[f] * FeatureValue(features, f),
                           DOMAIN weights \cap produced)

\* WeightedScorer.score: no weights, or a weighted feature that no module
\* produced, and there is no score.
WeightedScore(weights, features) ==
    LET produced == {features[i].name : i \in DOMAIN features}
    IN  IF DOMAIN weights = {} \/ ~(DOMAIN weights \subseteq produced) THEN None
        ELSE MapThenSumSet(LAMBDA f : weights[f] * FeatureValue(features, f),
                           DOMAIN weights)

\* The gate both bots end in: an own threshold over the own scorer.
ThresholdDecision(strategy, features) ==
    LET score == WeightedScore(strategy.weights, features)
    IN  IF strategy.threshold = None \/ score = None
            THEN [outcome |-> "not_configured", score |-> None]
        ELSE [outcome |-> IF score >= strategy.threshold THEN "advance" ELSE "reject",
              score   |-> score]

\* BotA.evaluate: hard rejection rules come before any score is considered.
EvaluateBotA(strategy, candidate, features) ==
    IF \E i \in DOMAIN strategy.rules : RuleRejects(strategy.rules[i], candidate, features)
        THEN [outcome |-> "reject", score |-> None]
        ELSE ThresholdDecision(strategy, features)

\* BotB.evaluate: no hard-rejection stage.
EvaluateBotB(strategy, features) == ThresholdDecision(strategy, features)

Evaluate(strategy, candidate, features) ==
    IF strategy.name = "bot_a" THEN EvaluateBotA(strategy, candidate, features)
    ELSE EvaluateBotB(strategy, features)
=============================================================================
