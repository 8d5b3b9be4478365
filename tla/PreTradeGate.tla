----------------------------- MODULE PreTradeGate ----------------------------
(****************************************************************************)
(* The validator as a gate: one question, put to ever stricter validators.  *)
(*                                                                          *)
(* A question is what validate is asked about: the decision snapshot, the   *)
(* answer of the re-read, what continuous state knows, the slot of the      *)
(* event and the time.  A step replaces the validator by one that is at     *)
(* least as strict in every limit, or not configured at all.                *)
(****************************************************************************)
EXTENDS Validation

CONSTANTS
    GateChoices,    \* configurations the validator may be built with
    Questions       \* what it may be asked

IsQuestion(q) ==
    /\ q.decided \in [metrics : TokenMetrics]
    /\ q.base \in TokenMetrics
    /\ q.current_slot \in Int
    /\ q.now \in Int
    /\ \/ q.refreshed = None
       \/ /\ q.refreshed.slot \in Int
          /\ q.refreshed.observed_at_ms \in Int
          /\ IsReport(q.refreshed.fields)

ASSUME GateChoicesAssumption == GateChoices \subseteq Gates
ASSUME QuestionsAssumption == \A q \in Questions : IsQuestion(q)

VARIABLES gate, question

gateVars == <<gate, question>>

NoLooser(g, h) ==
    /\ h.max_price_drop_fraction =< g.max_price_drop_fraction
    /\ h.max_liquidity_drop_fraction =< g.max_liquidity_drop_fraction
    /\ h.max_slippage_bps =< g.max_slippage_bps
    /\ h.max_sell_pressure_ratio =< g.max_sell_pressure_ratio
    /\ g.cancel_on_dev_sold => h.cancel_on_dev_sold
    /\ g.cancel_on_smart_wallet_exit => h.cancel_on_smart_wallet_exit
    /\ g.cancel_on_lp_supply_change => h.cancel_on_lp_supply_change

\* h is at least as strict as g; what is not configured is the strictest.
AtLeastAsStrict(g, h) ==
    Configured(h) =>
        /\ Configured(g)
        /\ h.staleness.max_snapshot_age_ms =< g.staleness.max_snapshot_age_ms
        /\ h.staleness.max_slot_lag =< g.staleness.max_slot_lag
        /\ NoLooser(g.deterioration, h.deterioration)

Answer(g, q) ==
    Validate(g, q.decided, q.refreshed, q.base, q.current_slot, q.now, 0)

GateInit == gate \in GateChoices /\ question \in Questions

Tighten ==
    /\ gate' \in {h \in GateChoices : AtLeastAsStrict(gate, h)}
    /\ UNCHANGED question

GateSpec == GateInit /\ [][Tighten]_gateVars
------------------------------------------------------------------------------
GateTypeOK == gate \in GateChoices /\ question \in Questions

Passes == Answer(gate, question).outcome = "pass"

\* A stricter limit never admits what a looser one refused
\* (test_validation_properties.py).
TighteningNeverAdmits == [][Passes' => Passes]_gateVars

\* What must hold for an action to be taken, said without an order of checks
\* and of what is left rather than of what was lost.
Acceptable(g, q) ==
    LET is  == MergeMetrics(q.base, q.refreshed.fields)
        was == q.decided.metrics
        p   == g.deterioration
    IN  /\ Configured(g)
        /\ q.refreshed # None
        /\ q.refreshed.observed_at_ms >= q.now - g.staleness.max_snapshot_age_ms
        /\ \A seen \in {q.current_slot, q.refreshed.slot} :
              q.refreshed.slot >= seen - g.staleness.max_slot_lag
        /\ \A f \in RequiredFields : was[f] # None /\ is[f] # None
        /\ was.price > 0 /\ was.liquidity > 0 /\ is.buy_volume > 0
        /\ is.price * 100 >= (100 - p.max_price_drop_fraction) * was.price
        /\ is.liquidity * 100 >= (100 - p.max_liquidity_drop_fraction) * was.liquidity
        /\ is.slippage_bps =< p.max_slippage_bps
        /\ p.cancel_on_dev_sold => ~is.dev_sold
        /\ is.sell_volume * 100 =< p.max_sell_pressure_ratio * is.buy_volume
        /\ p.cancel_on_smart_wallet_exit =>
              was.smart_wallet_addresses \subseteq is.smart_wallet_addresses
        /\ p.cancel_on_lp_supply_change => was.lp_state = is.lp_state

\* The gate fails closed and no further: it passes exactly what is acceptable,
\* so no order of the early returns hides a check or invents one.
PassesIffAcceptable == Passes <=> Acceptable(gate, question)
=============================================================================
