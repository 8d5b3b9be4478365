------------------------------ MODULE Validation -----------------------------
(****************************************************************************)
(* Final pre-trade validation: MaterialDeteriorationValidator.              *)
(*                                                                          *)
(* A gate is the validator's configuration,                                 *)
(*     [staleness, deterioration, refresher]                                *)
(* where an unset policy is None.  Fractions and ratios are percentages and *)
(* are compared by cross-multiplication: what the code's Decimal division   *)
(* decides, up to its rounding to 28 digits.                                *)
(****************************************************************************)
EXTENDS Metrics, FiniteSetsExt

StalenessPolicies == [max_snapshot_age_ms : Int, max_slot_lag : Int]

DeteriorationPolicies ==
    [max_price_drop_fraction     : Int,
     max_liquidity_drop_fraction : Int,
     max_slippage_bps            : Int,
     max_sell_pressure_ratio     : Int,
     cancel_on_dev_sold          : BOOLEAN,
     cancel_on_smart_wallet_exit : BOOLEAN,
     cancel_on_lp_supply_change  : BOOLEAN]

Gates == [staleness     : Optional(StalenessPolicies),
          deterioration : Optional(DeteriorationPolicies),
          refresher     : BOOLEAN]

\* The fields _read_volatile refuses to be without.  smart_wallets and
\* lp_token_supply are read as they are.
RequiredFields == {"price", "liquidity", "slippage_bps", "dev_sold",
                   "buy_volume", "sell_volume"}

\* _read_volatile: the volatile fields that are unknown.
Unknown(metrics) == {f \in RequiredFields : metrics[f] = None}

\* Mutant: decision and re-read are taken for each other.
RiseExceeds(before, after, limit) == 100 * (after - before) > limit * before

\* Mutant: the limit is taken for the share that must remain.
RemainsBelow(before, after, limit) == 100 * after < limit * before

\* _drop_fraction(before, after) > limit, for a positive before.
DropExceeds(before, after, limit) == 100 * (before - after) > limit * before

\* The checks of _compare, in the order of its early returns.
Comparisons ==
    <<"price_undefined", "max_price_drop_fraction",
      "liquidity_undefined", "max_liquidity_drop_fraction",
      "max_slippage_bps", "cancel_on_dev_sold",
      "sell_pressure_undefined", "max_sell_pressure_ratio",
      "cancel_on_smart_wallet_exit", "cancel_on_lp_supply_change">>

\* Mutant: the wallets that joined are taken for the wallets that left.
WalletsJoined(before, after) ==
    after.smart_wallet_addresses \ before.smart_wallet_addresses

\* The smart wallets of the decision snapshot that are no longer present.
WalletsExited(before, after) ==
    before.smart_wallet_addresses \ after.smart_wallet_addresses

\* _compare: which checks the state after the decision fails, given the state
\* it was made on.  Each is meaningful once those before it did not fail.
Breached(before, after, policy) ==
    [price_undefined             |-> before.price <= 0,
     max_price_drop_fraction     |->
        DropExceeds(before.price, after.price, policy.max_price_drop_fraction),
     liquidity_undefined         |-> before.liquidity <= 0,
     max_liquidity_drop_fraction |->
        DropExceeds(before.liquidity, after.liquidity, policy.max_liquidity_drop_fraction),
     max_slippage_bps            |-> after.slippage_bps > policy.max_slippage_bps,
     cancel_on_dev_sold          |-> policy.cancel_on_dev_sold /\ after.dev_sold,
     sell_pressure_undefined     |-> after.buy_volume <= 0,
     max_sell_pressure_ratio     |->
        100 * after.sell_volume > policy.max_sell_pressure_ratio * after.buy_volume,
     cancel_on_smart_wallet_exit |->
        /\ policy.cancel_on_smart_wallet_exit
        /\ WalletsExited(before, after) # {},
     cancel_on_lp_supply_change  |->
        /\ policy.cancel_on_lp_supply_change
        /\ before.lp_state.lp_token_supply # after.lp_state.lp_token_supply]

\* The check a verdict names: the first that failed, "none" when none did.
FirstBreach(breached) ==
    LET failed == {i \in DOMAIN Comparisons : breached[Comparisons[i]]}
    IN  IF failed = {} THEN "none" ELSE Comparisons[Min(failed)]

\* RefreshedState merged onto what is known, captured but not written back.
FreshSnapshot(refreshed, base, sequence) ==
    [mint           |-> refreshed.mint,
     slot           |-> refreshed.slot,
     captured_at_ms |-> refreshed.observed_at_ms,
     sequence       |-> sequence,
     metrics        |-> MergeMetrics(base, refreshed.fields)]

\* The slots a fresh snapshot is behind the newer of the event and itself.
SlotLag(current_slot, fresh) ==
    (IF current_slot > fresh.slot THEN current_slot ELSE fresh.slot) - fresh.slot

\* validate, once a fresh state was read: why it cancels, "none" when it passes.
Cause(gate, decided, fresh, current_slot, now) ==
    IF now - fresh.captured_at_ms > gate.staleness.max_snapshot_age_ms
        THEN "max_snapshot_age_ms"
    ELSE IF SlotLag(current_slot, fresh) > gate.staleness.max_slot_lag
        THEN "max_slot_lag"
    ELSE IF Unknown(decided.metrics) # {} THEN "unknown_at_decision"
    ELSE IF Unknown(fresh.metrics) # {} THEN "unknown_at_validation"
    ELSE FirstBreach(Breached(decided.metrics, fresh.metrics, gate.deterioration))

Verdict(cause, fresh, current_slot, now) ==
    [outcome          |-> IF cause = "none" THEN "pass" ELSE "cancelled",
     cause            |-> cause,
     checked_snapshot |-> fresh,
     checked_at_ms    |-> now,
     age_ms           |-> now - fresh.captured_at_ms,
     slot_lag         |-> SlotLag(current_slot, fresh)]

\* _cancel without a snapshot: nothing was read.
Unread(cause) ==
    [outcome |-> "cancelled", cause |-> cause, checked_snapshot |-> None,
     checked_at_ms |-> None, age_ms |-> None, slot_lag |-> None]

Configured(gate) ==
    gate.staleness # None /\ gate.deterioration # None /\ gate.refresher

\* validate: refreshed is None when the refresher had no state to give.
Validate(gate, decided, refreshed, base, current_slot, now, sequence) ==
    LET fresh == FreshSnapshot(refreshed, base, sequence)
    IN  IF ~Configured(gate)      THEN Unread("unconfigured")
        ELSE IF refreshed = None  THEN Unread("unavailable")
        ELSE Verdict(Cause(gate, decided, fresh, current_slot, now),
                     fresh, current_slot, now)
=============================================================================
