--------------------------- MODULE ValidationProofs --------------------------
(****************************************************************************)
(* What converting and merging a report gives, and what passing final       *)
(* validation means, for any report, any gate and any two states.           *)
(****************************************************************************)
EXTENDS Validation, TLAPS

\* What to_patch_fields returns of a raw report is a report.
LEMMA PatchFieldsAreAReport ==
    ASSUME NEW raw, IsRawReport(raw)
    PROVE  IsReport(ToPatchFields(raw))
  BY DEF IsRawReport, IsReport, ToPatchFields

\* merge_metrics, field by field.
LEMMA MergeByField ==
    ASSUME NEW base, NEW values, NEW f \in MetricFields
    PROVE  MergeMetrics(base, values)[f] =
              IF f \in DOMAIN values THEN values[f] ELSE base[f]
  BY DEF MergeMetrics, MetricFields, DecimalFields, ContainerFields

\* Merging a report onto metrics gives metrics.
LEMMA MergedIsMetrics ==
    ASSUME NEW base \in TokenMetrics, NEW values, IsReport(values)
    PROVE  MergeMetrics(base, values) \in TokenMetrics
  <1> DEFINE Merged(f) == IF f \in DOMAIN values THEN values[f] ELSE base[f]
  <1>1. \A f \in DecimalFields : Merged(f) \in Optional(Int)
    BY DEF IsReport, FieldValues, DecimalFields, TokenMetrics
  <1>2. Merged("dev_sold") \in Optional(BOOLEAN)
    BY DEF IsReport, FieldValues, DecimalFields, TokenMetrics
  <1>3. Merged("smart_wallet_addresses") \in SUBSET Wallets
    BY DEF IsReport, FieldValues, DecimalFields, TokenMetrics
  <1>4. Merged("lp_state") \in LpState
    BY DEF IsReport, FieldValues, DecimalFields, TokenMetrics
  <1>5. QED
    BY <1>1, <1>2, <1>3, <1>4 DEF MergeMetrics, TokenMetrics, DecimalFields
------------------------------------------------------------------------------
\* A set of positions in the list of comparisons has a first one.
LEMMA FirstOfComparisons ==
    ASSUME NEW S \in SUBSET (1 .. 10), S # {}
    PROVE  Min(S) \in S
  <1>1. ASSUME NEW n \in 1 .. 10, n \in S, \A k \in 1 .. 10 : k < n => k \notin S
        PROVE  \E x \in S : \A y \in S : x =< y
    <2>1. \A y \in S : n =< y
      BY <1>1
    <2>2. QED
      BY <1>1, <2>1
  <1>2. \E n \in 1 .. 10 : n \in S /\ \A k \in 1 .. 10 : k < n => k \notin S
    <2>1. \/ 1 \in S \/ 2 \in S \/ 3 \in S \/ 4 \in S \/ 5 \in S
          \/ 6 \in S \/ 7 \in S \/ 8 \in S \/ 9 \in S \/ 10 \in S
      <3>1. PICK x \in 1 .. 10 : x \in S
        OBVIOUS
      <3>2. x = 1 \/ x = 2 \/ x = 3 \/ x = 4 \/ x = 5 \/ x = 6 \/ x = 7 \/ x = 8
               \/ x = 9 \/ x = 10
        OBVIOUS
      <3>3. QED
        BY <3>1, <3>2
    <2> DEFINE none(n) == \A k \in 1 .. 10 : k < n => k \notin S
    <2>2. \A n \in 1 .. 9 : none(n) /\ n \notin S => none(n + 1)
      OBVIOUS
    <2>3. none(1)
      OBVIOUS
    <2> SUFFICES ASSUME \A n \in 1 .. 10 : n \in S => ~none(n)
                 PROVE  FALSE
      OBVIOUS
    <2> HIDE DEF none
    <2>4. 1 \notin S /\ none(2)
      BY <2>2, <2>3
    <2>5. 2 \notin S /\ none(3)
      BY <2>2, <2>4
    <2>6. 3 \notin S /\ none(4)
      BY <2>2, <2>5
    <2>7. 4 \notin S /\ none(5)
      BY <2>2, <2>6
    <2>8. 5 \notin S /\ none(6)
      BY <2>2, <2>7
    <2>9. 6 \notin S /\ none(7)
      BY <2>2, <2>8
    <2>10. 7 \notin S /\ none(8)
      BY <2>2, <2>9
    <2>11. 8 \notin S /\ none(9)
      BY <2>2, <2>10
    <2>12. 9 \notin S /\ none(10)
      BY <2>2, <2>11
    <2>13. 10 \notin S
      BY <2>12
    <2>14. QED
      BY <2>1, <2>4, <2>5, <2>6, <2>7, <2>8, <2>9, <2>10, <2>11, <2>12, <2>13
  <1>3. QED
    BY <1>1, <1>2 DEF Min

\* No early return of _compare is taken exactly when no check fails.
LEMMA NoBreach ==
    ASSUME NEW b
    PROVE  FirstBreach(b) = "none" <=> \A i \in 1 .. 10 : ~b[Comparisons[i]]
  <1> DEFINE failed == {i \in DOMAIN Comparisons : b[Comparisons[i]]}
  <1>1. DOMAIN Comparisons = 1 .. 10
    BY DEF Comparisons
  <1>2. \A i \in 1 .. 10 : Comparisons[i] # "none"
    BY DEF Comparisons
  <1>3. failed # {} => Min(failed) \in failed
    BY <1>1, FirstOfComparisons
  <1>4. QED
    BY <1>1, <1>2, <1>3 DEF FirstBreach

\* No check fails, said of the checks one by one.
LEMMA ChecksByName ==
    ASSUME NEW b
    PROVE  (\A i \in 1 .. 10 : ~b[Comparisons[i]]) <=>
              /\ ~b.price_undefined
              /\ ~b.max_price_drop_fraction
              /\ ~b.liquidity_undefined
              /\ ~b.max_liquidity_drop_fraction
              /\ ~b.max_slippage_bps
              /\ ~b.cancel_on_dev_sold
              /\ ~b.sell_pressure_undefined
              /\ ~b.max_sell_pressure_ratio
              /\ ~b.cancel_on_smart_wallet_exit
              /\ ~b.cancel_on_lp_supply_change
  <1>1. (\A i \in 1 .. 10 : ~b[Comparisons[i]]) <=>
          /\ ~b[Comparisons[1]] /\ ~b[Comparisons[2]] /\ ~b[Comparisons[3]]
          /\ ~b[Comparisons[4]] /\ ~b[Comparisons[5]] /\ ~b[Comparisons[6]]
          /\ ~b[Comparisons[7]] /\ ~b[Comparisons[8]] /\ ~b[Comparisons[9]]
          /\ ~b[Comparisons[10]]
    <2>1. \A i \in 1 .. 10 : i = 1 \/ i = 2 \/ i = 3 \/ i = 4 \/ i = 5 \/ i = 6 \/ i = 7
                                \/ i = 8 \/ i = 9 \/ i = 10
      OBVIOUS
    <2>2. 1 \in 1 .. 10 /\ 2 \in 1 .. 10 /\ 3 \in 1 .. 10 /\ 4 \in 1 .. 10 /\ 5 \in 1 .. 10
          /\ 6 \in 1 .. 10 /\ 7 \in 1 .. 10 /\ 8 \in 1 .. 10 /\ 9 \in 1 .. 10
          /\ 10 \in 1 .. 10
      OBVIOUS
    <2>3. QED
      BY <2>1, <2>2, Zenon
  <1>2. /\ Comparisons[1] = "price_undefined"
        /\ Comparisons[2] = "max_price_drop_fraction"
        /\ Comparisons[3] = "liquidity_undefined"
        /\ Comparisons[4] = "max_liquidity_drop_fraction"
        /\ Comparisons[5] = "max_slippage_bps"
        /\ Comparisons[6] = "cancel_on_dev_sold"
        /\ Comparisons[7] = "sell_pressure_undefined"
        /\ Comparisons[8] = "max_sell_pressure_ratio"
        /\ Comparisons[9] = "cancel_on_smart_wallet_exit"
        /\ Comparisons[10] = "cancel_on_lp_supply_change"
    BY DEF Comparisons
  <1>3. QED
    BY <1>1, <1>2, Zenon

\* No check fails, said of the two states and the policy.
NothingBreached(before, after, policy) ==
    /\ ~(before.price <= 0)
    /\ ~DropExceeds(before.price, after.price, policy.max_price_drop_fraction)
    /\ ~(before.liquidity <= 0)
    /\ ~DropExceeds(before.liquidity, after.liquidity, policy.max_liquidity_drop_fraction)
    /\ ~(after.slippage_bps > policy.max_slippage_bps)
    /\ ~(policy.cancel_on_dev_sold /\ after.dev_sold)
    /\ ~(after.buy_volume <= 0)
    /\ ~(100 * after.sell_volume > policy.max_sell_pressure_ratio * after.buy_volume)
    /\ ~(policy.cancel_on_smart_wallet_exit /\ WalletsExited(before, after) # {})
    /\ ~(policy.cancel_on_lp_supply_change
            /\ before.lp_state.lp_token_supply # after.lp_state.lp_token_supply)

LEMMA NoBreachByName ==
    ASSUME NEW before, NEW after, NEW policy
    PROVE  FirstBreach(Breached(before, after, policy)) = "none"
              <=> NothingBreached(before, after, policy)
  <1> DEFINE b == Breached(before, after, policy)
  <1>1. FirstBreach(b) = "none" <=> \A i \in 1 .. 10 : ~b[Comparisons[i]]
    BY NoBreach
  <1>2. (\A i \in 1 .. 10 : ~b[Comparisons[i]]) <=> NothingBreached(before, after, policy)
    <2> HIDE DEF b
    <2>1. (\A i \in 1 .. 10 : ~b[Comparisons[i]]) <=>
              /\ ~b.price_undefined
              /\ ~b.max_price_drop_fraction
              /\ ~b.liquidity_undefined
              /\ ~b.max_liquidity_drop_fraction
              /\ ~b.max_slippage_bps
              /\ ~b.cancel_on_dev_sold
              /\ ~b.sell_pressure_undefined
              /\ ~b.max_sell_pressure_ratio
              /\ ~b.cancel_on_smart_wallet_exit
              /\ ~b.cancel_on_lp_supply_change
      BY ChecksByName
    <2>2. QED
      BY <2>1, Zenon DEF b, Breached, NothingBreached
  <1>3. QED
    BY <1>1, <1>2

\* What it takes to pass, check by check.
Granted(gate, decided, refreshed, base, current_slot, now) ==
    LET after == MergeMetrics(base, refreshed.fields) IN
    /\ Configured(gate)
    /\ refreshed # None
    /\ ~(now - refreshed.observed_at_ms > gate.staleness.max_snapshot_age_ms)
    /\ ~((IF current_slot > refreshed.slot THEN current_slot ELSE refreshed.slot)
            - refreshed.slot > gate.staleness.max_slot_lag)
    /\ Unknown(decided.metrics) = {}
    /\ Unknown(after) = {}
    /\ NothingBreached(decided.metrics, after, gate.deterioration)

\* The validator passes exactly when none of its early returns is taken.
LEMMA PassIsGranted ==
    ASSUME NEW gate, NEW decided, NEW refreshed, NEW base, NEW current_slot, NEW now,
           NEW sequence
    PROVE  LET verdict == Validate(gate, decided, refreshed, base, current_slot, now, sequence)
           IN  /\ verdict.outcome = "pass"
                     <=> Granted(gate, decided, refreshed, base, current_slot, now)
               /\ verdict.outcome = "pass" =>
                     verdict.checked_snapshot = FreshSnapshot(refreshed, base, sequence)
  <1> DEFINE verdict == Validate(gate, decided, refreshed, base, current_slot, now, sequence)
             fresh == FreshSnapshot(refreshed, base, sequence)
             cause == Cause(gate, decided, fresh, current_slot, now)
  <1>1. CASE ~Configured(gate) \/ refreshed = None
    BY <1>1 DEF Validate, Unread, Granted
  <1>2. CASE Configured(gate) /\ refreshed # None
    <2>1. verdict = Verdict(cause, fresh, current_slot, now)
      BY <1>2 DEF Validate
    <2>2. /\ verdict.outcome = "pass" <=> cause = "none"
          /\ verdict.checked_snapshot = fresh
      <3> HIDE DEF cause, fresh, verdict
      <3>1. QED
        BY <2>1 DEF Verdict
    <2>3. /\ fresh.slot = refreshed.slot
          /\ fresh.captured_at_ms = refreshed.observed_at_ms
          /\ fresh.metrics = MergeMetrics(base, refreshed.fields)
      BY DEF FreshSnapshot
    <2>4. cause = "none" <=>
            /\ ~(now - fresh.captured_at_ms > gate.staleness.max_snapshot_age_ms)
            /\ ~(SlotLag(current_slot, fresh) > gate.staleness.max_slot_lag)
            /\ Unknown(decided.metrics) = {}
            /\ Unknown(fresh.metrics) = {}
            /\ FirstBreach(Breached(decided.metrics, fresh.metrics, gate.deterioration)) = "none"
      <3> HIDE DEF fresh
      <3>1. QED
        BY DEF cause, Cause
    <2>5. cause = "none" <=> Granted(gate, decided, refreshed, base, current_slot, now)
      BY <1>2, <2>3, <2>4, NoBreachByName DEF Granted, SlotLag
    <2>6. QED
      BY <2>2, <2>5
  <1>3. QED
    BY <1>1, <1>2

\* A required field that is not unknown has a value of its type.
LEMMA KnownFields ==
    ASSUME NEW m \in TokenMetrics, Unknown(m) = {}
    PROVE  /\ m.price \in Int /\ m.liquidity \in Int /\ m.slippage_bps \in Int
           /\ m.buy_volume \in Int /\ m.sell_volume \in Int
           /\ m.dev_sold \in BOOLEAN
  <1>1. \A f \in RequiredFields : m[f] # None
    BY DEF Unknown
  <1>2. QED
    BY <1>1 DEF RequiredFields, TokenMetrics, Optional

\* A limit on what may be lost, said of what must be left.
LEMMA LossAndRest ==
    ASSUME NEW a \in Int, NEW b \in Int, NEW limit \in Int
    PROVE  ~DropExceeds(b, a, limit) <=> a * 100 >= (100 - limit) * b
  BY DEF DropExceeds

\* A smaller share of something positive is smaller.
LEMMA ShareIsMonotone ==
    ASSUME NEW x \in Int, NEW y \in Int, x =< y, NEW b \in Int, b > 0
    PROVE  x * b =< y * b
  OBVIOUS

\* What the policies of a configured gate hold.
LEMMA ConfiguredPolicies ==
    ASSUME NEW g \in Gates, Configured(g)
    PROVE  /\ g.staleness.max_snapshot_age_ms \in Int
           /\ g.staleness.max_slot_lag \in Int
           /\ g.deterioration \in DeteriorationPolicies
  BY DEF Configured, Gates, Optional, StalenessPolicies

\* Nothing is breached exactly when what is left is acceptable.
LEMMA NothingBreachedIsAcceptable ==
    ASSUME NEW p \in DeteriorationPolicies,
           NEW was \in TokenMetrics, Unknown(was) = {},
           NEW is \in TokenMetrics, Unknown(is) = {}
    PROVE  NothingBreached(was, is, p) <=>
             /\ was.price > 0 /\ was.liquidity > 0 /\ is.buy_volume > 0
             /\ is.price * 100 >= (100 - p.max_price_drop_fraction) * was.price
             /\ is.liquidity * 100 >= (100 - p.max_liquidity_drop_fraction) * was.liquidity
             /\ is.slippage_bps =< p.max_slippage_bps
             /\ p.cancel_on_dev_sold => ~is.dev_sold
             /\ is.sell_volume * 100 =< p.max_sell_pressure_ratio * is.buy_volume
             /\ p.cancel_on_smart_wallet_exit =>
                   was.smart_wallet_addresses \subseteq is.smart_wallet_addresses
             /\ p.cancel_on_lp_supply_change => was.lp_state = is.lp_state
  <1>1. /\ was.price \in Int /\ was.liquidity \in Int
        /\ is.price \in Int /\ is.liquidity \in Int /\ is.slippage_bps \in Int
        /\ is.buy_volume \in Int /\ is.sell_volume \in Int
    BY KnownFields
  <1>2. /\ ~(was.price <= 0) <=> was.price > 0
        /\ ~(was.liquidity <= 0) <=> was.liquidity > 0
        /\ ~(is.buy_volume <= 0) <=> is.buy_volume > 0
    BY <1>1
  <1>3. ~DropExceeds(was.price, is.price, p.max_price_drop_fraction) <=>
           is.price * 100 >= (100 - p.max_price_drop_fraction) * was.price
    BY <1>1, LossAndRest DEF DeteriorationPolicies
  <1>4. ~DropExceeds(was.liquidity, is.liquidity, p.max_liquidity_drop_fraction) <=>
           is.liquidity * 100 >= (100 - p.max_liquidity_drop_fraction) * was.liquidity
    BY <1>1, LossAndRest DEF DeteriorationPolicies
  <1>5. ~(is.slippage_bps > p.max_slippage_bps) <=> is.slippage_bps =< p.max_slippage_bps
    BY <1>1 DEF DeteriorationPolicies
  <1>6. ~(100 * is.sell_volume > p.max_sell_pressure_ratio * is.buy_volume) <=>
           is.sell_volume * 100 =< p.max_sell_pressure_ratio * is.buy_volume
    BY <1>1 DEF DeteriorationPolicies
  <1>7. WalletsExited(was, is) = {} <=>
           was.smart_wallet_addresses \subseteq is.smart_wallet_addresses
    BY DEF WalletsExited
  <1>8. was.lp_state.lp_token_supply = is.lp_state.lp_token_supply
           <=> was.lp_state = is.lp_state
    BY DEF TokenMetrics, LpState
  <1>9. QED
    BY <1>2, <1>3, <1>4, <1>5, <1>6, <1>7, <1>8, Zenon DEF NothingBreached
==============================================================================
