-------------------------- MODULE PreTradeGateProofs -------------------------
(****************************************************************************)
(* What the gate admits, for every configuration and every question, and    *)
(* how little of that hangs on the precision quotients are computed with.   *)
(****************************************************************************)
EXTENDS DecimalGate, ValidationProofs, WellFoundedInduction

\* The metrics the check compares with those of the decision.
Fresh(q) == MergeMetrics(q.base, q.refreshed.fields)

\* The gate grants the question.
Admits(g, q) == Granted(g, q.decided, q.refreshed, q.base, q.current_slot, q.now)

LEMMA PassIsAdmitted ==
    ASSUME NEW g, NEW q
    PROVE  Answer(g, q).outcome = "pass" <=> Admits(g, q)
  BY PassIsGranted DEF Answer, Admits

\* Nothing a stricter policy finds no fault with is faulted by a looser one.
LEMMA NoLooserFaultsLess ==
    ASSUME NEW p \in DeteriorationPolicies, NEW s \in DeteriorationPolicies,
           NoLooser(p, s),
           NEW before \in TokenMetrics, Unknown(before) = {},
           NEW after \in TokenMetrics, Unknown(after) = {},
           NothingBreached(before, after, s)
    PROVE  NothingBreached(before, after, p)
  <1>1. /\ before.price \in Int /\ before.liquidity \in Int
        /\ after.price \in Int /\ after.liquidity \in Int /\ after.slippage_bps \in Int
        /\ after.buy_volume \in Int /\ after.sell_volume \in Int
        /\ after.dev_sold \in BOOLEAN
    BY KnownFields
  <1>2. before.price > 0 /\ before.liquidity > 0 /\ after.buy_volume > 0
    BY <1>1 DEF NothingBreached
  <1>3. ~DropExceeds(before.price, after.price, p.max_price_drop_fraction)
    <2>1. s.max_price_drop_fraction * before.price
             =< p.max_price_drop_fraction * before.price
      BY <1>1, <1>2, ShareIsMonotone DEF NoLooser, DeteriorationPolicies
    <2>2. 100 * (before.price - after.price) =< s.max_price_drop_fraction * before.price
      BY <1>1 DEF NothingBreached, DropExceeds, DeteriorationPolicies
    <2>3. QED
      BY <1>1, <2>1, <2>2 DEF DropExceeds, DeteriorationPolicies
  <1>4. ~DropExceeds(before.liquidity, after.liquidity, p.max_liquidity_drop_fraction)
    <2>1. s.max_liquidity_drop_fraction * before.liquidity
             =< p.max_liquidity_drop_fraction * before.liquidity
      BY <1>1, <1>2, ShareIsMonotone DEF NoLooser, DeteriorationPolicies
    <2>2. 100 * (before.liquidity - after.liquidity)
             =< s.max_liquidity_drop_fraction * before.liquidity
      BY <1>1 DEF NothingBreached, DropExceeds, DeteriorationPolicies
    <2>3. QED
      BY <1>1, <2>1, <2>2 DEF DropExceeds, DeteriorationPolicies
  <1>5. ~(100 * after.sell_volume > p.max_sell_pressure_ratio * after.buy_volume)
    <2>1. s.max_sell_pressure_ratio * after.buy_volume
             =< p.max_sell_pressure_ratio * after.buy_volume
      BY <1>1, <1>2, ShareIsMonotone DEF NoLooser, DeteriorationPolicies
    <2>2. 100 * after.sell_volume =< s.max_sell_pressure_ratio * after.buy_volume
      BY <1>1 DEF NothingBreached, DeteriorationPolicies
    <2>3. QED
      BY <1>1, <2>1, <2>2 DEF DeteriorationPolicies
  <1>6. ~(after.slippage_bps > p.max_slippage_bps)
    BY <1>1 DEF NothingBreached, NoLooser, DeteriorationPolicies
  <1>7. /\ ~(p.cancel_on_dev_sold /\ after.dev_sold)
        /\ ~(p.cancel_on_smart_wallet_exit /\ WalletsExited(before, after) # {})
        /\ ~(p.cancel_on_lp_supply_change
                /\ before.lp_state.lp_token_supply # after.lp_state.lp_token_supply)
    BY Zenon DEF NothingBreached, NoLooser
  <1>8. QED
    BY <1>3, <1>4, <1>5, <1>6, <1>7, Zenon DEF NothingBreached

\* What a stricter gate grants, a looser one grants too.
LEMMA StricterGrantsLess ==
    ASSUME NEW g \in Gates, NEW h \in Gates, AtLeastAsStrict(g, h),
           NEW q, IsQuestion(q), Admits(h, q)
    PROVE  Admits(g, q)
  <1>1. /\ Configured(h) /\ Configured(g)
        /\ h.staleness.max_snapshot_age_ms =< g.staleness.max_snapshot_age_ms
        /\ h.staleness.max_slot_lag =< g.staleness.max_slot_lag
        /\ NoLooser(g.deterioration, h.deterioration)
    BY DEF AtLeastAsStrict, Admits, Granted
  <1>2. /\ g.staleness.max_snapshot_age_ms \in Int /\ h.staleness.max_snapshot_age_ms \in Int
        /\ g.staleness.max_slot_lag \in Int /\ h.staleness.max_slot_lag \in Int
        /\ g.deterioration \in DeteriorationPolicies
        /\ h.deterioration \in DeteriorationPolicies
    BY <1>1, ConfiguredPolicies
  <1>3. /\ q.now \in Int /\ q.current_slot \in Int
        /\ q.refreshed # None /\ q.refreshed.slot \in Int
        /\ q.refreshed.observed_at_ms \in Int
    BY DEF IsQuestion, Admits, Granted
  <1>4. q.decided.metrics \in TokenMetrics /\ Fresh(q) \in TokenMetrics
    BY MergedIsMetrics DEF IsQuestion, Admits, Granted, Fresh
  <1>5. /\ Unknown(q.decided.metrics) = {} /\ Unknown(Fresh(q)) = {}
        /\ NothingBreached(q.decided.metrics, Fresh(q), h.deterioration)
    BY DEF Admits, Granted, Fresh
  <1>6. NothingBreached(q.decided.metrics, Fresh(q), g.deterioration)
    BY <1>1, <1>2, <1>4, <1>5, NoLooserFaultsLess
  <1>7. ~(q.now - q.refreshed.observed_at_ms > g.staleness.max_snapshot_age_ms)
    BY <1>1, <1>2, <1>3 DEF Admits, Granted
  <1> DEFINE newest == IF q.current_slot > q.refreshed.slot THEN q.current_slot
                       ELSE q.refreshed.slot
  <1>8. ~(newest - q.refreshed.slot > g.staleness.max_slot_lag)
    <2>1. newest \in Int
      BY <1>3
    <2>2. ~(newest - q.refreshed.slot > h.staleness.max_slot_lag)
      BY DEF Admits, Granted
    <2> HIDE DEF newest
    <2>3. QED
      BY <1>1, <1>2, <1>3, <2>1, <2>2
  <1>9. QED
    BY <1>1, <1>3, <1>5, <1>6, <1>7, <1>8 DEF Admits, Granted, Fresh

\* A step only ever chooses among the configurations.
THEOREM GateTyping == GateSpec => []GateTypeOK
  <1>1. GateInit => GateTypeOK
    BY DEF GateInit, GateTypeOK
  <1>2. GateTypeOK /\ [Tighten]_gateVars => GateTypeOK'
    BY DEF GateTypeOK, Tighten, gateVars
  <1>3. QED
    BY <1>1, <1>2, PTL DEF GateSpec

\* However a validator is tightened, it never admits what it refused before:
\* for every configuration and every question it may be asked.
THEOREM TighteningOnlyRefuses == GateSpec => TighteningNeverAdmits
  <1>1. GateTypeOK /\ [Tighten]_gateVars => [Passes' => Passes]_gateVars
    <2> SUFFICES ASSUME GateTypeOK, Tighten, Passes' PROVE Passes
      BY DEF gateVars
    <2>1. gate \in Gates /\ gate' \in Gates /\ IsQuestion(question)
          /\ AtLeastAsStrict(gate, gate') /\ question' = question
      BY GateChoicesAssumption, QuestionsAssumption DEF GateTypeOK, Tighten
    <2>2. Admits(gate', question)
      BY <2>1, PassIsAdmitted DEF Passes
    <2>3. Admits(gate, question)
      BY <2>1, <2>2, StricterGrantsLess
    <2>4. QED
      BY <2>3, PassIsAdmitted DEF Passes
  <1>2. QED
    BY <1>1, GateTyping, PTL DEF GateSpec, TighteningNeverAdmits

\* The gate fails closed and no further: for every configuration and question,
\* what it passes is exactly what is acceptable.
THEOREM PassesExactlyTheAcceptable == GateSpec => []PassesIffAcceptable
  <1>1. GateTypeOK => PassesIffAcceptable
    <2> SUFFICES ASSUME NEW g \in Gates, NEW q, IsQuestion(q)
                 PROVE  Admits(g, q) <=> Acceptable(g, q)
      BY GateChoicesAssumption, QuestionsAssumption, PassIsAdmitted
         DEF GateTypeOK, PassesIffAcceptable, Passes
    <2> SUFFICES ASSUME Configured(g), q.refreshed # None
                 PROVE  Admits(g, q) <=> Acceptable(g, q)
      BY DEF Admits, Granted, Acceptable
    <2>1. /\ g.staleness.max_snapshot_age_ms \in Int
          /\ g.staleness.max_slot_lag \in Int
          /\ g.deterioration \in DeteriorationPolicies
      BY DEF Configured, Gates, Optional, StalenessPolicies
    <2>2. /\ q.now \in Int /\ q.current_slot \in Int
          /\ q.refreshed.slot \in Int /\ q.refreshed.observed_at_ms \in Int
      BY DEF IsQuestion
    <2>3. q.decided.metrics \in TokenMetrics /\ Fresh(q) \in TokenMetrics
      BY MergedIsMetrics DEF IsQuestion, Fresh
    <2>4. ~(q.now - q.refreshed.observed_at_ms > g.staleness.max_snapshot_age_ms) <=>
             q.refreshed.observed_at_ms >= q.now - g.staleness.max_snapshot_age_ms
      BY <2>1, <2>2
    <2>5. ~((IF q.current_slot > q.refreshed.slot THEN q.current_slot ELSE q.refreshed.slot)
               - q.refreshed.slot > g.staleness.max_slot_lag) <=>
             \A seen \in {q.current_slot, q.refreshed.slot} :
                q.refreshed.slot >= seen - g.staleness.max_slot_lag
      BY <2>1, <2>2
    <2>6. (Unknown(q.decided.metrics) = {} /\ Unknown(Fresh(q)) = {}) <=>
             \A f \in RequiredFields : q.decided.metrics[f] # None /\ Fresh(q)[f] # None
      BY DEF Unknown
    <2>7. CASE ~(Unknown(q.decided.metrics) = {} /\ Unknown(Fresh(q)) = {})
      BY <2>6, <2>7, Zenon DEF Admits, Granted, Acceptable, Fresh
    <2>8. CASE Unknown(q.decided.metrics) = {} /\ Unknown(Fresh(q)) = {}
      <3>1. NothingBreached(q.decided.metrics, Fresh(q), g.deterioration) <=>
             /\ q.decided.metrics.price > 0 /\ q.decided.metrics.liquidity > 0
             /\ Fresh(q).buy_volume > 0
             /\ Fresh(q).price * 100 >=
                   (100 - g.deterioration.max_price_drop_fraction) * q.decided.metrics.price
             /\ Fresh(q).liquidity * 100 >=
                   (100 - g.deterioration.max_liquidity_drop_fraction)
                      * q.decided.metrics.liquidity
             /\ Fresh(q).slippage_bps =< g.deterioration.max_slippage_bps
             /\ g.deterioration.cancel_on_dev_sold => ~Fresh(q).dev_sold
             /\ Fresh(q).sell_volume * 100 =<
                   g.deterioration.max_sell_pressure_ratio * Fresh(q).buy_volume
             /\ g.deterioration.cancel_on_smart_wallet_exit =>
                   q.decided.metrics.smart_wallet_addresses
                      \subseteq Fresh(q).smart_wallet_addresses
             /\ g.deterioration.cancel_on_lp_supply_change =>
                   q.decided.metrics.lp_state = Fresh(q).lp_state
        BY <2>1, <2>3, <2>8, NothingBreachedIsAcceptable
      <3>2. QED
        BY <2>4, <2>5, <2>6, <2>8, <3>1, Zenon DEF Admits, Granted, Acceptable, Fresh
    <2>9. QED
      BY <2>7, <2>8
  <1>2. QED
    BY <1>1, GateTyping, PTL
------------------------------------------------------------------------------
\* Every set of naturals has a least element, and what holds of 0 and passes on
\* to the next number holds of all: induction, over sets.
LEMMA NaturalsAreWellFounded ==
    \E R : IsWellFoundedOn(R, Nat) /\ \A x, y \in Nat : x < y => <<x, y>> \in R
  <1> DEFINE R == OpToRel(<, Nat)
  <1>1. IsWellFoundedOn(R, Nat)
    BY NatLessThanWellFounded
  <1>2. \A x, y \in Nat : x < y => <<x, y>> \in R
    BY DEF OpToRel
  <1>3. QED
    BY <1>1, <1>2

LEMMA LeastNatural ==
    ASSUME NEW S \in SUBSET Nat, S # {}
    PROVE  \E m \in S : \A k \in S : m =< k
  <1>1. PICK R : IsWellFoundedOn(R, Nat) /\ \A x, y \in Nat : x < y => <<x, y>> \in R
    BY NaturalsAreWellFounded
  <1>2. IsWellFoundedOn(R, Nat) /\ S \subseteq Nat
    BY <1>1
  <1>3. PICK m \in S : \A k \in S : <<k, m>> \notin R
    BY <1>2, WFMin
  <1>4. \A k \in S : ~(k < m)
    BY <1>1, <1>3, Zenon
  <1>5. QED
    BY <1>4

LEMMA ReachesEveryNatural ==
    ASSUME NEW S, 0 \in S, \A n \in Nat : n \in S => n + 1 \in S
    PROVE  Nat \subseteq S
  <1>1. SUFFICES ASSUME Nat \ S # {} PROVE FALSE
    OBVIOUS
  <1>2. PICK m \in Nat \ S : \A k \in Nat \ S : m =< k
    BY <1>1, LeastNatural
  <1>3. m - 1 \in Nat /\ m - 1 \notin Nat \ S
    BY <1>2
  <1>4. QED
    BY <1>2, <1>3

\* A bounded set of integers that is not empty has its minimum.
LEMMA MinOfBounded ==
    ASSUME NEW b \in Nat, NEW S \in SUBSET (-b .. b), S # {}
    PROVE  Min(S) \in S
  <1> DEFINE T == {k + b : k \in S}
  <1>1. T \in SUBSET Nat /\ T # {}
    <2>1. \A k \in S : k \in Int /\ k + b \in Nat
      OBVIOUS
    <2>2. QED
      BY <2>1
  <1>2. PICK m \in T : \A k \in T : m =< k
    BY <1>1, LeastNatural
  <1>3. PICK s \in S : m = s + b
    OBVIOUS
  <1>4. \A k \in S : s =< k
    <2> TAKE k \in S
    <2>1. k + b \in T /\ k \in Int /\ s \in Int
      OBVIOUS
    <2>2. m =< k + b
      BY <1>2, <2>1
    <2>3. QED
      BY <1>3, <2>1, <2>2
  <1>5. \E x \in S : \A y \in S : x =< y
    BY <1>4
  <1>6. QED
    BY <1>5, Zenon DEF Min

\* The first powers of ten, as a function on 0 .. n.
ArePowers(f, n) ==
    /\ f \in [0 .. n -> Nat \ {0}]
    /\ f[0] = 1
    /\ \A e \in 1 .. n : f[e] = 10 * f[e - 1]

LEMMA PowersExist == \A n \in Nat : \E f : ArePowers(f, n)
  <1> DEFINE S == {n \in Nat : \E f : ArePowers(f, n)}
  <1>1. 0 \in S
    <2>1. ArePowers([e \in 0 .. 0 |-> 1], 0)
      BY DEF ArePowers
    <2>2. QED
      BY <2>1
  <1>2. ASSUME NEW n \in Nat, n \in S PROVE n + 1 \in S
    <2>1. PICK f : ArePowers(f, n)
      BY <1>2
    <2>2. ArePowers([e \in 0 .. n + 1 |-> IF e = n + 1 THEN 10 * f[n] ELSE f[e]], n + 1)
      BY <2>1 DEF ArePowers
    <2>3. QED
      BY <2>2
  <1> HIDE DEF S
  <1>3. Nat \subseteq S
    BY <1>1, <1>2, ReachesEveryNatural
  <1>4. QED
    BY <1>3 DEF S

LEMMA PowersAgree ==
    ASSUME NEW n \in Nat, NEW m \in Nat, NEW f, NEW g, ArePowers(f, n), ArePowers(g, m)
    PROVE  \A e \in Nat : e =< n /\ e =< m => f[e] = g[e]
  <1> DEFINE S == {e \in Nat : e =< n /\ e =< m => f[e] = g[e]}
  <1>1. 0 \in S
    BY DEF ArePowers
  <1>2. ASSUME NEW e \in Nat, e \in S PROVE e + 1 \in S
    <2>1. CASE e + 1 =< n /\ e + 1 =< m
      <3>1. f[e] = g[e] /\ e + 1 \in 1 .. n /\ e + 1 \in 1 .. m /\ (e + 1) - 1 = e
        BY <1>2, <2>1
      <3>2. QED
        BY <3>1 DEF ArePowers
    <2>2. QED
      BY <2>1
  <1> HIDE DEF S
  <1>3. Nat \subseteq S
    BY <1>1, <1>2, ReachesEveryNatural
  <1>4. QED
    BY <1>3 DEF S

\* The recursive definition defines what it says: there is a function that
\* satisfies it, put together from the first powers, and it is made of powers.
LEMMA PowersOfTen ==
    /\ PowerOfTen \in [Nat -> Nat \ {0}]
    /\ PowerOfTen[0] = 1
    /\ \A e \in Nat : PowerOfTen[e + 1] = 10 * PowerOfTen[e]
  <1> DEFINE First(n) == CHOOSE f : ArePowers(f, n)
             F == [e \in Nat |-> First(e)[e]]
  <1>1. \A n \in Nat : ArePowers(First(n), n)
    BY PowersExist
  <1> HIDE DEF First
  <1>2. F \in [Nat -> Nat \ {0}] /\ F[0] = 1
    BY <1>1 DEF ArePowers
  <1>3. ASSUME NEW e \in Nat PROVE F[e + 1] = 10 * F[e]
    <2>1. First(e + 1)[e] = First(e)[e]
      BY <1>1, PowersAgree
    <2>2. ArePowers(First(e + 1), e + 1) /\ e + 1 \in 1 .. e + 1 /\ (e + 1) - 1 = e
      BY <1>1
    <2>3. First(e + 1)[e + 1] = 10 * First(e + 1)[e]
      BY <2>2 DEF ArePowers
    <2>4. QED
      BY <2>1, <2>3
  <1> HIDE DEF F
  <1>4. F = [e \in Nat |-> IF e = 0 THEN 1 ELSE 10 * F[e - 1]]
    <2>1. ASSUME NEW e \in Nat PROVE F[e] = IF e = 0 THEN 1 ELSE 10 * F[e - 1]
      <3>1. e # 0 => e - 1 \in Nat /\ (e - 1) + 1 = e
        OBVIOUS
      <3>2. QED
        BY <1>2, <1>3, <3>1
    <2>2. QED
      BY <1>2, <2>1
  <1>5. PowerOfTen = [e \in Nat |-> IF e = 0 THEN 1 ELSE 10 * PowerOfTen[e - 1]]
    BY <1>4 DEF PowerOfTen
  <1> DEFINE S == {e \in Nat : PowerOfTen[e] = F[e]}
  <1>6. 0 \in S
    BY <1>2, <1>5
  <1>7. ASSUME NEW e \in Nat, e \in S PROVE e + 1 \in S
    <2>1. e + 1 \in Nat /\ e + 1 # 0 /\ (e + 1) - 1 = e
      OBVIOUS
    <2>2. PowerOfTen[e + 1] = 10 * PowerOfTen[e]
      BY <1>5, <2>1
    <2>3. QED
      BY <1>3, <1>7, <2>1, <2>2
  <1> HIDE DEF S
  <1>8. Nat \subseteq S
    BY <1>6, <1>7, ReachesEveryNatural
  <1>9. \A e \in Nat : PowerOfTen[e] = F[e]
    BY <1>8 DEF S
  <1>10. PowerOfTen \in [Nat -> Nat \ {0}]
    BY <1>2, <1>5, <1>9
  <1>11. QED
    BY <1>2, <1>3, <1>9, <1>10

LEMMA TenToIsPositive == \A e \in Int : TenTo(e) \in Nat \ {0}
  BY PowersOfTen DEF TenTo

LEMMA AbsIsNatural ==
    \A n \in Int : Abs(n) \in Nat /\ (n # 0 => Abs(n) > 0) /\ n =< Abs(n) /\ -n =< Abs(n)
  BY DEF Abs

\* Rounding to an integer is off by half at most, and by less, in relation,
\* the more there is of it.
LEMMA HalfEvenIsNear ==
    ASSUME NEW n \in Nat, NEW d \in Nat \ {0}, NEW p \in Nat \ {0}, p * d =< n
    PROVE  /\ HalfEven(n, d) \in Nat
           /\ (2 * p + 1) * (HalfEven(n, d) * d - n) =< n
           /\ (2 * p + 1) * (n - HalfEven(n, d) * d) =< n
  <1> DEFINE q == n \div d
             r == n % d
             m == HalfEven(n, d)
  <1>1. q \in Int /\ r \in Nat /\ r < d /\ n = d * q + r
    OBVIOUS
  <1>2. (m = q /\ 2 * r =< d) \/ (m = q + 1 /\ 2 * r >= d)
    <2> DEFINE odd == q % 2 = 1
    <2>1. m = IF 2 * r > d \/ (2 * r = d /\ odd) THEN q + 1 ELSE q
      BY DEF HalfEven
    <2>2. r \in Int
      BY <1>1
    <2> HIDE DEF q, r, m, odd
    <2>3. CASE 2 * r > d \/ (2 * r = d /\ odd)
      BY <2>1, <2>2, <2>3
    <2>4. CASE ~(2 * r > d \/ (2 * r = d /\ odd))
      BY <2>1, <2>2, <2>4
    <2>5. QED
      BY <2>3, <2>4
  <1> HIDE DEF q, r, m
  <1>3. q >= p
    <2>1. SUFFICES ASSUME q + 1 =< p PROVE FALSE
      BY <1>1
    <2>2. (q + 1) * d =< p * d
      BY <1>1, <2>1, ShareIsMonotone
    <2>3. QED
      BY <1>1, <2>2
  <1>4. q * d >= p * d
    BY <1>1, <1>3, ShareIsMonotone
  <1>5. CASE m = q /\ 2 * r =< d
    <2>1. n - m * d = r
      BY <1>1, <1>5
    <2>2. 2 * r * p =< d * p
      BY <1>1, <1>5, ShareIsMonotone
    <2>3. (2 * p + 1) * r =< n
      BY <1>1, <1>4, <2>2
    <2>4. (2 * p + 1) * (-r) =< n
      BY <1>1
    <2>5. m * d - n = -r
      BY <1>1, <2>1, <1>5
    <2>6. QED
      BY <1>1, <1>3, <1>5, <2>1, <2>3, <2>4, <2>5 DEF m
  <1>6. CASE m = q + 1 /\ 2 * r >= d
    <2>1. m * d - n = d - r
      BY <1>1, <1>6
    <2>2. 2 * (d - r) =< d
      BY <1>1, <1>6
    <2>3. (2 * (d - r)) * p =< d * p
      BY <1>1, <2>2, ShareIsMonotone
    <2>4. (2 * p + 1) * (d - r) =< p * d + (d - r)
      BY <1>1, <2>3
    <2>5. d - r =< r
      BY <1>1, <1>6
    <2>6. (2 * p + 1) * (d - r) =< n
      BY <1>1, <1>4, <2>4, <2>5
    <2>7. n - m * d = -(d - r) /\ (2 * p + 1) * (-(d - r)) =< n
      BY <1>1, <2>1, <1>6
    <2>8. QED
      BY <1>1, <1>3, <1>6, <2>1, <2>6, <2>7 DEF m
  <1>7. QED
    BY <1>2, <1>5, <1>6

LEMMA ProductMonotone ==
    ASSUME NEW x \in Int, NEW y \in Int, x =< y, NEW c \in Nat
    PROVE  x * c =< y * c
  OBVIOUS

\* A positive factor may be cancelled.
LEMMA CancelFactor ==
    ASSUME NEW x \in Int, NEW y \in Int, NEW c \in Nat \ {0}, x * c =< y * c
    PROVE  x =< y
  <1>1. SUFFICES ASSUME y + 1 =< x PROVE FALSE
    OBVIOUS
  <1>2. (y + 1) * c =< x * c
    BY <1>1, ShareIsMonotone
  <1>3. QED
    BY <1>2

\* How far two fractions are apart, over the product of their denominators.
Distance(q, r) == Abs(r[1] * q[2] - q[1] * r[2])

\* r is q to within one part in 2p + 1.
IsNear(p, q, r) ==
    /\ r[1] \in Int /\ r[2] \in Nat \ {0}
    /\ (2 * p + 1) * Distance(q, r) =< Abs(q[1]) * r[2]

\* What the largest shift brings up to Digits digits.
InRange(n, d) ==
    n = 0 \/ PowerOfTen[Digits - 1] * d =< Abs(n) * PowerOfTen[MaxExponent]

\* Some shift brings a fraction up to Digits digits, so there is a least one.
LEMMA ShiftExists ==
    ASSUME NEW n \in Int, n # 0, NEW d \in Nat \ {0}, InRange(n, d)
    PROVE  \E s \in Int :
             /\ PowerOfTen[Digits - 1] * d * TenTo(-s) =< Abs(n) * TenTo(s)
             /\ LET m == HalfEven(Abs(n) * TenTo(s), d * TenTo(-s))
                IN  Rounded(<<n, d>>) =
                      <<(IF n < 0 THEN -1 ELSE 1) * m * TenTo(-s), TenTo(s)>>
  <1> DEFINE E == {e \in -MaxExponent .. MaxExponent :
                      Abs(n) * TenTo(e) >= PowerOfTen[Digits - 1] * d * TenTo(-e)}
             s == Min(E)
  <1>1. MaxExponent \in Nat /\ Digits - 1 \in Nat
    BY DigitsAssumption
  <1>2. Abs(n) * TenTo(MaxExponent) >= PowerOfTen[Digits - 1] * d * TenTo(-MaxExponent)
    <2>1. TenTo(MaxExponent) = PowerOfTen[MaxExponent] /\ TenTo(-MaxExponent) = 1
      <3>1. PowerOfTen[0] = 1
        BY PowersOfTen
      <3>2. QED
        BY <1>1, <3>1 DEF TenTo
    <2>2. PICK p \in Nat, m \in Nat, a \in Nat :
             p = PowerOfTen[Digits - 1] /\ m = PowerOfTen[MaxExponent] /\ a = Abs(n)
      BY <1>1, PowersOfTen, AbsIsNatural
    <2>3. p * d =< a * m
      BY <2>2 DEF InRange
    <2>4. a * m >= p * d * 1
      BY <2>3
    <2>5. QED
      BY <2>1, <2>2, <2>4
  <1>3. MaxExponent \in E /\ E \in SUBSET (-MaxExponent .. MaxExponent)
    BY <1>1, <1>2
  <1>4. s \in E
    BY <1>1, <1>3, MinOfBounded
  <1>5. Rounded(<<n, d>>) =
          LET m == HalfEven(Abs(n) * TenTo(s), d * TenTo(-s))
          IN  <<(IF n < 0 THEN -1 ELSE 1) * m * TenTo(-s), TenTo(s)>>
    BY DEF Rounded
  <1> HIDE DEF E, s
  <1>6. QED
    BY <1>4, <1>5 DEF E

\* Rounding is near, whatever the fraction; and what rounds a whole number
\* other than zero leaves no less than one of it.
LEMMA RoundedIsNear ==
    ASSUME NEW n \in Int, NEW d \in Nat \ {0}, InRange(n, d)
    PROVE  /\ IsNear(PowerOfTen[Digits - 1], <<n, d>>, Rounded(<<n, d>>))
           /\ d = 1 /\ n # 0 => Abs(Rounded(<<n, d>>)[1]) >= Rounded(<<n, d>>)[2]
  <1>p. PICK p \in Nat \ {0} : p = PowerOfTen[Digits - 1]
    BY PowersOfTen, DigitsAssumption
  <1>1. CASE n = 0
    <2>1. Rounded(<<n, d>>) = <<0, 1>>
      BY <1>1 DEF Rounded
    <2>2. 0 * d - n * 1 = 0
      BY <1>1
    <2>3. QED
      BY <1>1, <1>p, <2>1, <2>2 DEF IsNear, Distance, Abs
  <1>2. CASE n # 0
    <2>1. PICK s \in Int :
             /\ PowerOfTen[Digits - 1] * d * TenTo(-s) =< Abs(n) * TenTo(s)
             /\ LET m == HalfEven(Abs(n) * TenTo(s), d * TenTo(-s))
                IN  Rounded(<<n, d>>) =
                      <<(IF n < 0 THEN -1 ELSE 1) * m * TenTo(-s), TenTo(s)>>
      BY <1>2, ShiftExists
    <2>2. PICK t \in Nat \ {0}, u \in Nat \ {0} : t = TenTo(-s) /\ u = TenTo(s)
      <3>1. -s \in Int
        OBVIOUS
      <3>2. QED
        BY <3>1, TenToIsPositive
    <2>3. PICK a \in Nat \ {0} : a = Abs(n)
      BY <1>2, AbsIsNatural
    <2>4. PICK m : m = HalfEven(a * u, d * t)
      OBVIOUS
    <2>5. a * u \in Nat /\ d * t \in Nat \ {0} /\ p * (d * t) =< a * u
      <3>1. p * d * t = p * (d * t)
        OBVIOUS
      <3>2. d * t > 0 /\ a * u >= 0
        OBVIOUS
      <3>3. QED
        BY <1>p, <2>1, <2>2, <2>3, <3>1, <3>2
    <2>6. /\ m \in Nat
          /\ (2 * p + 1) * (m * (d * t) - a * u) =< a * u
          /\ (2 * p + 1) * (a * u - m * (d * t)) =< a * u
      BY <2>4, <2>5, HalfEvenIsNear
    <2>7. Rounded(<<n, d>>) = <<(IF n < 0 THEN -1 ELSE 1) * m * t, u>>
      BY <2>1, <2>2, <2>3, <2>4
    <2>8. PICK g \in {-1, 1} : g = (IF n < 0 THEN -1 ELSE 1) /\ n = g * a
      BY <2>3 DEF Abs
    <2>9. (g * m * t) * d - n * u = g * (m * (d * t) - a * u)
      <3>1. CASE g = 1
        BY <2>6, <2>8, <3>1
      <3>2. CASE g = -1
        BY <2>6, <2>8, <3>2
      <3>3. QED
        BY <3>1, <3>2
    <2>10. IsNear(p, <<n, d>>, <<g * m * t, u>>)
      <3>1. g * m * t \in Int
        BY <2>6
      <3> DEFINE x == m * (d * t) - a * u
      <3>2. x \in Int
        BY <2>6
      <3>3. Abs(g * x) = x \/ Abs(g * x) = -x
        BY <3>2 DEF Abs
      <3>4. -x = a * u - m * (d * t)
        BY <2>6
      <3>5. (2 * p + 1) * Abs(g * x) =< a * u
        BY <2>6, <3>3, <3>4
      <3> HIDE DEF x
      <3>6. QED
        BY <2>3, <2>9, <3>1, <3>5 DEF IsNear, Distance, x
    <2>11. CASE d = 1
      <3>1. Abs(g * m * t) = m * t
        <4>1. g * m * t = m * t \/ g * m * t = -(m * t)
          BY <2>6
        <4>2. m * t >= 0
          BY <2>6
        <4>3. QED
          BY <2>6, <4>1, <4>2 DEF Abs
      <3>2. m * t >= u
        <4>1. CASE s > 0
          <5>1. t = 1
            BY <2>2, <4>1 DEF TenTo
          <5>2. m = a * u
            BY <2>4, <2>5, <2>11, <5>1 DEF HalfEven
          <5>3. a * u >= u
            OBVIOUS
          <5>4. QED
            BY <5>1, <5>2, <5>3
        <4>2. CASE ~(s > 0)
          <5>1. u = 1
            BY <2>2, <4>2 DEF TenTo
          <5>2. m # 0
            BY <2>6, <2>5, <5>1
          <5>3. m * t >= 1
            BY <2>6, <5>2
          <5>4. QED
            BY <5>1, <5>3
        <4>3. QED
          BY <4>1, <4>2
      <3>3. QED
        BY <1>p, <2>7, <2>8, <2>10, <3>1, <3>2
    <2>12. QED
      BY <1>p, <2>7, <2>8, <2>10, <2>11
  <1>3. QED
    BY <1>1, <1>2

\* A comparison that turns with q replaced by r has its limit between the two.
LEMMA LimitIsBetween ==
    ASSUME NEW n \in Int, NEW d \in Nat \ {0}, NEW x \in Int, NEW y \in Nat \ {0},
           NEW limit \in Int, Exceeds(<<n, d>>, limit) # Exceeds(<<x, y>>, limit)
    PROVE  Abs(100 * n - limit * d) * y =< 100 * Distance(<<n, d>>, <<x, y>>)
  <1> DEFINE l == limit
             e == x * d - n * y
  <1>1. e \in Int /\ Abs(e) \in Int /\ e =< Abs(e) /\ -e =< Abs(e)
    BY AbsIsNatural
  <1>2. Distance(<<n, d>>, <<x, y>>) = Abs(e)
    BY DEF Distance
  <1>3. (100 * n - l * d) * y = (100 * x - l * y) * d - 100 * e
    OBVIOUS
  <1>4. CASE 100 * n > l * d /\ 100 * x =< l * y
    <2>1. (100 * x - l * y) * d =< 0
      <3>1. (100 * x - l * y) * d =< 0 * d
        BY <1>4, ShareIsMonotone
      <3>2. QED
        BY <3>1
    <2>2. Abs(100 * n - l * d) = 100 * n - l * d
      BY <1>4 DEF Abs
    <2> HIDE DEF e
    <2>3. QED
      BY <1>1, <1>2, <1>3, <2>1, <2>2
  <1>5. CASE 100 * n =< l * d /\ 100 * x > l * y
    <2>1. (100 * x - l * y) * d >= 0
      <3>1. 0 * d =< (100 * x - l * y) * d
        BY <1>5, ShareIsMonotone
      <3>2. QED
        BY <3>1
    <2>2. Abs(100 * n - l * d) = -(100 * n - l * d)
      BY <1>5 DEF Abs
    <2>3. -(100 * n - l * d) * y = -((100 * n - l * d) * y)
      OBVIOUS
    <2> HIDE DEF e
    <2>4. QED
      BY <1>1, <1>2, <1>3, <2>1, <2>2, <2>3
  <1>6. QED
    BY <1>4, <1>5 DEF Exceeds

\* What is one part in p off or less turns a comparison within a digit only.
LEMMA TurnsWithinADigit ==
    ASSUME NEW n \in Int, NEW d \in Nat \ {0}, NEW x \in Int, NEW y \in Nat \ {0},
           PowerOfTen[Digits - 1] * Distance(<<n, d>>, <<x, y>>) =< Abs(n) * y,
           NEW limit \in Int, Exceeds(<<n, d>>, limit) # Exceeds(<<x, y>>, limit)
    PROVE  IsWithinADigit(<<n, d>>, limit)
  <1>1. PICK p \in Nat \ {0} : p = PowerOfTen[Digits - 1]
    BY PowersOfTen, DigitsAssumption
  <1>2. PICK a \in Nat, g \in Nat, c \in Nat :
           a = Abs(n) /\ g = Abs(100 * n - limit * d) /\ c = Distance(<<n, d>>, <<x, y>>)
    <2>1. 100 * n - limit * d \in Int /\ x * d - n * y \in Int
      OBVIOUS
    <2>2. Distance(<<n, d>>, <<x, y>>) = Abs(x * d - n * y)
      BY DEF Distance
    <2>3. QED
      BY <2>1, <2>2, AbsIsNatural
  <1>3. g * y =< 100 * c
    BY <1>2, LimitIsBetween
  <1>4. p * c =< a * y
    BY <1>1, <1>2
  <1>5. (g * p) * y =< (100 * a) * y
    <2>1. (g * y) * p =< (100 * c) * p
      BY <1>3, ShareIsMonotone
    <2>2. (g * y) * p = (g * p) * y /\ (100 * c) * p = 100 * (p * c)
      OBVIOUS
    <2>3. 100 * (p * c) =< 100 * (a * y)
      BY <1>4
    <2>4. 100 * (a * y) = (100 * a) * y
      OBVIOUS
    <2>5. QED
      BY <2>1, <2>2, <2>3, <2>4
  <1>6. g * p =< 100 * a
    BY <1>5, CancelFactor
  <1>7. QED
    BY <1>1, <1>2, <1>6 DEF IsWithinADigit

\* One rounding.
LEMMA QuotientIsNear ==
    ASSUME NEW n \in Int, NEW d \in Nat \ {0}, InRange(n, d)
    PROVE  LET r == Rounded(<<n, d>>)
           IN  /\ r[1] \in Int /\ r[2] \in Nat \ {0} /\ r = <<r[1], r[2]>>
               /\ PowerOfTen[Digits - 1] * Distance(<<n, d>>, r) =< Abs(n) * r[2]
  <1>1. PICK p \in Nat \ {0} : p = PowerOfTen[Digits - 1]
    BY PowersOfTen, DigitsAssumption
  <1>2. IsNear(p, <<n, d>>, Rounded(<<n, d>>))
    BY <1>1, RoundedIsNear
  <1>3. Rounded(<<n, d>>) = <<Rounded(<<n, d>>)[1], Rounded(<<n, d>>)[2]>>
    BY DEF Rounded
  <1>4. PICK r : r = Rounded(<<n, d>>)
    OBVIOUS
  <1>5. PICK c \in Nat, a \in Nat : c = Distance(<<n, d>>, r) /\ a = Abs(n)
    BY <1>2, <1>4, AbsIsNatural DEF IsNear, Distance
  <1>6. (2 * p + 1) * c =< a * r[2]
    BY <1>2, <1>4, <1>5 DEF IsNear, Distance
  <1>7. p * c =< (2 * p + 1) * c
    <2>1. p =< 2 * p + 1
      OBVIOUS
    <2>2. QED
      OBVIOUS
  <1>8. p * c =< a * r[2]
    BY <1>2, <1>4, <1>6, <1>7 DEF IsNear, Distance
  <1>9. QED
    BY <1>1, <1>2, <1>3, <1>4, <1>5, <1>8 DEF IsNear, Distance

LEMMA TriangleOfAbs ==
    ASSUME NEW x \in Int, NEW y \in Int
    PROVE  /\ Abs(x + y) =< Abs(x) + Abs(y)
           /\ \A c \in Nat : Abs(x * c) = Abs(x) * c /\ Abs(c * x) = c * Abs(x)
  <1>1. Abs(x + y) =< Abs(x) + Abs(y)
    BY DEF Abs
  <1>2. ASSUME NEW c \in Nat
        PROVE  Abs(x * c) = Abs(x) * c /\ Abs(c * x) = c * Abs(x)
    <2>1. CASE x >= 0
      <3>1. x * c >= 0 /\ c * x = x * c
        BY <2>1
      <3>2. QED
        BY <2>1, <3>1 DEF Abs
    <2>2. CASE x < 0
      <3>1. x * c =< 0 /\ c * x = x * c /\ (-x) * c = -(x * c) /\ c * (-x) = -(x * c)
        BY <2>2
      <3>2. Abs(x * c) = -(x * c)
        BY <3>1 DEF Abs
      <3>3. QED
        BY <2>2, <3>1, <3>2 DEF Abs
    <2>3. QED
      BY <2>1, <2>2
  <1>3. QED
    BY <1>1, <1>2

\* Two errors of one part in 2p + 1 make up less than one in p.
LEMMA ErrorsAddUp ==
    ASSUME NEW p \in Nat \ {0}, NEW k \in Nat, k = 2 * p + 1,
           NEW a \in Nat, NEW h \in Nat, NEW u \in Nat \ {0}, NEW v \in Nat,
           NEW x \in Nat, NEW y \in Nat, NEW dist \in Nat,
           k * x =< h * v, k * y =< a * u, h =< a * u + y, dist * u =< x + y * v
    PROVE  p * dist =< a * v
  <1>1. k * h =< k * (a * u) + k * y
    <2>1. h * k =< (a * u + y) * k
      BY ProductMonotone
    <2>2. (a * u + y) * k = k * (a * u) + k * y
      OBVIOUS
    <2>3. QED
      BY <2>1, <2>2
  <1>2. k * h =< (k + 1) * (a * u)
    BY <1>1
  <1>3. (k * h) * v =< ((k + 1) * (a * u)) * v
    BY <1>2, ProductMonotone
  <1>4. (k * (k * x)) =< (k * h) * v
    <2>1. (k * x) * k =< (h * v) * k
      BY ProductMonotone
    <2>2. QED
      BY <2>1
  <1>5. k * (k * (y * v)) =< (k * (a * u)) * v
    <2>1. (k * y) * (k * v) =< (a * u) * (k * v)
      BY ProductMonotone
    <2>2. (k * y) * (k * v) = k * (k * (y * v)) /\ (a * u) * (k * v) = (k * (a * u)) * v
      OBVIOUS
    <2>3. QED
      BY <2>1, <2>2
  <1>6. k * (k * (dist * u)) =< k * (k * x) + k * (k * (y * v))
    <2>1. (dist * u) * (k * k) =< (x + y * v) * (k * k)
      BY ProductMonotone
    <2>2. /\ (dist * u) * (k * k) = k * (k * (dist * u))
          /\ (x + y * v) * (k * k) = k * (k * x) + k * (k * (y * v))
      OBVIOUS
    <2>3. QED
      BY <2>1, <2>2
  <1>7. k * (k * (dist * u)) =< ((k + 1) * (a * u)) * v + (k * (a * u)) * v
    BY <1>3, <1>4, <1>5, <1>6
  <1>8. (k * k * dist) * u =< ((2 * k + 1) * (a * v)) * u
    <2>1. k * (k * (dist * u)) = (k * k * dist) * u
      OBVIOUS
    <2>2. ((k + 1) * (a * u)) * v + (k * (a * u)) * v = ((2 * k + 1) * (a * v)) * u
      OBVIOUS
    <2>3. QED
      BY <1>7, <2>1, <2>2
  <1>9. k * k * dist =< (2 * k + 1) * (a * v)
    BY <1>8, CancelFactor
  <1>10. (k * k * dist) * p =< ((2 * k + 1) * (a * v)) * p
    BY <1>9, ProductMonotone
  <1>11. (2 * k + 1) * p =< k * k
    <2>1. (2 * k + 1) * p = 4 * (p * p) + 3 * p /\ k * k = 4 * (p * p) + 4 * p + 1
      OBVIOUS
    <2>2. QED
      BY <2>1
  <1>12. ((2 * k + 1) * p) * (a * v) =< (k * k) * (a * v)
    BY <1>11, ProductMonotone
  <1>13. (p * dist) * (k * k) =< (a * v) * (k * k)
    <2>1. /\ (k * k * dist) * p = (p * dist) * (k * k)
          /\ ((2 * k + 1) * (a * v)) * p = ((2 * k + 1) * p) * (a * v)
          /\ (k * k) * (a * v) = (a * v) * (k * k)
      OBVIOUS
    <2>2. QED
      BY <1>10, <1>12, <2>1
  <1>14. k * k \in Nat \ {0}
    OBVIOUS
  <1>15. QED
    BY <1>13, <1>14, CancelFactor

\* A difference, then a quotient.
LEMMA DropIsNear ==
    ASSUME NEW before \in Nat \ {0}, NEW after \in Int,
           PowerOfTen[Digits - 1] * before =< PowerOfTen[MaxExponent]
    PROVE  LET r == DropFraction(before, after)
               q == <<before - after, before>>
           IN  /\ r[1] \in Int /\ r[2] \in Nat \ {0} /\ r = <<r[1], r[2]>>
               /\ PowerOfTen[Digits - 1] * Distance(q, r) =< Abs(q[1]) * r[2]
  <1> DEFINE n == before - after
  <1>1. PICK p \in Nat \ {0}, m \in Nat \ {0} :
           p = PowerOfTen[Digits - 1] /\ m = PowerOfTen[MaxExponent]
    <2>1. Digits - 1 \in Nat /\ MaxExponent \in Nat
      BY DigitsAssumption
    <2>2. PowerOfTen[Digits - 1] \in Nat \ {0} /\ PowerOfTen[MaxExponent] \in Nat \ {0}
      BY <2>1, PowersOfTen
    <2>3. QED
      BY <2>2
  <1>2. n \in Int /\ p * before =< m
    BY <1>1
  <1>3. PICK a \in Nat : a = Abs(n) /\ (n # 0 => a > 0)
    BY <1>2, AbsIsNatural
  <1> HIDE DEF n
  <1>4. InRange(n, 1)
    <2>1. p =< p * before
      OBVIOUS
    <2>2. a # 0 => m =< a * m
      OBVIOUS
    <2>3. p =< m
      BY <1>2, <2>1
    <2>4. n # 0 => p * 1 =< a * m
      BY <1>3, <2>2, <2>3
    <2>5. QED
      BY <1>1, <1>3, <2>4 DEF InRange
  <1>5. PICK lost : lost = Rounded(<<n, 1>>)
    OBVIOUS
  <1>6. /\ IsNear(p, <<n, 1>>, lost)
        /\ n # 0 => Abs(lost[1]) >= lost[2]
    BY <1>1, <1>2, <1>4, <1>5, RoundedIsNear
  <1>7. PICK l \in Int, u \in Nat \ {0} : l = lost[1] /\ u = lost[2]
    BY <1>6 DEF IsNear, Distance
  <1>8. PICK h \in Nat : h = Abs(l) /\ (n # 0 => h >= u)
    BY <1>6, <1>7, AbsIsNatural
  <1>9. n = 0 => l = 0
    BY <1>5, <1>7 DEF Rounded
  <1>10. u * before \in Nat \ {0}
    <2>1. u * before > 0
      OBVIOUS
    <2>2. QED
      BY <2>1
  <1>11. InRange(l, u * before)
    <2>1. CASE n = 0
      BY <1>9, <2>1 DEF InRange
    <2>2. CASE n # 0
      <3>1. (p * before) * u =< m * u
        BY <1>2, ProductMonotone
      <3>2. u * m =< h * m
        BY <1>8, <2>2, ProductMonotone
      <3>3. (p * before) * u = p * (u * before) /\ m * u = u * m
        OBVIOUS
      <3>4. p * (u * before) =< h * m
        BY <3>1, <3>2, <3>3
      <3>5. QED
        BY <1>1, <1>8, <3>4 DEF InRange
    <2>3. QED
      BY <2>1, <2>2
  <1>12. PICK r : r = Rounded(<<l, u * before>>)
    OBVIOUS
  <1>13. IsNear(p, <<l, u * before>>, r) /\ r = <<r[1], r[2]>>
    BY <1>1, <1>10, <1>11, <1>12, RoundedIsNear DEF Rounded
  <1>14. PICK g \in Int, v \in Nat \ {0} : g = r[1] /\ v = r[2]
    BY <1>13 DEF IsNear, Distance
  <1> DEFINE ex == g * (u * before) - l * v
             ey == l - n * u
             ed == g * before - n * v
  <1>15. ex \in Int /\ ey \in Int /\ ed \in Int
    BY <1>2
  <1>16. PICK x \in Nat, y \in Nat, dist \in Nat : x = Abs(ex) /\ y = Abs(ey) /\ dist = Abs(ed)
    BY <1>15, AbsIsNatural
  <1>17. (2 * p + 1) * x =< h * v
    BY <1>8, <1>13, <1>14, <1>16 DEF IsNear, Distance
  <1>18. (2 * p + 1) * y =< a * u
    <2>1. l * 1 - n * u = ey
      OBVIOUS
    <2>2. QED
      BY <1>3, <1>6, <1>7, <1>16, <2>1 DEF IsNear, Distance
  <1>19. h =< a * u + y
    <2>1. l = n * u + ey /\ n * u \in Int
      BY <1>2
    <2>2. Abs(n * u) = a * u
      BY <1>2, <1>3, TriangleOfAbs
    <2> HIDE DEF ey
    <2>3. QED
      BY <1>8, <1>15, <1>16, <2>1, <2>2, TriangleOfAbs
  <1>20. dist * u =< x + y * v
    <2>1. ed * u = ex + ey * v
      BY <1>2
    <2>2. ey * v \in Int
      BY <1>15
    <2> HIDE DEF ed, ex, ey
    <2>3. Abs(ed * u) = dist * u /\ Abs(ey * v) = y * v
      BY <1>15, <1>16, TriangleOfAbs
    <2>4. Abs(ex + ey * v) =< Abs(ex) + Abs(ey * v)
      BY <1>15, <2>2, TriangleOfAbs
    <2>5. QED
      BY <1>16, <2>1, <2>3, <2>4
  <1>21. p * dist =< a * v
    BY <1>17, <1>18, <1>19, <1>20, ErrorsAddUp
  <1>22. DropFraction(before, after) = r
    BY <1>5, <1>7, <1>12 DEF DropFraction, n
  <1>23. Distance(<<n, before>>, r) = dist
    BY <1>14, <1>16 DEF Distance
  <1>24. QED
    BY <1>1, <1>3, <1>13, <1>14, <1>21, <1>22, <1>23 DEF n

\* Rounding turns no comparison unless the limit is met to the last digit
\* kept: for every precision, and every question whose quotients it can hold.
THEOREM RoundingTurnsNothing == GateSpec => []RoundingIsHarmless
  <1>1. GateTypeOK => RoundingIsHarmless
    <2> SUFFICES ASSUME GateTypeOK, Configured(gate), question.refreshed # None
                 PROVE  RoundingIsHarmless
      BY DEF RoundingIsHarmless
    <2> DEFINE was == question.decided.metrics
               is  == MergeMetrics(question.base, question.refreshed.fields)
               p   == gate.deterioration
               TurnsOnlyAt(exact, rounded, limit) ==
                   Exceeds(exact, limit) # Exceeds(rounded, limit) =>
                       IsWithinADigit(exact, limit)
    <2>1. was \in TokenMetrics /\ is \in TokenMetrics
      BY QuestionsAssumption, MergedIsMetrics DEF GateTypeOK, IsQuestion
    <2>2. p \in DeteriorationPolicies
      BY GateChoicesAssumption, ConfiguredPolicies DEF GateTypeOK
    <2>3. \A d \in {was.price, was.liquidity, is.buy_volume} : d # None =>
             PowerOfTen[Digits - 1] * d =< PowerOfTen[MaxExponent]
      BY RangeAssumption DEF GateTypeOK, Divisors
    <2> HIDE DEF was, is, p
    <2>4. ASSUME NEW before \in Int, NEW after \in Int, NEW limit \in Int, before > 0,
                 PowerOfTen[Digits - 1] * before =< PowerOfTen[MaxExponent]
          PROVE  TurnsOnlyAt(<<before - after, before>>, DropFraction(before, after), limit)
      <3>1. PICK r : r = DropFraction(before, after)
        OBVIOUS
      <3>2. before \in Nat \ {0} /\ before - after \in Int
        BY <2>4
      <3>3. /\ r[1] \in Int /\ r[2] \in Nat \ {0} /\ r = <<r[1], r[2]>>
            /\ PowerOfTen[Digits - 1] * Distance(<<before - after, before>>, r)
                  =< Abs(before - after) * r[2]
        BY <2>4, <3>1, <3>2, DropIsNear
      <3>4. QED
        BY <3>1, <3>2, <3>3, TurnsWithinADigit
    <2>5. ASSUME NEW sold \in Int, NEW bought \in Int, NEW limit \in Int, bought > 0,
                 PowerOfTen[Digits - 1] * bought =< PowerOfTen[MaxExponent]
          PROVE  TurnsOnlyAt(<<sold, bought>>, SellPressure(sold, bought), limit)
      <3>1. PICK r : r = SellPressure(sold, bought)
        OBVIOUS
      <3>2. bought \in Nat \ {0}
        BY <2>5
      <3>3. InRange(sold, bought)
        <4>1. PICK m \in Nat, a \in Nat :
                 /\ m = PowerOfTen[MaxExponent] /\ a = Abs(sold) /\ (sold # 0 => a > 0)
          BY PowersOfTen, DigitsAssumption, AbsIsNatural
        <4>2. a > 0 => m =< a * m
          OBVIOUS
        <4>3. PICK t \in Int : t = PowerOfTen[Digits - 1] * bought
          BY PowersOfTen, DigitsAssumption
        <4>4. QED
          BY <2>5, <4>1, <4>2, <4>3 DEF InRange
      <3>4. /\ r[1] \in Int /\ r[2] \in Nat \ {0} /\ r = <<r[1], r[2]>>
            /\ PowerOfTen[Digits - 1] * Distance(<<sold, bought>>, r) =< Abs(sold) * r[2]
        BY <3>1, <3>2, <3>3, QuotientIsNear DEF SellPressure
      <3>5. QED
        BY <3>1, <3>2, <3>4, TurnsWithinADigit
    <2>6. /\ p.max_price_drop_fraction \in Int /\ p.max_liquidity_drop_fraction \in Int
          /\ p.max_sell_pressure_ratio \in Int
      BY <2>2 DEF DeteriorationPolicies
    <2>7. \A m \in TokenMetrics : \A f \in {"price", "liquidity", "buy_volume", "sell_volume"} :
             m[f] # None => m[f] \in Int
      BY DEF TokenMetrics, Optional
    <2>8. ASSUME NEW f \in {"price", "liquidity"}, was[f] # None, is[f] # None, was[f] > 0
          PROVE  TurnsOnlyAt(<<was[f] - is[f], was[f]>>, DropFraction(was[f], is[f]),
                             IF f = "price" THEN p.max_price_drop_fraction
                             ELSE p.max_liquidity_drop_fraction)
      <3>1. was[f] \in Int /\ is[f] \in Int
        BY <2>1, <2>7, <2>8
      <3>2. PowerOfTen[Digits - 1] * was[f] =< PowerOfTen[MaxExponent]
        BY <2>3, <2>8
      <3> HIDE DEF TurnsOnlyAt
      <3>3. QED
        BY <2>4, <2>6, <2>8, <3>1, <3>2
    <2>9. ASSUME is.sell_volume # None, is.buy_volume # None, is.buy_volume > 0
          PROVE  TurnsOnlyAt(<<is.sell_volume, is.buy_volume>>,
                             SellPressure(is.sell_volume, is.buy_volume),
                             p.max_sell_pressure_ratio)
      <3>1. is.sell_volume \in Int /\ is.buy_volume \in Int
        BY <2>1, <2>7, <2>9
      <3>2. PowerOfTen[Digits - 1] * is.buy_volume =< PowerOfTen[MaxExponent]
        BY <2>3, <2>9
      <3> HIDE DEF TurnsOnlyAt
      <3>3. QED
        BY <2>5, <2>6, <2>9, <3>1, <3>2
    <2>10. QED
      BY <2>8, <2>9 DEF RoundingIsHarmless, was, is, p
  <1>2. QED
    BY <1>1, GateTyping, PTL
=============================================================================
