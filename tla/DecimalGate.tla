------------------------------ MODULE DecimalGate -----------------------------
(****************************************************************************)
(* The quotients the gate compares with its limits, as Python's decimal     *)
(* context computes them: every operation is rounded to Digits significant  *)
(* digits, half to even.  Validation compares exact quotients; this module  *)
(* says how far that is from the code.                                      *)
(*                                                                          *)
(* A number is a fraction <<n, d>>, d > 0.  A limit is a percentage.        *)
(****************************************************************************)
EXTENDS PreTradeGate

CONSTANTS
    Digits,         \* the precision of the context (28 in Python)
    MaxExponent     \* bound: the powers of ten between which quotients lie

ASSUME DigitsAssumption == Digits \in Nat \ {0} /\ MaxExponent \in Nat

Abs(n) == IF n < 0 THEN -n ELSE n
PowerOfTen[e \in Nat] == IF e = 0 THEN 1 ELSE 10 * PowerOfTen[e - 1]
TenTo(e) == IF e > 0 THEN PowerOfTen[e] ELSE 1

\* What the gate divides by: price and liquidity as decided, buy volume as read.
Divisors(q) ==
    {q.decided.metrics.price, q.decided.metrics.liquidity,
     MergeMetrics(q.base, q.refreshed.fields).buy_volume}

\* No divisor is so large that a quotient underflows.
ASSUME RangeAssumption ==
    \A q \in Questions : q.refreshed # None =>
        \A d \in Divisors(q) \ {None} : PowerOfTen[Digits - 1] * d =< PowerOfTen[MaxExponent]

HalfEven(n, d) ==
    LET down == n \div d
        rest == 2 * (n % d)
    IN  IF rest > d \/ (rest = d /\ down % 2 = 1) THEN down + 1 ELSE down

\* A fraction to Digits significant digits, which a shift by some power of ten
\* leaves before the point.
Rounded(q) ==
    IF q[1] = 0 THEN <<0, 1>>
    ELSE LET shift == Min({e \in -MaxExponent .. MaxExponent :
                 Abs(q[1]) * TenTo(e) >= PowerOfTen[Digits - 1] * q[2] * TenTo(-e)})
             digits == HalfEven(Abs(q[1]) * TenTo(shift), q[2] * TenTo(-shift))
         IN  <<(IF q[1] < 0 THEN -1 ELSE 1) * digits * TenTo(-shift), TenTo(shift)>>

\* Mutant: what was lost is taken from the rounded share that is left.
DropFromShare(before, after) ==
    LET left == Rounded(<<after, before>>) IN Rounded(<<left[2] - left[1], left[2]>>)

\* _drop_fraction, for a positive before: a difference, then a quotient.
DropFraction(before, after) ==
    LET lost == Rounded(<<before - after, 1>>) IN Rounded(<<lost[1], lost[2] * before>>)

\* The ratio of _compare, for a positive buy volume.
SellPressure(sell_volume, buy_volume) == Rounded(<<sell_volume, buy_volume>>)

Exceeds(q, limit) == 100 * q[1] > limit * q[2]

\* The limit is within one unit of the last of the digits of the quotient.
IsWithinADigit(q, limit) ==
    Abs(100 * q[1] - limit * q[2]) * PowerOfTen[Digits - 1] <= 100 * Abs(q[1])

\* Rounding turns a comparison only when the limit is met to the last digit
\* the context keeps, however small the drop and whatever the operands: a
\* relative error, so that no small drop vanishes beside a large price.
RoundingIsHarmless ==
    LET was == question.decided.metrics
        is  == MergeMetrics(question.base, question.refreshed.fields)
        p   == gate.deterioration
        TurnsOnlyAt(exact, rounded, limit) ==
            Exceeds(exact, limit) # Exceeds(rounded, limit) => IsWithinADigit(exact, limit)
    IN  Configured(gate) /\ question.refreshed # None =>
            /\ \A f \in {"price", "liquidity"} :
                  was[f] # None /\ is[f] # None /\ was[f] > 0 =>
                      TurnsOnlyAt(<<was[f] - is[f], was[f]>>, DropFraction(was[f], is[f]),
                                  IF f = "price" THEN p.max_price_drop_fraction
                                  ELSE p.max_liquidity_drop_fraction)
            /\ is.sell_volume # None /\ is.buy_volume # None /\ is.buy_volume > 0 =>
                  TurnsOnlyAt(<<is.sell_volume, is.buy_volume>>,
                              SellPressure(is.sell_volume, is.buy_volume),
                              p.max_sell_pressure_ratio)
=============================================================================
