----------------------------- MODULE MCFileStore -----------------------------
(****************************************************************************)
(* The stores of two tokens over three runs of the command, the first two   *)
(* of which may stop anywhere; times fall on two days, and observations may *)
(* arrive out of order.                                                     *)
(****************************************************************************)
EXTENDS FileStore, FiniteSetsExt

CONSTANTS m1, m2

MCMints == {m1, m2}

\* Each observation has a snapshot and a record, which the clock dates.
PlanOf(observed) ==
    [i \in 1 .. 2 * Len(observed) |->
        LET n == (i + 1) \div 2 IN
        [kind           |-> IF i % 2 = 1 THEN "snapshot" ELSE "provenance",
         mint           |-> observed[n].mint,
         observed_at_ms |-> observed[n].at,
         occurred_at_ms |-> Max({observed[k].at : k \in 1 .. n})]]

At(mint, at) == [mint |-> mint, at |-> at]

\* With days of ten: on one day, across midnight, late from the day before,
\* two tokens in turn.
MCPlans ==
    {PlanOf(<<At(m1, 5), At(m1, 6)>>),
     PlanOf(<<At(m1, 9), At(m1, 10)>>),
     PlanOf(<<At(m1, 10), At(m1, 9), At(m1, 11)>>),
     PlanOf(<<At(m1, 8), At(m2, 10), At(m1, 9)>>)}
=============================================================================
