--------------------------- MODULE MCReplaySession ---------------------------
(****************************************************************************)
(* A session alone, with a reader that re-reads whatever token it likes     *)
(* whenever it likes.  Times of observations and re-reads come in any order.*)
(****************************************************************************)
EXTENDS ReplaySession

CONSTANTS m1, m2

SessionEntries ==
    LET E(m, at, s) == [mint |-> m, slot |-> at, observed_at_ms |-> at,
                        metrics |-> [f \in {} |-> None], events |-> 0,
                        validation_state |-> s]
        D(at) == [slot |-> at, observed_at_ms |-> at, metrics |-> [lp_state |-> None, price |-> at]]
    IN  {E(m, at, s) : m \in {m1, m2}, at \in {10, 12}, s \in {None, D(9), D(11), D(13)}}

SessionFixtures == UNION {[1 .. n -> SessionEntries] : n \in 0 .. 3}
=============================================================================
