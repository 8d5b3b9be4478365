------------------------------- MODULE DocClaims -----------------------------
(****************************************************************************)
(* Sentences of the documentation and of docstrings, taken at their word.   *)
(* The code does something else; each run of this module exhibits where.    *)
(****************************************************************************)
EXTENDS MCConfig

\* material_deterioration.py:13, "any volatile field the check depends on is
\* unknown, in either state": with the supply check on, an alert implies that
\* the LP token supply was known on both sides.
UnknownSupplyCancels ==
    \A a \in ToSet(alerts) : Gate.deterioration.cancel_on_lp_supply_change =>
        /\ a.snapshot.metrics.lp_state.lp_token_supply # None
        /\ Checked(a).metrics.lp_state.lp_token_supply # None

\* DECISIONS.md D-011, "There is no fallback to the snapshot the decision was
\* made on": an alert implies that the re-read reported at least one of the
\* fields the check requires, so that something fresh was compared.
NoFallbackToDecision ==
    \A a \in ToSet(alerts) :
        RequiredFields \cap DOMAIN ToPatchFields(fixture[a.pos].validation_state.metrics) # {}

\* cache_port.py:22, "Latest known state for one token", with slot the only
\* sound ordering key (DECISIONS.md:44): the cached state is never of an
\* earlier slot than one already observed.
CachedStateIsNewest ==
    \A m \in Mints : \A i \in Yielded(m) : fixture[i].slot =< cache[m].last_slot
------------------------------------------------------------------------------
NoSupply == [f \in DOMAIN Full \ {"lp_state"} |-> Full[f]]

ClaimFixtures ==
    { \* the supply was never reported
      <<Entry(m1, 10, 100, NoSupply, 1, Declared(10, 102, [price |-> 99]))>>,
      \* the re-read reports nothing
      <<Quiet, Entry(m1, 11, 104, Down(99), 1, Declared(11, 105, Silent))>>,
      \* an observation of an earlier slot arrives late
      <<Known, Late>> }
=============================================================================
