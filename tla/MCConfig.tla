------------------------------- MODULE MCConfig ------------------------------
(****************************************************************************)
(* The small deployment the pipeline is model-checked in: two tokens, two   *)
(* smart wallets, both bots, a configured validator, and the observations   *)
(* its fixtures are made of.                                                *)
(****************************************************************************)
EXTENDS PipelineProperties

CONSTANTS m1, m2, w1, w2

MCMints == {m1, m2}
MCWallets == {w1, w2}

\* Only filters with criteria of their own reject; the shipped one accepts all.
MCFilterAccepts(filter, candidate) ==
    CASE filter = "accept_all"  -> TRUE
      [] filter = "knows_price" -> candidate.snapshot.metrics.price # None
      [] filter = "has_changed" -> candidate.delta.changed # {}

MCRuleRejects(rule, candidate, features) ==
    rule = "dev_sold" /\ candidate.snapshot.metrics.dev_sold = TRUE

MCModuleIsDeclaredOnly(module) == module = "contract_analysis"

\* "momentum" is always produced, "depth" only of a known liquidity.
MCModuleFeatures(module, candidate) ==
    CASE module = "market"  -> <<[name |-> "momentum", value |-> Cardinality(candidate.delta.changed)]>>
      [] module = "pool" ->
            IF candidate.snapshot.metrics.liquidity = None THEN <<>>
            ELSE <<[name |-> "depth", value |-> candidate.snapshot.metrics.liquidity]>>
      [] MCModuleIsDeclaredOnly(module) -> <<>>

BotA == [name |-> "bot_a", filters |-> <<"accept_all", "knows_price">>,
         rules |-> <<"dev_sold">>, threshold |-> 50, weights |-> [depth |-> 1]]
BotB == [name |-> "bot_b", filters |-> <<"has_changed", "accept_all">>,
         rules |-> <<>>, threshold |-> 1, weights |-> [momentum |-> 1]]

MCBots == <<BotA, BotB>>
MCModules == <<"market", "pool">>

MCGate ==
    [staleness     |-> [max_snapshot_age_ms |-> 10, max_slot_lag |-> 2],
     deterioration |-> [max_price_drop_fraction     |-> 20,
                        max_liquidity_drop_fraction |-> 20,
                        max_slippage_bps            |-> 50,
                        max_sell_pressure_ratio     |-> 150,
                        cancel_on_dev_sold          |-> TRUE,
                        cancel_on_smart_wallet_exit |-> TRUE,
                        cancel_on_lp_supply_change  |-> TRUE],
     refresher     |-> TRUE]
------------------------------------------------------------------------------
\* Reports.  Full names every field, the others what their name says.
Full == [price |-> 100, liquidity |-> 100, slippage_bps |-> 10, buy_volume |-> 10,
         sell_volume |-> 5, volume |-> 15, dev_sold |-> FALSE,
         smart_wallet_addresses |-> {w1, w2}, lp_state |-> [lp_token_supply |-> 7]]
Silent == [f \in {} |-> None]
Down(p) == [price |-> p, volume |-> 20]
PriceUnknown == [price |-> None, lp_state |-> None]
DevSold == [dev_sold |-> TRUE, smart_wallet_addresses |-> None]
WalletsLeft == [smart_wallet_addresses |-> {w1}, price |-> 100]

Declared(slot, at, report) == [slot |-> slot, observed_at_ms |-> at, metrics |-> report]

Entry(mint, slot, at, report, events, declared) ==
    [mint |-> mint, slot |-> slot, observed_at_ms |-> at, metrics |-> report,
     events |-> events, validation_state |-> declared]

\* A token comes to be known, with an event and a fresh, unchanged re-read.
Known == Entry(m1, 10, 100, Full, 1, Declared(10, 102, [price |-> 95]))
\* The same without any event or re-read.
Quiet == Entry(m1, 10, 98, Full, 0, None)
\* Two events; the re-read shows a further fall of the price by a third.
Falling == Entry(m1, 11, 105, Down(90), 2, Declared(12, 106, Down(60)))
\* A fall within the limit, of a token that stayed fresh.
Holding == Entry(m1, 12, 108, Down(90), 2, Declared(13, 110, Down(75)))
\* An event whose observation declares no state.
Undeclared == Entry(m1, 11, 104, Down(99), 1, None)
\* An observation that arrives late, of an earlier slot and time.
Late == Entry(m1, 9, 90, Down(101), 1, Declared(9, 95, [price |-> 101]))
\* A re-read from behind: fresh by time, three slots behind the event.
Behind == Entry(m1, 13, 109, [volume |-> 30], 1, Declared(10, 109, [price |-> 100]))
\* Wallets leave between decision and re-read.
Leaving == Entry(m1, 11, 103, [liquidity |-> 110], 1, Declared(11, 104, WalletsLeft))
\* A known price becomes unknown again.
Blind == Entry(m1, 12, 107, PriceUnknown, 1, Declared(12, 108, Silent))
\* The developer sells before the decision.
Sold == Entry(m1, 12, 106, DevSold, 1, Declared(12, 107, Silent))
\* Another token, observed between those of the first.
Other == Entry(m2, 12, 120, Full, 1, Declared(12, 125, [buy_volume |-> 2]))

AllEntries == {Known, Quiet, Falling, Holding, Undeclared, Late, Behind, Leaving,
               Blind, Sold, Other}

SequencesUpTo(S, n) == UNION {[1 .. k -> S] : k \in 0 .. n}
=============================================================================
