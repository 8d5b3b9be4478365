---------------------------- MODULE MCPreTradeGate ---------------------------
EXTENDS DecimalGate

CONSTANTS w1, w2

Limits(d) ==
    [max_price_drop_fraction |-> d, max_liquidity_drop_fraction |-> d,
     max_slippage_bps |-> d, max_sell_pressure_ratio |-> 5 * d,
     cancel_on_dev_sold |-> TRUE, cancel_on_smart_wallet_exit |-> TRUE,
     cancel_on_lp_supply_change |-> TRUE]

\* No tolerance, a boundary the questions meet exactly, one they meet to two digits
\* only (two of three left), everything lost allowed;
\* each switch off in turn; limits nothing can meet; each part unconfigured in turn.
MCGates ==
    LET G(a, l, d) == [staleness |-> [max_snapshot_age_ms |-> a, max_slot_lag |-> l],
                       deterioration |-> d, refresher |-> TRUE]
    IN  {G(a, l, Limits(d)) : a \in {0, 5}, l \in {0, 1}, d \in {0, 20, 33, 100}}
        \cup {G(5, 1, [Limits(100) EXCEPT ![c] = FALSE]) :
                 c \in {"cancel_on_dev_sold", "cancel_on_smart_wallet_exit",
                        "cancel_on_lp_supply_change"}}
        \cup {G(-1, 1, Limits(100)), G(5, -1, Limits(100))}
        \cup {[G(5, 1, Limits(100)) EXCEPT !.refresher = FALSE],
              [G(5, 1, Limits(100)) EXCEPT !.staleness = None],
              G(5, 1, None)}

Basis == [price |-> 10, liquidity |-> 10, slippage_bps |-> 20, buy_volume |-> 10,
          sell_volume |-> 5, volume |-> 1, dev_sold |-> FALSE,
          smart_wallet_addresses |-> {w1}, lp_state |-> [lp_token_supply |-> 7]]

\* The decision snapshot, whole or with one field as a decision may find it.
Decisions ==
    {Basis} \cup {[Basis EXCEPT !.price = p] : p \in {None, -1, 0, 3, 300}}
            \cup {[Basis EXCEPT !.liquidity = None], [Basis EXCEPT !.liquidity = 0],
                  [Basis EXCEPT !.smart_wallet_addresses = {w1, w2}],
                  [Basis EXCEPT !.lp_state = [lp_token_supply |-> None]]}

\* What the re-read reports: nothing, or one field, down to the boundary of a
\* limit and beyond it, or several at once.
Reads ==
    LET One(f, v) == [g \in {f} |-> v]
    IN  {[f \in {} |-> None], [price |-> 7, dev_sold |-> TRUE],
         [price |-> None, liquidity |-> 12], [buy_volume |-> 0, slippage_bps |-> 100]}
        \cup {One("price", p) : p \in {0, 2, 7, 8, 12, 299}}
        \cup {One("liquidity", p) : p \in {-1, 7, 8}}
        \cup {One("slippage_bps", p) : p \in {None, 0, 21, 101}}
        \cup {One("sell_volume", p) : p \in {0, 10, 11, 51}}
        \cup {One("dev_sold", p) : p \in {TRUE, None}}
        \cup {One("smart_wallet_addresses", p) : p \in {{}, {w2}, {w1, w2}}}
        \cup {One("lp_state", [lp_token_supply |-> p]) : p \in {None, 6, 7}}

MCQuestions ==
    {[decided |-> [metrics |-> d], base |-> d, current_slot |-> 10, now |-> 100,
      refreshed |-> [mint |-> "m", slot |-> s, observed_at_ms |-> a, fields |-> r]] :
        d \in Decisions, r \in Reads, s \in {8, 9, 11}, a \in {94, 95}}
    \cup {[decided |-> [metrics |-> Basis], base |-> Basis, current_slot |-> 10,
           now |-> 100, refreshed |-> None]}
=============================================================================
