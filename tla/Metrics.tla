------------------------------- MODULE Metrics -------------------------------
(****************************************************************************)
(* Token metrics: what a source reports of a token, how a report is merged  *)
(* onto what is known, and what changed between two snapshots.              *)
(*                                                                          *)
(* Data is abstracted to what the pipeline's outcomes tell apart: the eight *)
(* fields final validation reads, and "volume" for the fields it never      *)
(* reads.  Decimals are integers, a tuple of addresses is the set of them,  *)
(* and an LpState keeps only its lp_token_supply.                           *)
(****************************************************************************)
EXTENDS Integers, FiniteSets

CONSTANTS
    None,     \* unknown, absent or unconfigured (Python's None), a model value
    Mints,    \* tokens
    Wallets   \* addresses a source may report as smart wallets

\* Unknown is never a number: it is not zero, and nothing compares with it.
ASSUME NoneAssumption == None \notin Int

Optional(S) == S \cup {None}

DecimalFields == {"price", "liquidity", "slippage_bps", "buy_volume",
                  "sell_volume", "volume"}
ContainerFields == {"smart_wallet_addresses", "lp_state"}
MetricFields == DecimalFields \cup {"dev_sold"} \cup ContainerFields

LpState == [lp_token_supply : Optional(Int)]

\* Every field of TokenMetrics may be unknown.
TokenMetrics ==
    [price                  : Optional(Int),
     liquidity              : Optional(Int),
     slippage_bps           : Optional(Int),
     buy_volume             : Optional(Int),
     sell_volume            : Optional(Int),
     volume                 : Optional(Int),
     dev_sold               : Optional(BOOLEAN),
     smart_wallet_addresses : SUBSET Wallets,
     lp_state               : LpState]

\* A token nothing has been reported about: TokenMetrics().
NoMetrics ==
    [price                  |-> None,
     liquidity              |-> None,
     slippage_bps           |-> None,
     buy_volume             |-> None,
     sell_volume            |-> None,
     volume                 |-> None,
     dev_sold               |-> None,
     smart_wallet_addresses |-> {},
     lp_state               |-> [lp_token_supply |-> None]]

\* The values a field of a report may carry once converted.
FieldValues(f) ==
    CASE f \in DecimalFields             -> Optional(Int)
      [] f = "dev_sold"                  -> Optional(BOOLEAN)
      [] f = "smart_wallet_addresses"    -> SUBSET Wallets
      [] f = "lp_state"                  -> LpState

\* A report maps the fields it names to values; what it does not name was not
\* reported.  In a fixture a container may also be an explicit null.
IsReport(r) ==
    /\ r = [f \in DOMAIN r |-> r[f]]
    /\ DOMAIN r \subseteq MetricFields
    /\ \A f \in DOMAIN r : r[f] \in FieldValues(f)

IsRawReport(r) ==
    /\ r = [f \in DOMAIN r |-> r[f]]
    /\ DOMAIN r \subseteq MetricFields
    /\ \A f \in DOMAIN r :
          \/ f \in ContainerFields /\ r[f] = None
          \/ r[f] \in FieldValues(f)

\* Mutant: a null container is handed on as a reported value.
KeepEveryNull(raw) == raw

\* MetricsFixture.to_patch_fields: an explicit null is a reported unknown,
\* except that a null container is not a report at all.
ToPatchFields(raw) ==
    [f \in {g \in DOMAIN raw : ~(g \in ContainerFields /\ raw[g] = None)} |-> raw[f]]

\* merge_metrics: only reported fields are applied.
MergeMetrics(base, values) ==
    LET Merged(name) == IF name \in DOMAIN values THEN values[name] ELSE base[name]
    IN  [price                  |-> Merged("price"),
         liquidity              |-> Merged("liquidity"),
         slippage_bps           |-> Merged("slippage_bps"),
         buy_volume             |-> Merged("buy_volume"),
         sell_volume            |-> Merged("sell_volume"),
         volume                 |-> Merged("volume"),
         dev_sold               |-> Merged("dev_sold"),
         smart_wallet_addresses |-> Merged("smart_wallet_addresses"),
         lp_state               |-> Merged("lp_state")]

\* SnapshotDiffer.diff, on the metrics of the snapshots: the changed fields.
\* A missing previous snapshot yields an empty delta.
Diff(previous, current) ==
    [from_slot |-> IF previous = None THEN None ELSE previous.slot,
     to_slot   |-> current.slot,
     changed   |-> IF previous = None THEN {}
                   ELSE {f \in MetricFields : previous.metrics[f] # current.metrics[f]}]
=============================================================================
