--------------------------- MODULE ContinuousState ---------------------------
(****************************************************************************)
(* The continuous state cache and the builder that captures snapshots of    *)
(* it: InMemoryStateCache and SnapshotBuilder.                              *)
(*                                                                          *)
(* The cache is written by Apply alone; a capture reads it and consumes one *)
(* number of the builder's sequence.                                        *)
(****************************************************************************)
EXTENDS Metrics

VARIABLES
    cache,      \* InMemoryStateCache._tokens: per mint, a CachedToken or None
    sequence    \* the next number of SnapshotBuilder._sequence

CachedTokens == [metrics : TokenMetrics, last_slot : Int, last_updated_ms : Int]

Snapshots ==
    [mint : Mints, slot : Int, captured_at_ms : Int, sequence : Nat,
     metrics : TokenMetrics]

\* What is not there is no token and no snapshot.
ASSUME AbsenceAssumption == None \notin CachedTokens /\ None \notin Snapshots

EmptyCache == [m \in Mints |-> None]

\* What a merge starts from: TokenMetrics() for a token never observed.
KnownMetrics(mint) == IF cache[mint] = None THEN NoMetrics ELSE cache[mint].metrics

\* apply: the reported fields are merged, slot and time are overwritten.
Apply(mint, slot, observed_at_ms, fields) ==
    cache' = [cache EXCEPT ![mint] =
                [metrics         |-> MergeMetrics(KnownMetrics(mint), fields),
                 last_slot       |-> slot,
                 last_updated_ms |-> observed_at_ms]]

\* capture with the slot and time the cached state was observed at.
CaptureKnown(mint) ==
    IF cache[mint] = None THEN None
    ELSE [mint           |-> mint,
          slot           |-> cache[mint].last_slot,
          captured_at_ms |-> cache[mint].last_updated_ms,
          sequence       |-> sequence,
          metrics        |-> cache[mint].metrics]

\* capture with an explicit slot and time.
CaptureAt(mint, slot, captured_at_ms) ==
    [mint           |-> mint,
     slot           |-> slot,
     captured_at_ms |-> captured_at_ms,
     sequence       |-> sequence,
     metrics        |-> cache[mint].metrics]

\* Mutant: a capture peeks at the sequence and consumes nothing.
PeekSequence(captured) == sequence' = sequence

\* capture_state consumes a number; a capture that finds no state does not.
ConsumeSequence(captured) ==
    sequence' = IF captured = None THEN sequence ELSE sequence + 1
=============================================================================
