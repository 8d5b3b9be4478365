------------------------------ MODULE StoreClaims ----------------------------
(****************************************************************************)
(* What the documentation says of the stores, taken at its word.            *)
(****************************************************************************)
EXTENDS MCFileStore

\* store_port.py:27, "Every stage outcome after an event is recorded here [...]
\* so that any decision can be reconstructed": once a run has gone through,
\* each of its records can be read, in its own copy or in the copy an earlier
\* run made of it.
EveryRecordReconstructible ==
    up /\ next > Len(plan) =>
        \A i \in DOMAIN plan : plan[i].kind = "provenance" =>
            \E r \in 1 .. run : Recorded([run |-> r, id |-> i])
=============================================================================
