----------------------------- MODULE DriverClaims ----------------------------
(****************************************************************************)
(* What the refresher says of itself, taken at its word over a process that *)
(* streams a session or batches it.                                         *)
(****************************************************************************)
EXTENDS MCReplayDrivers

\* refresher.py:27, "a refresh can only ever return state belonging to the
\* observation under evaluation": every read a verdict was reached on carries
\* the slot and time that its own observation declared.
RefreshIsOfEvaluated ==
    \A k \in Checks :
        LET read     == records[k].detail.checked_snapshot
            declared == fixture[records[k].pos].validation_state
        IN  /\ declared # None
            /\ read.slot = declared.slot
            /\ read.captured_at_ms = declared.observed_at_ms
=============================================================================
