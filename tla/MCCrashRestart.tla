---------------------------- MODULE MCCrashRestart ---------------------------
(****************************************************************************)
(* The command is run three times on one data directory, and the first two  *)
(* runs may stop between any two effects.                                   *)
(****************************************************************************)
EXTENDS MCConfig

\* Alerts of both bots, re-reads ahead of later observations, a late arrival,
\* an event without declared state.
CrashFixtures ==
    {<<Known, Late>>, <<Holding, Known>>, <<Known, Undeclared>>, <<Quiet, Behind>>}
=============================================================================
