---------------------------- MODULE MCReplayDrivers --------------------------
(****************************************************************************)
(* Three passes over one session, each over the stream or the batch.        *)
(****************************************************************************)
EXTENDS MCConfig, ReplayDrivers

DrivenEntries == {Known, Quiet, Holding, Undeclared, Late, Behind, Other}
DrivenFixtures == {fx \in SequencesUpTo(DrivenEntries, 3) : Len(fx) >= 2}
=============================================================================
