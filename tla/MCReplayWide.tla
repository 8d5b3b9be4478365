----------------------------- MODULE MCReplayWide ----------------------------
(****************************************************************************)
(* One uninterrupted run over every fixture of up to three observations.    *)
(****************************************************************************)
EXTENDS MCConfig

WideFixtures == SequencesUpTo(AllEntries, 3)
=============================================================================
