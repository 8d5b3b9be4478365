---------------------------- MODULE MCDeclaredOnly ---------------------------
(****************************************************************************)
(* A configuration that enables a heavy-analysis category which is declared *)
(* but not implemented, driven fairly to its end.                           *)
(****************************************************************************)
EXTENDS MCConfig

DeclaredOnlyModules == <<"market", "contract_analysis">>
DeclaredOnlyFixtures == SequencesUpTo({Known, Quiet, Falling, Blind, Other}, 3)
=============================================================================
