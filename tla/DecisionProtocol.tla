--------------------------- MODULE DecisionProtocol --------------------------
(****************************************************************************)
(* What the pipeline promises about decisions (docs: nothing reaches the    *)
(* action layer but through final validation, and every outcome is kept).   *)
(* A candidacy, a bot's look at an event in a run, is concluded once.  It   *)
(* is raised as an alert at most once, and only when it was approved.  One  *)
(* that is approved is settled before another is taken up, unless the run   *)
(* is over.  Neither runs nor events are gone back to.                      *)
(****************************************************************************)
EXTENDS Naturals, Sequences

CONSTANT Candidacies    \* [run, pos, event, strategy]

VARIABLES
    approved,       \* those that passed final validation
    raised,         \* the alerts that went out, oldest first
    concluded       \* those whose outcome is on record

protocolVars == <<approved, raised, concluded>>

DecisionInit == approved = {} /\ raised = <<>> /\ concluded = {}

\* j belongs to an earlier run than k, or to an earlier event of its run.
IsBefore(j, k) ==
    \/ j.run < k.run
    \/ j.run = k.run /\ j.pos < k.pos
    \/ j.run = k.run /\ j.pos = k.pos /\ j.event < k.event

\* k is next: nothing later was looked at, and nothing of its run is left.
InTurn(k) ==
    \A j \in approved \cup concluded :
        /\ ~IsBefore(k, j)
        /\ j.run = k.run => j \in concluded \/ j = k

Approve(k) ==
    /\ InTurn(k)
    /\ k \notin approved \cup concluded
    /\ approved' = approved \cup {k}
    /\ UNCHANGED <<raised, concluded>>

Raise(k) ==
    /\ InTurn(k)
    /\ k \in approved \ concluded
    /\ \A i \in DOMAIN raised : raised[i] # k
    /\ raised' = Append(raised, k)
    /\ UNCHANGED <<approved, concluded>>

Conclude(k) ==
    /\ InTurn(k)
    /\ k \notin concluded
    /\ k \in approved => \E i \in DOMAIN raised : raised[i] = k
    /\ concluded' = concluded \cup {k}
    /\ UNCHANGED <<approved, raised>>

DecisionNext == \E k \in Candidacies : Approve(k) \/ Raise(k) \/ Conclude(k)

DecisionSpec == DecisionInit /\ [][DecisionNext]_protocolVars
=============================================================================
