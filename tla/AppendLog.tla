------------------------------ MODULE AppendLog ------------------------------
(****************************************************************************)
(* What the stores promise (SnapshotStore, ProvenanceStore): logs that only *)
(* grow, an entry at a time, in the order of appending, and an append that  *)
(* returns only when its entry was added.  A process that stops while it    *)
(* adds an entry may spoil the one that is added next to the same log, and  *)
(* no other.                                                                *)
(****************************************************************************)
EXTENDS Naturals, Sequences

CONSTANTS
    Paths,      \* the logs
    Entries,    \* records with the run that appended them and their number in it
    Spoiled     \* what is left of an entry that cannot be read back

VARIABLES
    log,        \* per path: what a reader finds, oldest first
    torn,       \* per path: whether it ends in a piece of an entry
    up,         \* whether the process that appends runs
    pending,    \* what was added by an append that has yet to return
    returned    \* the entries whose append returned

logVars == <<log, torn, up, pending, returned>>

LogInit ==
    /\ log = [p \in Paths |-> <<>>]
    /\ torn = [p \in Paths |-> FALSE]
    /\ up = TRUE
    /\ pending = {}
    /\ returned = {}

Precedes(d, e) == d.run < e.run \/ (d.run = e.run /\ d.id < e.id)

\* An entry is added behind all that were appended before it, one at a time.
Add(p, e) ==
    /\ up
    /\ pending = {}
    /\ \A i \in DOMAIN log[p] : log[p][i] # Spoiled => Precedes(log[p][i], e)
    /\ log' = [log EXCEPT ![p] = Append(@, IF torn[p] THEN Spoiled ELSE e)]
    /\ torn' = [torn EXCEPT ![p] = FALSE]
    /\ pending' = {e}
    /\ UNCHANGED <<up, returned>>

\* The append that added an entry returns.
Return ==
    /\ up
    /\ pending # {}
    /\ returned' = returned \cup pending
    /\ pending' = {}
    /\ UNCHANGED <<log, torn, up>>

\* The process stops: between two appends, behind an entry it added, or in the
\* middle of adding one, which leaves a piece of it in one log.
Stop ==
    /\ up
    /\ up' = FALSE
    /\ \/ UNCHANGED torn
       \/ pending = {} /\ \E p \in Paths : torn' = [torn EXCEPT ![p] = TRUE]
    /\ pending' = {}
    /\ UNCHANGED <<log, returned>>

\* Another process takes over.
Start ==
    /\ ~up
    /\ up' = TRUE
    /\ UNCHANGED <<log, torn, pending, returned>>

LogNext == Return \/ Stop \/ Start \/ \E p \in Paths, e \in Entries : Add(p, e)

LogSpec == LogInit /\ [][LogNext]_logVars
=============================================================================
