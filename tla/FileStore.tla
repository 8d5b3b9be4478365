------------------------------ MODULE FileStore ------------------------------
(****************************************************************************)
(* FileSnapshotStore and FileProvenanceStore below the level of an append:  *)
(* a file is lines and what stands behind the last newline, a line reaches  *)
(* it piece by piece, and the process may stop between any two pieces.      *)
(*                                                                          *)
(* A run appends what its replay produces, in order.  A replay is           *)
(* repeatable (PipelineProperties, ReplayRepeats), so a rerun on the same   *)
(* data directory appends the same again.                                   *)
(****************************************************************************)
EXTENDS Integers, Sequences

CONSTANTS
    Mints,          \* the tokens
    None,
    Plans,          \* what a replay may append: sequences of items
    DayMs,          \* milliseconds of a day
    Parts,          \* bound: pieces in which the text of a line is written
    MaxRuns,        \* bound: how often the command is run
    MaxCrashes      \* bound: how many of the first runs may be cut short

\* A snapshot or a provenance record, of an observation of a token made at
\* observed_at_ms: a snapshot is captured at that time, a record occurs at
\* what the clock says by then.
IsItem(item) ==
    /\ item.kind \in {"snapshot", "provenance"}
    /\ item.mint \in Mints
    /\ item.observed_at_ms \in Int
    /\ item.occurred_at_ms \in Int

ASSUME PlansAssumption ==
    \A plan \in Plans : /\ Len(plan) \in Nat
                        /\ DOMAIN plan = 1 .. Len(plan)
                        /\ \A i \in DOMAIN plan : IsItem(plan[i])
\* A replay's records are in order of time (PipelineProofs, ProvenanceIsInOrder).
ASSUME ClockAssumption ==
    \A plan \in Plans : \A i, j \in DOMAIN plan :
        plan[i].kind = "provenance" /\ plan[j].kind = "provenance" /\ i < j
            => plan[i].occurred_at_ms =< plan[j].occurred_at_ms
ASSUME DayAssumption == DayMs \in Nat \ {0}
ASSUME PartsAssumption == Parts \in Nat \ {0}
ASSUME RunsAssumption == MaxRuns \in Nat \ {0}

VARIABLES
    plan,       \* what a run appends
    run,        \* which run of the command this is
    up,         \* whether its process still runs
    next,       \* the item being appended, or past the end
    part,       \* how much of its line was written: pieces, then the newline
    files,      \* per path: complete lines, and the tail behind them
    latest,     \* FileSnapshotStore._latest, the item's number or None
    returned    \* the appends that returned, over all runs

vars == <<plan, run, up, next, part, files, latest, returned>>

\* The instant in milliseconds that the day of a UTC date starts with.
UtcDate(timestamp_ms) == timestamp_ms \div DayMs

\* Mutant: records are filed under the day of what they are about.
PathByObservation(item) ==
    IF item.kind = "snapshot" THEN <<"snapshots", item.mint, UtcDate(item.observed_at_ms)>>
    ELSE <<"provenance", UtcDate(item.observed_at_ms)>>

\* snapshots/<mint>/<date> of the capture, provenance/<date> of the record.
PathOf(item) ==
    IF item.kind = "snapshot" THEN <<"snapshots", item.mint, UtcDate(item.observed_at_ms)>>
    ELSE <<"provenance", UtcDate(item.occurred_at_ms)>>

Paths == UNION {{PathOf(pl[i]) : i \in DOMAIN pl} : pl \in Plans}

Pieces == [run : 1 .. MaxRuns, id : UNION {DOMAIN pl : pl \in Plans}, piece : 1 .. Parts]

\* The text of a line: the pieces of an item's JSON, as a run writes them.
Piece(r, i, k) == [run |-> r, id |-> i, piece |-> k]
Text(r, i, n) == [k \in 1 .. n |-> Piece(r, i, k)]

\* An entry is the item of a run's plan, by its number.
Entries == [run : 1 .. MaxRuns, id : UNION {DOMAIN pl : pl \in Plans}]

\* open("a"): a piece of text goes behind whatever the file ends with.
Extend(file, piece) == [file EXCEPT !.tail = Append(@, piece)]

\* A newline makes a line of all that stands behind the last one.
EndLine(file) == [lines |-> Append(file.lines, file.tail), tail |-> <<>>]

Appending == up /\ next =< Len(plan)
Target == PathOf(plan[next])

NoLatest == [m \in Mints |-> None]

Init ==
    /\ plan \in Plans
    /\ run = 1
    /\ up = TRUE
    /\ next = 1
    /\ part = 0
    /\ files = [p \in Paths |-> [lines |-> <<>>, tail |-> <<>>]]
    /\ latest = NoLatest
    /\ returned = {}

\* _append_json_line: a piece of the line, or at its end the newline.
Write ==
    /\ Appending
    /\ part =< Parts
    /\ files' = [files EXCEPT ![Target] =
                    IF part < Parts THEN Extend(@, Piece(run, next, part + 1)) ELSE EndLine(@)]
    /\ part' = part + 1
    /\ UNCHANGED <<plan, run, up, next, latest, returned>>

\* Mutant: the latest snapshot is the one captured last.
KeepNewest(last, item, id) ==
    IF item.kind = "snapshot" /\ (last[item.mint] = None \/
          plan[last[item.mint]].observed_at_ms =< item.observed_at_ms)
        THEN [last EXCEPT ![item.mint] = id] ELSE last

\* The latest snapshot is the one appended last, whenever it was captured.
Remember(last, item, id) ==
    IF item.kind = "snapshot" THEN [last EXCEPT ![item.mint] = id] ELSE last

\* Mutant: the next append takes the line just written for its own.
ReturnUnfinished ==
    /\ Appending
    /\ part = Parts + 1
    /\ latest' = Remember(latest, plan[next], next)
    /\ returned' = returned \cup {[run |-> run, id |-> next]}
    /\ next' = next + 1
    /\ UNCHANGED <<plan, run, up, part, files>>

\* Mutant: append returns before the newline is in the file.
ReturnEarly ==
    /\ Appending
    /\ part = Parts
    /\ latest' = Remember(latest, plan[next], next)
    /\ returned' = returned \cup {[run |-> run, id |-> next]}
    /\ next' = next + 1
    /\ part' = 0
    /\ UNCHANGED <<plan, run, up, files>>

\* The file is closed, and append returns.
Return ==
    /\ Appending
    /\ part = Parts + 1
    /\ latest' = Remember(latest, plan[next], next)
    /\ returned' = returned \cup {[run |-> run, id |-> next]}
    /\ next' = next + 1
    /\ part' = 0
    /\ UNCHANGED <<plan, run, up, files>>

\* The process stops, or the disk takes no more: nothing catches the error.
Crash ==
    /\ up
    /\ run =< MaxCrashes
    /\ up' = FALSE
    /\ UNCHANGED <<plan, run, next, part, files, latest, returned>>

\* The command is run again on the same data directory.
Boot ==
    /\ ~up \/ next > Len(plan)
    /\ run < MaxRuns
    /\ run' = run + 1
    /\ up' = TRUE
    /\ next' = 1
    /\ part' = 0
    /\ latest' = NoLatest
    /\ UNCHANGED <<plan, files, returned>>

Next == Write \/ Return \/ Crash \/ Boot

Spec == Init /\ [][Next]_vars
------------------------------------------------------------------------------
\* What a reader makes of a line: the entry it is all of, and nothing else.
EntryOf(line) ==
    IF line # <<>> /\ line = Text(line[1].run, line[1].id, Parts)
        THEN [run |-> line[1].run, id |-> line[1].id]
        ELSE None

Readable(p) == [i \in DOMAIN files[p].lines |-> EntryOf(files[p].lines[i])]

\* What the append under way has put behind the last newline of a file.
Underway(p) ==
    IF Appending /\ part =< Parts /\ p = Target THEN Text(run, next, part) ELSE <<>>

Torn(p) == files[p].tail # Underway(p)

Logs == [p \in Paths |-> Readable(p)]
Tears == [p \in Paths |-> Torn(p)]

\* The entry whose newline is in the file, while its append has not returned.
Pending == IF Appending /\ part = Parts + 1 THEN {[run |-> run, id |-> next]} ELSE {}

\* The store implements append-only logs: a file's readable lines are the log,
\* it is torn while something other than the append under way stands behind
\* its last newline, and an append returns when its entry has been added
\* (store_port: "Append-only").
Log == INSTANCE AppendLog WITH
    Entries  <- Entries,
    Spoiled  <- None,
    log      <- Logs,
    torn     <- Tears,
    up       <- up,
    pending  <- Pending,
    returned <- returned

ImplementsAppendLog == Log!LogSpec

\* The variables have the types the code declares.
StoreTypeOK ==
    /\ plan \in Plans
    /\ run \in 1 .. MaxRuns
    /\ up \in BOOLEAN
    /\ next \in 1 .. Len(plan) + 1
    /\ part \in 0 .. Parts + 1
    /\ next > Len(plan) => part = 0
    /\ files \in [Paths -> [lines : Seq(Seq(Pieces)), tail : Seq(Pieces)]]
    /\ latest \in [Mints -> DOMAIN plan \cup {None}]
    /\ returned \subseteq [run : 1 .. run, id : DOMAIN plan]

Recorded(e) ==
    LET p == PathOf(plan[e.id])
    IN  \E i \in DOMAIN files[p].lines : EntryOf(files[p].lines[i]) = e

\* An append that returned can be read back, unless it was the first of a
\* rerun to reach its file: a crash costs the append it interrupts and at most
\* one of those that follow, never one that had returned before it.
OnlyFirstOfRerunIsLost ==
    \A e \in returned :
        \/ Recorded(e)
        \/ /\ e.run > 1
           /\ \A d \in returned :
                 d.run = e.run /\ PathOf(plan[d.id]) = PathOf(plan[e.id]) => d.id >= e.id

\* latest answers with the append of the token that returned last in this run,
\* though a snapshot captured later may have been appended before it, and
\* knows nothing of what earlier runs left on disk.
LatestIsLastOfThisRun ==
    \A m \in Mints :
        LET mine == {e.id : e \in {d \in returned :
                        d.run = run /\ plan[d.id].kind = "snapshot" /\ plan[d.id].mint = m}}
        IN  IF mine = {} THEN latest[m] = None
            ELSE latest[m] \in mine /\ \A i \in mine : i =< latest[m]

\* Where a reader meets a line: files by date, each from its start.
Before(d, i, e, j) == d < e \/ (d = e /\ i < j)

\* Provenance read back by date, each file from its start, is in the order a
\* run appended it, although observations carry times in any order and a
\* replay may cross midnight.
HistoryReadsInOrder ==
    \A p, q \in {x \in Paths : x[1] = "provenance"} :
        \A i \in DOMAIN Readable(p), j \in DOMAIN Readable(q) :
            LET d == Readable(p)[i]
                e == Readable(q)[j]
            IN  d # None /\ e # None /\ d.run = e.run
                    => (Before(p[2], i, q[2], j) <=> d.id < e.id)
=============================================================================
