----------------------------- MODULE ReplayDrivers ---------------------------
(****************************************************************************)
(* One process that drives one replay session in several passes, each over  *)
(* the stream (run_source) or over the batch (run over source.batch).  What *)
(* the session, the cache and the builder hold persists from pass to pass;  *)
(* run numbers the passes.                                                  *)
(*                                                                          *)
(* A batch hands over the same observations and tells neither the refresher *)
(* nor the clock of them.                                                   *)
(****************************************************************************)
EXTENDS PipelineProperties

VARIABLE drivers    \* per pass so far: "stream" or "batch"

driverVars == <<vars, drivers>>

Driver == drivers[run]

DriverInit == Init /\ drivers \in {<<"stream">>, <<"batch">>}

StreamObserve ==
    /\ Driver = "stream"
    /\ Observe
    /\ UNCHANGED drivers

\* Mutant: the state before the update is not captured.
BatchObserveUncaptured ==
    /\ Driver = "batch"
    /\ pc = "source"
    /\ pos < Len(fixture)
    /\ LET entry == fixture[pos + 1] IN
          /\ ConsumeSequence(None)
          /\ Apply(entry.mint, entry.slot, entry.observed_at_ms, Reported(entry))
          /\ IF entry.events = 0 THEN Continue("source", NoFrame)
             ELSE Continue("trigger", EventFrame(1, None))
    /\ pos' = pos + 1
    /\ UNCHANGED <<fixture, clock, published, run, storeVars, drivers>>

\* run: the next update of the batch is processed, and nobody is told.
BatchObserve ==
    /\ Driver = "batch"
    /\ pc = "source"
    /\ pos < Len(fixture)
    /\ LET entry    == fixture[pos + 1]
           previous == CaptureKnown(entry.mint)
       IN /\ ConsumeSequence(previous)
          /\ Apply(entry.mint, entry.slot, entry.observed_at_ms, Reported(entry))
          /\ IF entry.events = 0 THEN Continue("source", NoFrame)
             ELSE Continue("trigger", EventFrame(1, previous))
    /\ pos' = pos + 1
    /\ UNCHANGED <<fixture, clock, published, run, storeVars, drivers>>

\* Mutant: a clock that was told no time guesses one.
TimeIsGuessed == pc = "trigger"

\* now_ms answers once a time was reported, and raises before.
TimeIsKnown == clock # None

\* The first record of an event needs the time: _record raises, and so do
\* process and run.
RaiseNotConfigured ==
    /\ pc = "trigger"
    /\ ~TimeIsKnown
    /\ pc' = "raised"
    /\ UNCHANGED <<sessionVars, processVars, run, storeVars, drivers>>

Stage ==
    /\ \/ TimeIsKnown /\ Trigger
       \/ Capture \/ RecordCaptured \/ AnalyzeDelta
       \/ FilterCandidate \/ HeavyAnalysis \/ Scoring
       \/ PreTradeValidation \/ EmitAlert \/ RecordAction
       \/ Finish
    /\ UNCHANGED drivers

\* Mutant: the builder starts to number anew with every pass.
NextPassRenumbering ==
    /\ pc \in {"done", "raised"}
    /\ run < MaxRuns
    /\ \E driver \in {"stream", "batch"} : drivers' = Append(drivers, driver)
    /\ run' = run + 1
    /\ pos' = 0
    /\ sequence' = 0
    /\ Continue("source", NoFrame)
    /\ UNCHANGED <<fixture, clock, published, cache, storeVars>>

\* The caller goes through the session once more, one way or the other.
NextPass ==
    /\ pc \in {"done", "raised"}
    /\ run < MaxRuns
    /\ \E driver \in {"stream", "batch"} : drivers' = Append(drivers, driver)
    /\ run' = run + 1
    /\ pos' = 0
    /\ Continue("source", NoFrame)
    /\ UNCHANGED <<fixture, clock, published, cache, sequence, storeVars>>

DriverNext == StreamObserve \/ BatchObserve \/ RaiseNotConfigured \/ Stage \/ NextPass

DriverSpec == DriverInit /\ [][DriverNext]_driverVars
------------------------------------------------------------------------------
\* The observation whose declared state answers the re-reads of an alert.
ReadSource(a) ==
    IF drivers[a.run] = "stream" THEN a.pos
    ELSE Max({i \in DOMAIN fixture : fixture[i].mint = fixture[a.pos].mint})

\* An alert was checked against what the stream declared last of its token:
\* its own observation's state when the pass was streamed, as refresher.py
\* says of every refresh, but over a batch, of which source.py tells the
\* refresher nothing, that of the token's last observation in the stream,
\* whichever one is evaluated (DriverClaims), and none before any stream.
AlertReadWasStreamed ==
    \A a \in ToSet(alerts) :
        LET declared == fixture[ReadSource(a)].validation_state IN
        /\ "stream" \in {drivers[r] : r \in 1 .. a.run}
        /\ declared # None
        /\ Checked(a).slot = declared.slot
        /\ Checked(a).captured_at_ms = declared.observed_at_ms

\* A batch driven before any time was reported is refused at its first event
\* without leaving a trace of it in stores or sink, while continuous state
\* already holds the observation (now_ms: an error rather than a guess).
TimelessLeavesNoTrace ==
    /\ clock = None => records = <<>> /\ snapshots = <<>> /\ alerts = <<>>
    /\ pc = "raised" => /\ clock = None
                        /\ cache[Current.mint].last_slot = Current.slot

\* Over all passes of a process snapshot numbers increase and record times do
\* not go back: builder and clock outlive a pass.
NumbersAndTimesSpanPasses ==
    /\ \A i \in DOMAIN snapshots : \A j \in i + 1 .. Len(snapshots) :
          snapshots[i].snapshot.sequence < snapshots[j].snapshot.sequence
    /\ \A i \in DOMAIN records : \A j \in i + 1 .. Len(records) :
          records[i].occurred_at_ms =< records[j].occurred_at_ms

\* What was processed of a token before an observation of a pass: earlier
\* observations of the pass, else all of a pass that went through, else those
\* up to the first event, where a batch without a time is refused.
ProcessedBefore(r) ==
    LET ofMint  == {i \in DOMAIN fixture : fixture[i].mint = r.mint}
        earlier == {i \in ofMint : i < r.pos}
        refused == Min({i \in DOMAIN fixture : fixture[i].events > 0})
    IN  IF earlier # {} \/ r.run = 1 THEN earlier
        ELSE IF \E q \in 1 .. r.run - 1 : drivers[q] = "stream" THEN ofMint
        ELSE {i \in ofMint : i =< refused}

\* A delta starts where the token was processed last, in this pass or in one
\* before it, refused or not: the cache outlives a pass, so a later pass sees
\* no token as new that an earlier one saw (process).
DeltaSpansPasses ==
    \A r \in ToSet(records) : r.stage = "DELTA_ANALYSIS" =>
        LET before == ProcessedBefore(r) IN
        r.detail.from_slot = IF before = {} THEN None ELSE fixture[Max(before)].slot
=============================================================================
