---------------------------- MODULE ReplaySession ----------------------------
(****************************************************************************)
(* A replay session: the data source that yields a fixture's observations   *)
(* in file order, the refresher that serves the fresh state each of them    *)
(* declares, and the source-time clock that takes its time from both        *)
(* (open_replay).                                                           *)
(*                                                                          *)
(* The reader is whoever drives the session: it may ask for fresh state     *)
(* any number of times between two observations, and a rerun opens the same *)
(* fixture again.                                                           *)
(****************************************************************************)
EXTENDS Metrics, Sequences

CONSTANTS
    Fixtures    \* the fixtures a session may be opened on

\* A validation_state block, as the fixture spells it.
IsDeclaredState(s) ==
    /\ s = [slot |-> s.slot, observed_at_ms |-> s.observed_at_ms, metrics |-> s.metrics]
    /\ s.slot \in Int
    /\ s.observed_at_ms \in Int
    /\ IsRawReport(s.metrics)

\* One observation of a fixture, with the number of events it declares.
IsEntry(e) ==
    /\ e.mint \in Mints
    /\ e.slot \in Int
    /\ e.observed_at_ms \in Int
    /\ IsRawReport(e.metrics)
    /\ e.events \in Nat
    /\ e.validation_state = None \/ IsDeclaredState(e.validation_state)

IsFixture(fx) ==
    /\ Len(fx) \in Nat
    /\ DOMAIN fx = 1 .. Len(fx)
    /\ \A i \in DOMAIN fx : IsEntry(fx[i])

ASSUME FixturesAssumption == \A fx \in Fixtures : IsFixture(fx)

VARIABLES
    fixture,    \* the fixture the session is open on
    pos,        \* how many of its observations have been yielded
    clock,      \* SourceTimeClock._now_ms, None before the first observation
    published   \* ReplayStateRefresher._states: per mint, the state or None

sessionVars == <<fixture, pos, clock, published>>

\* ValidationStateFixture.to_domain.
RefreshedState(mint, declared) ==
    [mint           |-> mint,
     slot           |-> declared.slot,
     observed_at_ms |-> declared.observed_at_ms,
     fields         |-> ToPatchFields(declared.metrics)]

\* What publish is handed for an entry: None when it declares no state.
DeclaredBy(entry) ==
    IF entry.validation_state = None THEN None
    ELSE RefreshedState(entry.mint, entry.validation_state)

\* Mutant: the clock follows the last observation, whatever time it carries.
FollowObserved(now, observed_at_ms) == observed_at_ms

\* SourceTimeClock.observe: time never moves backwards.
ObserveTime(now, observed_at_ms) ==
    IF now = None THEN observed_at_ms
    ELSE IF observed_at_ms > now THEN observed_at_ms ELSE now

\* Mutant: an observation that declares no state withdraws nothing.
PublishWithoutWithdrawing(states, mint, state) ==
    IF state = None THEN states ELSE [states EXCEPT ![mint] = state]

\* publish: declare the fresh state of a mint, or withdraw it.
Publish(states, mint, state) == [states EXCEPT ![mint] = state]

\* Mutant: the clock is set to the time the answer carries, older or not.
TimeOfAnswer(now, states, mint) ==
    IF states[mint] = None THEN now ELSE states[mint].observed_at_ms

\* refresh, its effect on the clock; its answer is states[mint].
TimeAfterRefresh(now, states, mint) ==
    IF states[mint] = None THEN now
    ELSE ObserveTime(now, states[mint].observed_at_ms)

Opened ==
    /\ pos = 0
    /\ clock = None
    /\ published = [m \in Mints |-> None]

SessionInit == fixture \in Fixtures /\ Opened

\* ReplayDataSource.updates, up to the yield of the next observation.
Yield ==
    /\ pos < Len(fixture)
    /\ LET entry == fixture[pos + 1] IN
          /\ clock' = ObserveTime(clock, entry.observed_at_ms)
          /\ published' = Publish(published, entry.mint, DeclaredBy(entry))
    /\ pos' = pos + 1
    /\ UNCHANGED fixture

\* The driver asks for the state of a mint, between two observations.
Refresh(mint) ==
    /\ clock' = TimeAfterRefresh(clock, published, mint)
    /\ UNCHANGED <<fixture, pos, published>>

\* Mutant: the clock outlives the session it took its time from.
ReopenWithOldClock ==
    /\ pos' = 0
    /\ published' = [m \in Mints |-> None]
    /\ UNCHANGED <<fixture, clock>>

\* open_replay on the same fixture, by a new run of the program.
Reopen ==
    /\ pos' = 0
    /\ clock' = None
    /\ published' = [m \in Mints |-> None]
    /\ UNCHANGED fixture

SessionNext == Yield \/ (\E m \in Mints : Refresh(m)) \/ Reopen

SessionSpec == SessionInit /\ [][SessionNext]_sessionVars
------------------------------------------------------------------------------
IsRefreshedState(s) ==
    /\ s.mint \in Mints
    /\ s.slot \in Int
    /\ s.observed_at_ms \in Int
    /\ IsReport(s.fields)

\* The session's variables have the types the code declares for them.
SessionTypeOK ==
    /\ fixture \in Fixtures
    /\ pos \in 0 .. Len(fixture)
    /\ clock \in Optional(Int)
    /\ DOMAIN published = Mints
    /\ \A m \in Mints : published[m] = None \/ IsRefreshedState(published[m])

\* The entries of a mint that were yielded, and the last of them.
Yielded(m) == {i \in 1 .. pos : fixture[i].mint = m}
IsLastYielded(i, m) == i \in Yielded(m) /\ \A j \in Yielded(m) : j =< i

\* What a refresh would answer about a token is exactly what its latest
\* observation declared: an older declaration never outlives it
\* (refresher.publish and source.updates).
ReadIsOfLatestObservation ==
    \A m \in Mints :
        /\ Yielded(m) = {} => published[m] = None
        /\ \A i \in Yielded(m) :
              IsLastYielded(i, m) => published[m] = DeclaredBy(fixture[i])

\* Nothing the pipeline can look at carries a later time than the clock, so
\* no age it measures is flattered by an out-of-order observation
\* (SourceTimeClock.observe).
ClockCoversObservations ==
    \A i \in 1 .. pos : clock # None /\ fixture[i].observed_at_ms =< clock

\* The clock is one of the times the source has reported, never a guess.
ClockWasReported ==
    \/ clock = None /\ pos = 0
    \/ \E i \in 1 .. pos :
          \/ clock = fixture[i].observed_at_ms
          \/ /\ fixture[i].validation_state # None
             /\ clock = fixture[i].validation_state.observed_at_ms

\* Within a run time never moves backwards.
ClockNeverRewinds == [][pos' = 0 \/ clock = None \/ clock' >= clock]_sessionVars
=============================================================================
