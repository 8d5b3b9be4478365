------------------------- MODULE ReplaySessionProofs -------------------------
(****************************************************************************)
(* The session keeps its promises for every fixture and every reader.       *)
(****************************************************************************)
EXTENDS ReplaySession, TLAPS

\* An entry declares no state or a well-formed one.
LEMMA DeclaredByType ==
    ASSUME NEW e, IsEntry(e)
    PROVE  DeclaredBy(e) = None \/ IsRefreshedState(DeclaredBy(e))
  <1>1. CASE e.validation_state = None
    BY <1>1 DEF DeclaredBy
  <1>2. CASE IsDeclaredState(e.validation_state)
    <2>1. IsReport(ToPatchFields(e.validation_state.metrics))
      BY <1>2 DEF IsDeclaredState, IsRawReport, IsReport, ToPatchFields
    <2>2. IsRefreshedState(RefreshedState(e.mint, e.validation_state))
      BY <1>2, <2>1 DEF IsDeclaredState, IsEntry, IsRefreshedState, RefreshedState
    <2>3. QED
      BY <2>2 DEF DeclaredBy
  <1>3. QED
    BY <1>1, <1>2 DEF IsEntry

\* The clock moves to a reported time and never backwards.
LEMMA ObserveTimeIsLatest ==
    ASSUME NEW now \in Optional(Int), NEW t \in Int
    PROVE  /\ ObserveTime(now, t) \in Int
           /\ ObserveTime(now, t) >= t
           /\ now \in Int => ObserveTime(now, t) >= now
           /\ ObserveTime(now, t) = t \/ ObserveTime(now, t) = now
  BY NoneAssumption DEF ObserveTime, Optional

\* The entry a yield takes is an entry of the fixture.
LEMMA NextEntry ==
    ASSUME SessionTypeOK, pos < Len(fixture)
    PROVE  /\ pos \in Nat /\ pos + 1 \in 1 .. Len(fixture)
           /\ IsEntry(fixture[pos + 1])
  BY FixturesAssumption DEF SessionTypeOK, IsFixture

LEMMA YieldedEntries ==
    ASSUME SessionTypeOK
    PROVE  \A i \in 1 .. pos : i \in 1 .. Len(fixture) /\ IsEntry(fixture[i])
  BY FixturesAssumption DEF SessionTypeOK, IsFixture

\* A session opens, and every step leaves it, with variables of their types.
LEMMA SessionOpensTyped == SessionInit => SessionTypeOK
  <1> SUFFICES ASSUME SessionInit PROVE SessionTypeOK
    OBVIOUS
  <1>1. Len(fixture) \in Nat
    BY FixturesAssumption DEF SessionInit, IsFixture
  <1>2. QED
    BY <1>1 DEF SessionInit, Opened, SessionTypeOK, Optional

LEMMA SessionStepIsTyped == SessionTypeOK /\ [SessionNext]_sessionVars => SessionTypeOK'
  <1> SUFFICES ASSUME SessionTypeOK, [SessionNext]_sessionVars PROVE SessionTypeOK'
    OBVIOUS
  <1>1. CASE Yield
    <2>1. IsEntry(fixture[pos + 1]) /\ pos + 1 \in 0 .. Len(fixture)
      BY <1>1, NextEntry DEF Yield
    <2>2. clock' \in Optional(Int)
      BY <1>1, <2>1, ObserveTimeIsLatest DEF Yield, SessionTypeOK, IsEntry, Optional
    <2>3. DOMAIN published' = Mints /\ \A m \in Mints :
              published'[m] = None \/ IsRefreshedState(published'[m])
      BY <1>1, <2>1, DeclaredByType DEF Yield, SessionTypeOK, Publish, IsEntry
    <2>4. QED
      BY <1>1, <2>1, <2>2, <2>3 DEF Yield, SessionTypeOK
  <1>2. ASSUME NEW m \in Mints, Refresh(m) PROVE SessionTypeOK'
    <2>1. clock' \in Optional(Int)
      BY <1>2, ObserveTimeIsLatest
         DEF Refresh, TimeAfterRefresh, SessionTypeOK, IsRefreshedState, Optional
    <2>2. QED
      BY <1>2, <2>1 DEF Refresh, SessionTypeOK
  <1>3. CASE Reopen
    <2>1. Len(fixture) \in Nat
      BY FixturesAssumption DEF SessionTypeOK, IsFixture
    <2>2. QED
      BY <1>3, <2>1 DEF Reopen, SessionTypeOK, Optional
  <1>4. CASE UNCHANGED sessionVars
    BY <1>4 DEF sessionVars, SessionTypeOK
  <1>5. QED
    BY <1>1, <1>2, <1>3, <1>4 DEF SessionNext

\* The session's variables always have their types.
THEOREM SessionTyping == SessionSpec => []SessionTypeOK
  BY SessionOpensTyped, SessionStepIsTyped, PTL DEF SessionSpec

\* What a refresh would answer is what the latest observation declared.
THEOREM ReadsAreOfLatestObservation == SessionSpec => []ReadIsOfLatestObservation
  <1>1. SessionInit => ReadIsOfLatestObservation
    BY DEF SessionInit, Opened, ReadIsOfLatestObservation, Yielded
  <1>2. SessionTypeOK /\ ReadIsOfLatestObservation /\ [SessionNext]_sessionVars
          => ReadIsOfLatestObservation'
    <2> SUFFICES ASSUME SessionTypeOK, ReadIsOfLatestObservation,
                        [SessionNext]_sessionVars
                 PROVE  ReadIsOfLatestObservation'
      OBVIOUS
    <2>1. CASE Yield
      <3>1. pos \in Nat /\ pos' = pos + 1 /\ fixture' = fixture
        BY <2>1, NextEntry DEF Yield
      <3> SUFFICES ASSUME NEW m \in Mints
                   PROVE  /\ Yielded(m)' = {} => published'[m] = None
                          /\ \A i \in Yielded(m)' :
                                IsLastYielded(i, m)' => published'[m] = DeclaredBy(fixture[i])
        BY <3>1 DEF ReadIsOfLatestObservation, DeclaredBy, RefreshedState
      <3>2. CASE fixture[pos + 1].mint = m
        <4>1. pos + 1 \in Yielded(m)'
          BY <3>1, <3>2 DEF Yielded
        <4>2. published'[m] = DeclaredBy(fixture[pos + 1])
          BY <2>1, <3>2 DEF Yield, Publish, SessionTypeOK
        <4>3. \A i \in Yielded(m)' : IsLastYielded(i, m)' => i = pos + 1
          BY <3>1, <4>1 DEF Yielded, IsLastYielded
        <4>4. QED
          BY <4>1, <4>2, <4>3
      <3>3. CASE fixture[pos + 1].mint # m
        <4>1. Yielded(m)' = Yielded(m)
          BY <3>1, <3>3 DEF Yielded
        <4>2. published'[m] = published[m]
          BY <2>1, <3>3 DEF Yield, Publish, SessionTypeOK
        <4>3. \A i : IsLastYielded(i, m)' <=> IsLastYielded(i, m)
          BY <4>1 DEF IsLastYielded
        <4>4. QED
          BY <4>1, <4>2, <4>3 DEF ReadIsOfLatestObservation
      <3>4. QED
        BY <3>2, <3>3
    <2>2. ASSUME NEW m \in Mints, Refresh(m) PROVE ReadIsOfLatestObservation'
      BY <2>2 DEF Refresh, ReadIsOfLatestObservation, Yielded, IsLastYielded
    <2>3. CASE Reopen
      BY <2>3 DEF Reopen, ReadIsOfLatestObservation, Yielded
    <2>4. CASE UNCHANGED sessionVars
      BY <2>4 DEF sessionVars, ReadIsOfLatestObservation, Yielded, IsLastYielded
    <2>5. QED
      BY <2>1, <2>2, <2>3, <2>4 DEF SessionNext
  <1>3. QED
    BY <1>1, <1>2, SessionTyping, PTL DEF SessionSpec

\* No observation yielded so far carries a later time than the clock.
THEOREM ClockCoversEveryObservation == SessionSpec => []ClockCoversObservations
  <1>1. SessionInit => ClockCoversObservations
    BY DEF SessionInit, Opened, ClockCoversObservations
  <1>2. SessionTypeOK /\ ClockCoversObservations /\ [SessionNext]_sessionVars
          => ClockCoversObservations'
    <2> SUFFICES ASSUME SessionTypeOK, ClockCoversObservations,
                        [SessionNext]_sessionVars
                 PROVE  ClockCoversObservations'
      OBVIOUS
    <2> USE NoneAssumption
    <2>0. clock \in Optional(Int) /\ \A i \in 1 .. pos : IsEntry(fixture[i])
      BY YieldedEntries DEF SessionTypeOK
    <2>1. CASE Yield
      <3>1. /\ pos \in Nat /\ pos' = pos + 1 /\ fixture' = fixture
            /\ IsEntry(fixture[pos + 1])
        BY <2>1, NextEntry DEF Yield
      <3>2. /\ clock' = ObserveTime(clock, fixture[pos + 1].observed_at_ms)
            /\ fixture[pos + 1].observed_at_ms \in Int
        BY <2>1, <3>1 DEF Yield, IsEntry
      <3>3. /\ clock' \in Int /\ clock' >= fixture[pos + 1].observed_at_ms
            /\ clock \in Int => clock' >= clock
        BY <2>0, <3>2, ObserveTimeIsLatest
      <3>4. ASSUME NEW i \in 1 .. pos
            PROVE  clock' # None /\ fixture[i].observed_at_ms =< clock'
        <4>1. clock \in Int /\ fixture[i].observed_at_ms =< clock
              /\ fixture[i].observed_at_ms \in Int
          BY <2>0, <3>4 DEF ClockCoversObservations, Optional, IsEntry
        <4>2. QED
          BY <3>3, <4>1
      <3>5. QED
        BY <3>1, <3>3, <3>4 DEF ClockCoversObservations, IsEntry
    <2>2. ASSUME NEW m \in Mints, Refresh(m) PROVE ClockCoversObservations'
      <3>1. CASE published[m] = None
        BY <2>2, <3>1 DEF Refresh, TimeAfterRefresh, ClockCoversObservations
      <3>2. CASE IsRefreshedState(published[m])
        <4> DEFINE t == published[m].observed_at_ms
        <4>1. t \in Int /\ (clock' = clock \/ clock' = ObserveTime(clock, t))
          BY <2>2, <3>2 DEF Refresh, TimeAfterRefresh, IsRefreshedState
        <4>2. clock \in Int => clock' \in Int /\ clock' >= clock
          BY <2>0, <4>1, ObserveTimeIsLatest
        <4>3. \A i \in 1 .. pos : fixture[i].observed_at_ms \in Int
          BY <2>0 DEF IsEntry
        <4>4. QED
          BY <2>0, <2>2, <4>2, <4>3 DEF ClockCoversObservations, Refresh, Optional
      <3>3. QED
        BY <3>1, <3>2 DEF SessionTypeOK
    <2>3. CASE Reopen
      BY <2>3 DEF Reopen, ClockCoversObservations
    <2>4. CASE UNCHANGED sessionVars
      BY <2>4 DEF sessionVars, ClockCoversObservations
    <2>5. QED
      BY <2>1, <2>2, <2>3, <2>4 DEF SessionNext
  <1>3. QED
    BY <1>1, <1>2, SessionTyping, PTL DEF SessionSpec

\* Within a run the clock never moves backwards, whatever order the times of
\* observations and re-reads come in.
THEOREM ClockIsMonotone == SessionSpec => ClockNeverRewinds
  <1>1. SessionTypeOK /\ [SessionNext]_sessionVars
          => [pos' = 0 \/ clock = None \/ clock' >= clock]_sessionVars
    <2> SUFFICES ASSUME SessionTypeOK, [SessionNext]_sessionVars,
                        ~(UNCHANGED sessionVars), clock # None
                 PROVE  pos' = 0 \/ clock' >= clock
      OBVIOUS
    <2>0. clock \in Int
      BY DEF SessionTypeOK, Optional
    <2>1. CASE Yield
      <3>1. fixture[pos + 1].observed_at_ms \in Int
        BY <2>1, NextEntry DEF Yield, IsEntry
      <3>2. QED
        BY <2>0, <2>1, <3>1, ObserveTimeIsLatest DEF Yield, Optional
    <2>2. ASSUME NEW m \in Mints, Refresh(m) PROVE clock' >= clock
      <3>1. published[m] = None \/ published[m].observed_at_ms \in Int
        BY DEF SessionTypeOK, IsRefreshedState
      <3>2. CASE published[m] = None
        BY <2>0, <2>2, <3>2 DEF Refresh, TimeAfterRefresh
      <3>3. CASE published[m] # None
        BY <2>0, <2>2, <3>1, <3>3, ObserveTimeIsLatest
           DEF Refresh, TimeAfterRefresh, Optional
      <3>4. QED
        BY <3>2, <3>3
    <2>3. CASE Reopen
      BY <2>3 DEF Reopen
    <2>4. QED
      BY <2>1, <2>2, <2>3 DEF SessionNext
  <1>2. QED
    BY <1>1, SessionTyping, PTL DEF SessionSpec, ClockNeverRewinds

\* What a refresh would answer carries a time some observation declared.
AnswersWereDeclared ==
    \A m \in Mints : published[m] # None =>
        \E i \in 1 .. pos :
            /\ fixture[i].validation_state # None
            /\ published[m].observed_at_ms = fixture[i].validation_state.observed_at_ms

LEMMA SessionOpensUntold == SessionInit => AnswersWereDeclared /\ ClockWasReported
  BY DEF SessionInit, Opened, AnswersWereDeclared, ClockWasReported

LEMMA StepIsReported ==
    ASSUME SessionTypeOK, AnswersWereDeclared, ClockWasReported, [SessionNext]_sessionVars
    PROVE  AnswersWereDeclared' /\ ClockWasReported'
  <1>1. CASE Yield
    <2> DEFINE e == fixture[pos + 1]
    <2>1. /\ pos \in Nat /\ pos' = pos + 1 /\ fixture' = fixture
          /\ e.observed_at_ms \in Int /\ e.mint \in Mints
          /\ pos + 1 \in 1 .. pos' /\ \A i \in 1 .. pos : i \in 1 .. pos'
      BY <1>1, NextEntry DEF Yield, IsEntry
    <2>2. clock' = e.observed_at_ms \/ (clock' = clock /\ clock # None)
      BY <1>1, NoneAssumption DEF Yield, ObserveTime
    <2>3. ClockWasReported'
      BY <2>1, <2>2 DEF ClockWasReported
    <2>4. \A m \in Mints :
             published'[m] = IF m = e.mint THEN DeclaredBy(e) ELSE published[m]
      BY <1>1 DEF Yield, Publish, SessionTypeOK
    <2>5. DeclaredBy(e) # None =>
             /\ e.validation_state # None
             /\ DeclaredBy(e).observed_at_ms = e.validation_state.observed_at_ms
      BY DEF DeclaredBy, RefreshedState
    <2>6. AnswersWereDeclared'
      BY <2>1, <2>4, <2>5 DEF AnswersWereDeclared
    <2>7. QED
      BY <2>3, <2>6
  <1>2. ASSUME NEW m \in Mints, Refresh(m) PROVE AnswersWereDeclared' /\ ClockWasReported'
    <2>1. UNCHANGED <<fixture, pos, published>>
      BY <1>2 DEF Refresh
    <2>2. \/ clock' = clock
          \/ published[m] # None /\ clock' = published[m].observed_at_ms
      BY <1>2 DEF Refresh, TimeAfterRefresh, ObserveTime
    <2>3. QED
      BY <2>1, <2>2 DEF AnswersWereDeclared, ClockWasReported
  <1>3. CASE Reopen
    BY <1>3 DEF Reopen, AnswersWereDeclared, ClockWasReported
  <1>4. CASE UNCHANGED sessionVars
    BY <1>4 DEF sessionVars, AnswersWereDeclared, ClockWasReported
  <1>5. QED
    BY <1>1, <1>2, <1>3, <1>4 DEF SessionNext

\* The clock only ever tells a time that an observation of the session carried
\* or declared.
THEOREM ClockIsOfTheSource == SessionSpec => []ClockWasReported
  BY SessionOpensUntold, StepIsReported, SessionTyping, PTL DEF SessionSpec
=============================================================================
