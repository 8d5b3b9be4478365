--------------------------- MODULE FileStoreProofs ---------------------------
(****************************************************************************)
(* The file stores implement append-only logs, and a crash costs no append  *)
(* that had returned before it, and a history is read back in the order it  *)
(* was appended in: for all plans, tokens, numbers of pieces, of runs and   *)
(* of crashes.                                                              *)
(****************************************************************************)
EXTENDS FileStore, SequenceTheorems, TLAPS

\* What the append under way has written stands at the end of its file, which
\* is longer if something else stands before it.
TailHoldsUnderway ==
    Appending /\ part =< Parts =>
        /\ Len(files[Target].tail) >= part
        /\ Len(files[Target].tail) = part => files[Target].tail = Text(run, next, part)

\* Nothing is read back that was not appended yet.
EntriesArePast ==
    \A p \in Paths : \A i \in DOMAIN files[p].lines :
        LET e == EntryOf(files[p].lines[i])
        IN  e # None => \/ Log!Precedes(e, [run |-> run, id |-> next])
                        \/ e = [run |-> run, id |-> next] /\ part = Parts + 1

\* The run under way has returned from what precedes the next item.
ReturnedArePast ==
    \A d \in returned : d.run =< run /\ (d.run = run => d.id < next)

\* This run has not returned from an append to a path yet, and is a rerun.
FreshRerun(p) ==
    /\ run > 1
    /\ \A d \in returned : d.run = run => PathOf(plan[d.id]) # p

\* A file is torn only until the run under way first appends to it.
TornIsFresh == up => \A p \in Paths : Torn(p) => FreshRerun(p)

\* The line just ended is the item's own, or was torn.
EndedIsRecorded ==
    Appending /\ part = Parts + 1 =>
        /\ files[Target].tail = <<>>
        /\ Recorded([run |-> run, id |-> next]) \/ FreshRerun(Target)

StoreInv ==
    /\ StoreTypeOK
    /\ TailHoldsUnderway
    /\ EntriesArePast
    /\ ReturnedArePast
    /\ TornIsFresh
    /\ EndedIsRecorded
    /\ OnlyFirstOfRerunIsLost
------------------------------------------------------------------------------
\* A line is read back as the entry it is all of, and as nothing if it is
\* longer than the text of one.
LEMMA ReadBack ==
    ASSUME NEW r, NEW i, NEW line \in Seq(Pieces)
    PROVE  /\ Len(line) > Parts => EntryOf(line) = None
           /\ line = Text(r, i, Parts) => EntryOf(line) = [run |-> r, id |-> i]
<1>1. /\ DOMAIN Text(r, i, Parts) = 1 .. Parts
      /\ Text(r, i, Parts)[1] = Piece(r, i, 1)
  BY PartsAssumption DEF Text
<1>2. \A a, b : Len(line) > Parts => line # Text(a, b, Parts)
  BY PartsAssumption DEF Text
<1>3. Text(r, i, Parts) # <<>>
  BY <1>1, PartsAssumption
<1>4. CASE Len(line) > Parts
  <2>1. line # Text(line[1].run, line[1].id, Parts)
    BY <1>2, <1>4
  <2>2. Len(Text(r, i, Parts)) = Parts
    BY PartsAssumption DEF Text
  <2> QED
    BY <1>4, <2>1, <2>2, PartsAssumption DEF EntryOf
<1>5. CASE ~(Len(line) > Parts)
  <2>1. SUFFICES ASSUME line = Text(r, i, Parts)
                 PROVE  EntryOf(line) = [run |-> r, id |-> i]
    BY <1>5
  <2>2. line[1].run = r /\ line[1].id = i
    BY <2>1, <1>1 DEF Piece
  <2>3. line # <<>> /\ line = Text(line[1].run, line[1].id, Parts)
    BY <2>1, <2>2, <1>3
  <2> QED
    BY <2>2, <2>3, Zenon DEF EntryOf
<1> QED
  BY <1>4, <1>5

\* What is added to a file is added to what is read of it.
LEMMA ReadAppended ==
    ASSUME NEW lines \in Seq(Seq(Pieces)), NEW line \in Seq(Pieces)
    PROVE  [i \in DOMAIN Append(lines, line) |-> EntryOf(Append(lines, line)[i])]
              = Append([i \in DOMAIN lines |-> EntryOf(lines[i])], EntryOf(line))
<1> DEFINE old == [i \in DOMAIN lines |-> EntryOf(lines[i])]
           S   == {EntryOf(lines[i]) : i \in DOMAIN lines} \cup {EntryOf(line)}
<1>1. old \in Seq(S) /\ Len(old) = Len(lines)
  <2>1. DOMAIN lines = 1 .. Len(lines) /\ Len(lines) \in Nat
    OBVIOUS
  <2>2. old \in [1 .. Len(lines) -> S]
    BY <2>1
  <2>3. old \in Seq(S)
    BY <2>1, <2>2, SeqDef
  <2> QED
    BY <2>1, <2>2, <2>3, LenProperties
<1>2. /\ DOMAIN Append(lines, line) = 1 .. Len(lines) + 1
      /\ DOMAIN Append(old, EntryOf(line)) = 1 .. Len(lines) + 1
  BY <1>1
<1>3. \A i \in 1 .. Len(lines) + 1 :
          EntryOf(Append(lines, line)[i]) = Append(old, EntryOf(line))[i]
  <2> TAKE i \in 1 .. Len(lines) + 1
  <2>1. CASE i = Len(lines) + 1
    <3>1. Append(lines, line)[i] = line /\ Append(old, EntryOf(line))[i] = EntryOf(line)
      BY <2>1, <1>1
    <3> QED
      BY <3>1
  <2>2. CASE i \in DOMAIN lines
    <3>1. Append(lines, line)[i] = lines[i] /\ Append(old, EntryOf(line))[i] = old[i]
      BY <2>2, <1>1
    <3> QED
      BY <3>1, <2>2
  <2> QED
    BY <2>1, <2>2
<1> DEFINE new == [i \in DOMAIN Append(lines, line) |-> EntryOf(Append(lines, line)[i])]
<1>4. /\ new = [i \in DOMAIN new |-> new[i]]
      /\ DOMAIN new = 1 .. Len(lines) + 1
      /\ \A i \in 1 .. Len(lines) + 1 : new[i] = Append(old, EntryOf(line))[i]
  BY <1>2, <1>3
<1>5. Append(old, EntryOf(line)) \in Seq(S)
  BY <1>1
<1>6. Append(old, EntryOf(line))
        = [i \in DOMAIN Append(old, EntryOf(line)) |-> Append(old, EntryOf(line))[i]]
  BY <1>5
<1> HIDE DEF old, new
<1>7. new = Append(old, EntryOf(line))
  BY <1>2, <1>4, <1>6
<1> QED
  BY <1>7 DEF old, new

LEMMA TargetIsPath == StoreTypeOK /\ Appending => Target \in Paths /\ next \in DOMAIN plan
BY PlansAssumption DEF StoreTypeOK, Appending, Target, Paths

\* The pieces of the append under way have the type of pieces.
LEMMA PieceTyped ==
    ASSUME StoreTypeOK, Appending, part < Parts
    PROVE  Piece(run, next, part + 1) \in Pieces
BY TargetIsPath, PartsAssumption, RunsAssumption DEF StoreTypeOK, Piece, Pieces, Appending

LEMMA TextGrows ==
    ASSUME NEW r, NEW i, NEW k \in Nat
    PROVE  Append(Text(r, i, k), Piece(r, i, k + 1)) = Text(r, i, k + 1)
<1>1. Text(r, i, k) \in Seq({Piece(r, i, n) : n \in 1 .. k + 1})
  <2>1. Text(r, i, k) \in [1 .. k -> {Piece(r, i, n) : n \in 1 .. k + 1}]
    BY DEF Text
  <2> QED
    BY <2>1, SeqDef
<1>2. DOMAIN Text(r, i, k) = 1 .. k /\ Len(Text(r, i, k)) = k
  BY DEF Text
<1> QED
  BY <1>1, <1>2 DEF Text

\* The types hold in every state.
LEMMA TypingInit == Init => StoreTypeOK
<1> SUFFICES ASSUME Init PROVE StoreTypeOK
  OBVIOUS
<1>1. <<>> \in Seq(Seq(Pieces)) /\ <<>> \in Seq(Pieces)
  OBVIOUS
<1>2. Len(plan) \in Nat
  BY PlansAssumption DEF Init
<1> QED
  BY <1>1, <1>2, RunsAssumption, PartsAssumption DEF Init, StoreTypeOK, NoLatest

LEMMA TypingStep == StoreTypeOK /\ [Next]_vars => StoreTypeOK'
<1> SUFFICES ASSUME StoreTypeOK, [Next]_vars PROVE StoreTypeOK'
  OBVIOUS
<1> USE DEF StoreTypeOK
<1>0. Len(plan) \in Nat /\ DOMAIN plan = 1 .. Len(plan)
  BY PlansAssumption
<1>1. CASE Write
  <2>1. Target \in Paths /\ files[Target] \in [lines : Seq(Seq(Pieces)), tail : Seq(Pieces)]
    BY <1>1, TargetIsPath DEF Write
  <2>2. part < Parts => Extend(files[Target], Piece(run, next, part + 1))
                           \in [lines : Seq(Seq(Pieces)), tail : Seq(Pieces)]
    <3>1. SUFFICES ASSUME part < Parts
                   PROVE  Extend(files[Target], Piece(run, next, part + 1))
                             \in [lines : Seq(Seq(Pieces)), tail : Seq(Pieces)]
      OBVIOUS
    <3>2. Piece(run, next, part + 1) \in Pieces
      BY <1>1, <3>1, PieceTyped DEF Write
    <3> HIDE DEF StoreTypeOK
    <3>3. Append(files[Target].tail, Piece(run, next, part + 1)) \in Seq(Pieces)
      BY <2>1, <3>2
    <3> QED
      BY <2>1, <3>3 DEF Extend
  <2>3. EndLine(files[Target]) \in [lines : Seq(Seq(Pieces)), tail : Seq(Pieces)]
    BY <2>1 DEF EndLine
  <2>4. files' \in [Paths -> [lines : Seq(Seq(Pieces)), tail : Seq(Pieces)]]
    BY <1>1, <2>1, <2>2, <2>3 DEF Write
  <2>5. part' \in 0 .. Parts + 1 /\ next =< Len(plan)
    BY <1>1, PartsAssumption DEF Write, Appending
  <2> QED
    BY <1>0, <1>1, <2>4, <2>5 DEF Write
<1>2. CASE Return
  <2>1. next \in DOMAIN plan /\ next' \in 1 .. Len(plan) + 1
    BY <1>0, <1>2 DEF Return, Appending
  <2>2. latest' \in [Mints -> DOMAIN plan \cup {None}]
    BY <1>2, <2>1 DEF Return, Remember
  <2>3. returned' \subseteq [run : 1 .. run, id : DOMAIN plan]
    BY <1>2, <2>1 DEF Return
  <2>4. part' \in 0 .. Parts + 1 /\ part' = 0
    BY <1>2, PartsAssumption DEF Return
  <2> QED
    BY <1>2, <2>1, <2>2, <2>3, <2>4 DEF Return
<1>3. CASE Crash
  BY <1>3 DEF Crash
<1>4. CASE Boot
  <2>1. run' \in 1 .. MaxRuns /\ 1 .. run \subseteq 1 .. run'
    BY <1>4, RunsAssumption DEF Boot
  <2>2. next' \in 1 .. Len(plan) + 1 /\ part' = 0 /\ part' \in 0 .. Parts + 1
    BY <1>0, <1>4, PartsAssumption DEF Boot
  <2>3. returned' \subseteq [run : 1 .. run', id : DOMAIN plan]
    <3>1. \A d \in returned : d \in [run : 1 .. run', id : DOMAIN plan]
      BY <2>1
    <3> QED
      BY <3>1, <1>4 DEF Boot
  <2> QED
    BY <1>4, <2>1, <2>2, <2>3 DEF Boot, NoLatest
<1>5. CASE UNCHANGED vars
  BY <1>5 DEF vars
<1> QED
  BY <1>1, <1>2, <1>3, <1>4, <1>5 DEF Next

\* A write of a piece: the file's tail and the text under way grow alike.
LEMMA PieceIsUnderway ==
    ASSUME StoreTypeOK, TailHoldsUnderway, Write, part < Parts
    PROVE  /\ TailHoldsUnderway'
           /\ Appending' /\ Target' = Target /\ Paths' = Paths
           /\ \A p \in Paths : Torn(p)' <=> Torn(p)
           /\ \A p \in Paths : files'[p].lines = files[p].lines
<1> USE DEF StoreTypeOK
<1>1. Target \in Paths /\ Appending' /\ Target' = Target /\ Paths' = Paths
  BY TargetIsPath DEF Write, Appending, Target, Paths
<1> DEFINE t == files[Target].tail
           x == Piece(run, next, part + 1)
<1>2. x \in Pieces /\ t \in Seq(Pieces) /\ part \in Nat
  BY <1>1, PieceTyped, PartsAssumption DEF Write
<1>3. /\ files'[Target].tail = Append(t, x)
      /\ \A p \in Paths : files'[p].lines = files[p].lines
      /\ \A p \in Paths \ {Target} : files'[p] = files[p]
  BY <1>1 DEF Write, Extend
<1>4. Len(t) >= part /\ (Len(t) = part => t = Text(run, next, part))
  BY PartsAssumption DEF TailHoldsUnderway, Write
<1>5. Len(Append(t, x)) = Len(t) + 1 /\ Len(t) \in Nat
  BY <1>2
<1>6. Append(Text(run, next, part), x) = Text(run, next, part + 1)
  BY <1>2, TextGrows
<1>7. part' = part + 1 /\ run' = run /\ next' = next
  BY DEF Write
<1>8. TailHoldsUnderway'
  <2>1. Len(files'[Target].tail) >= part'
    BY <1>2, <1>3, <1>4, <1>5, <1>7
  <2>2. Len(files'[Target].tail) = part' => files'[Target].tail = Text(run, next, part')
    BY <1>2, <1>3, <1>4, <1>5, <1>6, <1>7, SMTT(30)
  <2> QED
    BY <1>1, <1>7, <2>1, <2>2 DEF TailHoldsUnderway
<1>9. ASSUME NEW p \in Paths
      PROVE  Torn(p)' <=> Torn(p)
  <2>1. Len(Text(run, next, part)) = part /\ Len(Text(run, next, part')) = part + 1
    BY <1>2, <1>7 DEF Text
  <2>2. CASE p = Target
    <3>1. Underway(p) = Text(run, next, part) /\ Underway(p)' = Text(run, next, part')
      BY <1>1, <1>2, <1>7, <2>2, PartsAssumption DEF Underway, Write
    <3>2. files'[p].tail = Text(run, next, part') <=> files[p].tail = Text(run, next, part)
      <4>1. ASSUME Append(t, x) = Text(run, next, part')
            PROVE  t = Text(run, next, part)
        BY <1>2, <1>4, <1>5, <2>1, <4>1
      <4>2. ASSUME t = Text(run, next, part)
            PROVE  Append(t, x) = Text(run, next, part')
        BY <1>6, <1>7, <4>2
      <4> QED
        BY <1>3, <2>2, <4>1, <4>2
    <3> QED
      BY <3>1, <3>2 DEF Torn
  <2>3. CASE p # Target
    <3>1. Underway(p) = <<>> /\ Underway(p)' = <<>>
      BY <1>1, <2>3 DEF Underway
    <3> QED
      BY <1>3, <2>3, <3>1 DEF Torn
  <2> QED
    BY <2>2, <2>3
<1> QED
  BY <1>1, <1>3, <1>8, <1>9

\* A newline: what stood behind the last one becomes the entry appended, or,
\* if the file was torn, nothing that can be read back.
LEMMA NewlineEndsLine ==
    ASSUME StoreTypeOK, TailHoldsUnderway, Write, part = Parts
    PROVE  /\ Appending' /\ Target' = Target /\ Paths' = Paths /\ part' = Parts + 1
           /\ Target \in Paths /\ files[Target].tail \in Seq(Pieces)
           /\ files[Target].lines \in Seq(Seq(Pieces))
           /\ files'[Target].lines = Append(files[Target].lines, files[Target].tail)
           /\ \A p \in Paths \ {Target} : files'[p] = files[p] /\ (Torn(p)' <=> Torn(p))
           /\ ~Torn(Target)' /\ files'[Target].tail = <<>>
           /\ EntryOf(files[Target].tail) =
                 IF Torn(Target) THEN None ELSE [run |-> run, id |-> next]
<1> USE DEF StoreTypeOK
<1>1. Target \in Paths /\ Appending' /\ Target' = Target /\ Paths' = Paths
  BY TargetIsPath DEF Write, Appending, Target, Paths
<1> DEFINE t == files[Target].tail
<1>2. t \in Seq(Pieces) /\ files[Target].lines \in Seq(Seq(Pieces))
  BY <1>1
<1>3. /\ files'[Target].lines = Append(files[Target].lines, t)
      /\ files'[Target].tail = <<>>
      /\ \A p \in Paths \ {Target} : files'[p] = files[p]
      /\ part' = Parts + 1
  BY <1>1 DEF Write, EndLine
<1>4. Underway(Target) = Text(run, next, Parts)
  BY PartsAssumption DEF Underway, Write
<1>5. \A p \in Paths : Underway(p)' = <<>>
  BY <1>3, PartsAssumption DEF Underway
<1>6. \A p \in Paths \ {Target} : Underway(p) = <<>>
  BY DEF Underway
<1>7. EntryOf(t) = IF Torn(Target) THEN None ELSE [run |-> run, id |-> next]
  <2>1. Len(t) >= Parts /\ (Len(t) = Parts => t = Text(run, next, Parts))
    BY PartsAssumption DEF TailHoldsUnderway, Write
  <2>2. Torn(Target) <=> t # Text(run, next, Parts)
    BY <1>4 DEF Torn
  <2>3. Len(t) \in Nat /\ Parts \in Nat
    BY <1>2, PartsAssumption
  <2>4. Torn(Target) => Len(t) > Parts
    BY <2>1, <2>2, <2>3
  <2> QED
    BY <1>2, <2>2, <2>4, ReadBack
<1> QED
  BY <1>1, <1>2, <1>3, <1>5, <1>6, <1>7 DEF Torn

\* Lines are never taken back.
LEMMA RecordedStays ==
    ASSUME plan' = plan,
           \A p \in Paths : \A i \in DOMAIN files[p].lines :
               /\ i \in DOMAIN files'[p].lines
               /\ files'[p].lines[i] = files[p].lines[i],
           NEW e, PathOf(plan[e.id]) \in Paths, Recorded(e)
    PROVE  Recorded(e)'
BY DEF Recorded

LEMMA ReturnedHavePaths ==
    StoreTypeOK => \A e \in returned : PathOf(plan[e.id]) \in Paths
BY DEF StoreTypeOK, Paths

LEMMA PieceKeepsInv ==
    ASSUME StoreInv, Write, part < Parts
    PROVE  StoreInv'
<1> USE DEF StoreInv
<1>1. StoreTypeOK'
  BY TypingStep DEF Next
<1>2. /\ TailHoldsUnderway'
      /\ Appending' /\ Target' = Target /\ Paths' = Paths
      /\ \A p \in Paths : Torn(p)' <=> Torn(p)
      /\ \A p \in Paths : files'[p].lines = files[p].lines
  BY PieceIsUnderway
<1>3. part # Parts + 1 /\ part' # Parts + 1
  BY PartsAssumption DEF Write, StoreTypeOK
<1>4. EntriesArePast'
  BY <1>2, <1>3 DEF EntriesArePast, Write
<1>5. ReturnedArePast'
  BY DEF ReturnedArePast, Write
<1>6. TornIsFresh'
  BY <1>2 DEF TornIsFresh, FreshRerun, Write
<1>7. EndedIsRecorded'
  BY <1>3 DEF EndedIsRecorded
<1>8. OnlyFirstOfRerunIsLost'
  BY <1>2, ReturnedHavePaths, RecordedStays DEF OnlyFirstOfRerunIsLost, Write
<1> QED
  BY <1>1, <1>2, <1>4, <1>5, <1>6, <1>7, <1>8

LEMMA NewlineKeepsInv ==
    ASSUME StoreInv, Write, part = Parts
    PROVE  StoreInv'
<1> USE DEF StoreInv
<1>1. StoreTypeOK'
  BY TypingStep DEF Next
<1> DEFINE t == files[Target].tail
<1>2. /\ Appending' /\ Target' = Target /\ Paths' = Paths /\ part' = Parts + 1
      /\ Target \in Paths /\ t \in Seq(Pieces) /\ files[Target].lines \in Seq(Seq(Pieces))
      /\ files'[Target].lines = Append(files[Target].lines, t)
      /\ \A p \in Paths \ {Target} : files'[p] = files[p] /\ (Torn(p)' <=> Torn(p))
      /\ ~Torn(Target)' /\ files'[Target].tail = <<>>
      /\ EntryOf(t) = IF Torn(Target) THEN None ELSE [run |-> run, id |-> next]
  BY NewlineEndsLine
<1> DEFINE n == Len(files[Target].lines)
<1>3. /\ DOMAIN files'[Target].lines = 1 .. n + 1
      /\ DOMAIN files[Target].lines = 1 .. n
      /\ files'[Target].lines[n + 1] = t
      /\ \A i \in 1 .. n : files'[Target].lines[i] = files[Target].lines[i]
      /\ n \in Nat
  BY <1>2
<1> HIDE DEF n, t
<1>4. \A p \in Paths : \A i \in DOMAIN files[p].lines :
          /\ i \in DOMAIN files'[p].lines
          /\ files'[p].lines[i] = files[p].lines[i]
  <2> SUFFICES ASSUME NEW p \in Paths, NEW i \in DOMAIN files[p].lines
               PROVE  /\ i \in DOMAIN files'[p].lines
                      /\ files'[p].lines[i] = files[p].lines[i]
    OBVIOUS
  <2>1. CASE p = Target
    BY <1>3, <2>1
  <2>2. CASE p # Target
    BY <1>2, <2>2
  <2> QED
    BY <2>1, <2>2
<1>5. \A p \in Paths : \A i \in DOMAIN files'[p].lines :
          \/ p = Target /\ files'[p].lines[i] = t
          \/ i \in DOMAIN files[p].lines /\ files'[p].lines[i] = files[p].lines[i]
  <2> SUFFICES ASSUME NEW p \in Paths, NEW i \in DOMAIN files'[p].lines
               PROVE  \/ p = Target /\ files'[p].lines[i] = t
                      \/ i \in DOMAIN files[p].lines /\ files'[p].lines[i] = files[p].lines[i]
    OBVIOUS
  <2>1. CASE p = Target
    <3>1. i = n + 1 \/ i \in 1 .. n
      BY <1>3, <2>1
    <3> QED
      BY <1>3, <2>1, <3>1
  <2>2. CASE p # Target
    BY <1>2, <2>2
  <2> QED
    BY <2>1, <2>2
<1>6. UNCHANGED <<plan, run, up, next, latest, returned>>
  BY DEF Write
<1>7. TailHoldsUnderway'
  BY <1>2, PartsAssumption DEF TailHoldsUnderway
<1>8. EntriesArePast'
  <2>1. ASSUME NEW p \in Paths, NEW i \in DOMAIN files'[p].lines
        PROVE  LET e == EntryOf(files'[p].lines[i])
               IN  e # None => \/ Log!Precedes(e, [run |-> run, id |-> next])
                               \/ e = [run |-> run, id |-> next]
    <3>1. CASE p = Target /\ files'[p].lines[i] = t
      BY <1>2, <3>1
    <3>2. CASE i \in DOMAIN files[p].lines /\ files'[p].lines[i] = files[p].lines[i]
      BY <3>2 DEF EntriesArePast
    <3> QED
      BY <1>5, <3>1, <3>2
  <2> QED
    BY <1>2, <1>6, <2>1 DEF EntriesArePast
<1>9. ReturnedArePast'
  BY <1>6 DEF ReturnedArePast
<1>10. TornIsFresh'
  BY <1>2, <1>6 DEF TornIsFresh, FreshRerun
<1>11. EndedIsRecorded'
  <2>1. CASE Torn(Target)
    BY <1>2, <1>6, <2>1 DEF EndedIsRecorded, TornIsFresh, FreshRerun, Write, Appending
  <2>2. CASE ~Torn(Target)
    <3>1. EntryOf(files'[Target].lines[n + 1]) = [run |-> run, id |-> next]
      BY <1>2, <1>3, <2>2
    <3>2. Recorded([run |-> run, id |-> next])'
      BY <1>2, <1>3, <1>6, <3>1 DEF Recorded, Target
    <3> QED
      BY <1>2, <1>6, <3>2 DEF EndedIsRecorded
  <2> QED
    BY <2>1, <2>2
<1>12. OnlyFirstOfRerunIsLost'
  BY <1>6, <1>4, ReturnedHavePaths, RecordedStays DEF OnlyFirstOfRerunIsLost
<1> QED
  BY <1>1, <1>7, <1>8, <1>9, <1>10, <1>11, <1>12

\* An entry that was read back has a run and a number.
LEMMA EntryTyped ==
    ASSUME NEW line \in Seq(Pieces), EntryOf(line) # None
    PROVE  EntryOf(line).run \in Nat /\ EntryOf(line).id \in Nat
<1>1. line # <<>> /\ EntryOf(line) = [run |-> line[1].run, id |-> line[1].id]
  BY DEF EntryOf
<1>2. line[1] \in Pieces
  BY <1>1
<1>3. UNION {DOMAIN pl : pl \in Plans} \subseteq Nat
  BY PlansAssumption
<1> QED
  BY <1>1, <1>2, <1>3, RunsAssumption DEF Pieces

LEMMA EntriesTyped ==
    ASSUME StoreTypeOK, NEW p \in Paths, NEW i \in DOMAIN files[p].lines,
           EntryOf(files[p].lines[i]) # None
    PROVE  EntryOf(files[p].lines[i]).run \in Nat /\ EntryOf(files[p].lines[i]).id \in Nat
<1>1. files[p].lines[i] \in Seq(Pieces)
  BY DEF StoreTypeOK
<1> QED
  BY <1>1, EntryTyped

LEMMA ReturnedTyped ==
    ASSUME StoreTypeOK
    PROVE  /\ \A d \in returned : d = [run |-> d.run, id |-> d.id] /\ d.run \in Nat /\ d.id \in Nat
           /\ run \in Nat /\ next \in Nat
BY PlansAssumption, RunsAssumption DEF StoreTypeOK

LEMMA ReturnKeepsInv ==
    ASSUME StoreInv, Return
    PROVE  StoreInv'
<1> USE DEF StoreInv
<1>1. StoreTypeOK'
  BY TypingStep DEF Next
<1>2. /\ Target \in Paths /\ Paths' = Paths
      /\ UNCHANGED <<plan, run, up, files>>
      /\ part = Parts + 1 /\ part' = 0 /\ next' = next + 1
      /\ returned' = returned \cup {[run |-> run, id |-> next]}
      /\ up /\ Appending
      /\ run \in Nat /\ next \in Nat
  BY TargetIsPath, RunsAssumption DEF Return, Appending, Paths, StoreTypeOK
<1> DEFINE mine == [run |-> run, id |-> next]
<1>3. \A p \in Paths : Torn(p)' <=> Torn(p)
  <2>1. \A p \in Paths : Underway(p) = <<>> /\ Underway(p)' = <<>>
    BY <1>2, PartsAssumption DEF Underway, Text
  <2> QED
    BY <1>2, <2>1 DEF Torn
<1>4. TailHoldsUnderway'
  <2>1. ASSUME Appending'
        PROVE  Target' \in Paths /\ files[Target'].tail \in Seq(Pieces)
    <3>1. next' \in DOMAIN plan
      BY <1>1, <1>2, <2>1, PlansAssumption DEF StoreTypeOK, Appending
    <3> QED
      BY <1>2, <3>1 DEF StoreTypeOK, Target, Paths
  <2>2. Text(run', next', 0) = <<>>
    BY DEF Text
  <2>3. ASSUME Appending'
        PROVE  /\ Len(files[Target'].tail) >= 0
               /\ Len(files[Target'].tail) = 0 => files[Target'].tail = <<>>
    BY <2>1, <2>3
  <2> QED
    BY <1>2, <2>2, <2>3 DEF TailHoldsUnderway
<1>5. EntriesArePast'
  <2>1. ASSUME NEW p \in Paths, NEW i \in DOMAIN files[p].lines,
               EntryOf(files[p].lines[i]) # None
        PROVE  Log!Precedes(EntryOf(files[p].lines[i]), [run |-> run, id |-> next + 1])
    BY <1>2, <2>1, EntriesTyped DEF EntriesArePast, Log!Precedes
  <2> QED
    BY <1>2, <2>1 DEF EntriesArePast
<1>6. ReturnedArePast'
  BY <1>2, ReturnedTyped DEF ReturnedArePast
<1>7. TornIsFresh'
  <2>1. ~Torn(Target)
    BY <1>2, PartsAssumption DEF EndedIsRecorded, Torn, Underway
  <2> QED
    BY <1>2, <1>3, <2>1 DEF TornIsFresh, FreshRerun, Target
<1>8. EndedIsRecorded'
  BY <1>2, PartsAssumption DEF EndedIsRecorded
<1>9. OnlyFirstOfRerunIsLost'
  <2> SUFFICES ASSUME NEW e \in returned', ~Recorded(e)
               PROVE  /\ e.run > 1
                      /\ \A d \in returned' :
                            d.run = e.run /\ PathOf(plan[d.id]) = PathOf(plan[e.id])
                                => d.id >= e.id
    BY <1>2 DEF OnlyFirstOfRerunIsLost, Recorded
  <2>1. CASE e = mine
    BY <1>2, <2>1, ReturnedTyped DEF EndedIsRecorded, FreshRerun, Target
  <2>2. CASE e \in returned
    BY <1>2, <2>2, ReturnedTyped DEF OnlyFirstOfRerunIsLost, ReturnedArePast
  <2> QED
    BY <1>2, <2>1, <2>2
<1> QED
  BY <1>1, <1>4, <1>5, <1>6, <1>7, <1>8, <1>9

LEMMA CrashKeepsInv ==
    ASSUME StoreInv, Crash
    PROVE  StoreInv'
<1> USE DEF StoreInv
<1>1. StoreTypeOK'
  BY TypingStep DEF Next
<1>2. Paths' = Paths /\ UNCHANGED <<plan, run, next, part, files, returned>> /\ ~up'
  BY DEF Crash, Paths
<1>3. TailHoldsUnderway' /\ TornIsFresh' /\ EndedIsRecorded'
  BY <1>2 DEF TailHoldsUnderway, TornIsFresh, EndedIsRecorded, Appending
<1>4. EntriesArePast'
  BY <1>2 DEF EntriesArePast
<1>5. ReturnedArePast' /\ OnlyFirstOfRerunIsLost'
  BY <1>2 DEF ReturnedArePast, OnlyFirstOfRerunIsLost, Recorded
<1> QED
  BY <1>1, <1>3, <1>4, <1>5

LEMMA BootKeepsInv ==
    ASSUME StoreInv, Boot
    PROVE  StoreInv'
<1> USE DEF StoreInv
<1>1. StoreTypeOK'
  BY TypingStep DEF Next
<1>2. /\ Paths' = Paths /\ UNCHANGED <<plan, files, returned>>
      /\ run' = run + 1 /\ next' = 1 /\ part' = 0
      /\ run \in Nat /\ run >= 1
  BY RunsAssumption DEF Boot, Paths, StoreTypeOK
<1>3. TailHoldsUnderway'
  <2>1. ASSUME Appending'
        PROVE  Target' \in Paths /\ files[Target'].tail \in Seq(Pieces)
    <3>1. next' \in DOMAIN plan
      BY <1>1, <1>2, <2>1, PlansAssumption DEF StoreTypeOK, Appending
    <3> QED
      BY <1>2, <3>1 DEF StoreTypeOK, Target, Paths
  <2>2. Text(run', next', 0) = <<>>
    BY DEF Text
  <2>3. ASSUME Appending'
        PROVE  /\ Len(files[Target'].tail) >= 0
               /\ Len(files[Target'].tail) = 0 => files[Target'].tail = <<>>
    BY <2>1, <2>3
  <2> QED
    BY <1>2, <2>2, <2>3 DEF TailHoldsUnderway
<1>4. EntriesArePast'
  <2>1. ASSUME NEW p \in Paths, NEW i \in DOMAIN files[p].lines,
               EntryOf(files[p].lines[i]) # None
        PROVE  Log!Precedes(EntryOf(files[p].lines[i]), [run |-> run + 1, id |-> 1])
    BY <1>2, <2>1, EntriesTyped DEF EntriesArePast, Log!Precedes
  <2> QED
    BY <1>2, <2>1 DEF EntriesArePast
<1>5. ReturnedArePast'
  BY <1>2, ReturnedTyped DEF ReturnedArePast
<1>6. TornIsFresh'
  BY <1>2, ReturnedTyped DEF TornIsFresh, FreshRerun, ReturnedArePast
<1>7. EndedIsRecorded'
  BY <1>2, PartsAssumption DEF EndedIsRecorded
<1>8. OnlyFirstOfRerunIsLost'
  BY <1>2 DEF OnlyFirstOfRerunIsLost, Recorded
<1> QED
  BY <1>1, <1>3, <1>4, <1>5, <1>6, <1>7, <1>8
------------------------------------------------------------------------------
LEMMA InvInit == Init => StoreInv
<1> SUFFICES ASSUME Init PROVE StoreInv
  OBVIOUS
<1>1. StoreTypeOK
  BY TypingInit
<1>2. part = 0 /\ returned = {} /\ \A p \in Paths : files[p] = [lines |-> <<>>, tail |-> <<>>]
  BY DEF Init
<1>3. Text(run, next, 0) = <<>>
  BY DEF Text
<1>4. \A p \in Paths : ~Torn(p)
  BY <1>2, <1>3 DEF Torn, Underway
<1>5. TailHoldsUnderway
  <2>1. Appending => files[Target].tail = <<>>
    BY <1>1, <1>2, TargetIsPath
  <2> QED
    BY <1>2, <1>3, <2>1 DEF TailHoldsUnderway
<1>6. EntriesArePast
  BY <1>2 DEF EntriesArePast
<1>7. ReturnedArePast /\ TornIsFresh /\ EndedIsRecorded /\ OnlyFirstOfRerunIsLost
  BY <1>2, <1>4, PartsAssumption
     DEF ReturnedArePast, TornIsFresh, EndedIsRecorded, OnlyFirstOfRerunIsLost
<1> QED
  BY <1>1, <1>5, <1>6, <1>7 DEF StoreInv

LEMMA InvStutter == StoreInv /\ UNCHANGED vars => StoreInv'
<1> SUFFICES ASSUME StoreInv, UNCHANGED vars PROVE StoreInv'
  OBVIOUS
<1>1. \A p : Torn(p)' <=> Torn(p)
  BY DEF vars, Torn, Underway, Appending, Target
<1>2. StoreTypeOK' /\ Paths' = Paths
  BY TypingStep DEF StoreInv, Paths
<1>3. TailHoldsUnderway' /\ EntriesArePast'
  BY <1>2 DEF StoreInv, vars, TailHoldsUnderway, EntriesArePast, Appending, Target
<1>4. ReturnedArePast' /\ OnlyFirstOfRerunIsLost'
  BY <1>2 DEF StoreInv, vars, ReturnedArePast, OnlyFirstOfRerunIsLost, Recorded
<1>5. TornIsFresh'
  BY <1>1, <1>2 DEF StoreInv, vars, TornIsFresh, FreshRerun
<1>6. EndedIsRecorded'
  BY <1>2 DEF StoreInv, vars, EndedIsRecorded, Recorded, FreshRerun, Appending, Target
<1> QED
  BY <1>2, <1>3, <1>4, <1>5, <1>6 DEF StoreInv

\* The stores' types, and the strengthened invariant, hold of every behaviour.
THEOREM StoreInvHolds == Spec => []StoreInv
<1>1. StoreInv /\ [Next]_vars => StoreInv'
  <2> SUFFICES ASSUME StoreInv, [Next]_vars PROVE StoreInv'
    OBVIOUS
  <2>1. Write => part < Parts \/ part = Parts
    BY PartsAssumption DEF StoreInv, StoreTypeOK, Write
  <2> QED
    BY <2>1, PieceKeepsInv, NewlineKeepsInv, ReturnKeepsInv, CrashKeepsInv, BootKeepsInv,
       InvStutter DEF Next
<1> QED
  BY InvInit, <1>1, PTL DEF Spec

\* The types hold in every state of the stores.
THEOREM StoreTyping == Spec => []StoreTypeOK
<1>1. StoreInv => StoreTypeOK
  BY DEF StoreInv
<1> QED
  BY <1>1, StoreInvHolds, PTL

\* However often and wherever runs are cut short, an append that returned is
\* lost only if it was its run's first to reach a file an earlier run tore.
THEOREM CrashesSpareReturned == Spec => []OnlyFirstOfRerunIsLost
<1>1. StoreInv => OnlyFirstOfRerunIsLost
  BY DEF StoreInv
<1> QED
  BY <1>1, StoreInvHolds, PTL
------------------------------------------------------------------------------
\* Every step of the stores is, seen as logs, an entry added, an append that
\* returns, a process that stops or starts, or none.
LEMMA LogInitially == Init => Log!LogInit
<1> SUFFICES ASSUME Init PROVE Log!LogInit
  OBVIOUS
<1>1. \A p \in Paths : files[p] = [lines |-> <<>>, tail |-> <<>>]
  BY DEF Init
<1>2. \A p \in Paths : ~Torn(p)
  <2>1. Text(run, next, 0) = <<>>
    BY DEF Text
  <2> QED
    BY <1>1, <2>1 DEF Torn, Underway, Init
<1>3. \A p \in Paths : Torn(p) = FALSE
  BY <1>2, Zenon DEF Torn
<1>4. \A p \in Paths : Readable(p) = <<>>
  BY <1>1 DEF Readable
<1>5. Tears = [p \in Paths |-> FALSE]
  BY <1>3, Zenon DEF Tears
<1>6. Logs = [p \in Paths |-> <<>>]
  BY <1>4, Zenon DEF Logs
<1>7. up = TRUE /\ Pending = {} /\ returned = {}
  BY PartsAssumption DEF Init, Pending
<1> QED
  BY <1>5, <1>6, <1>7, Zenon DEF Log!LogInit

\* Lines and tears unchanged: nothing happens to the logs.
LEMMA LogsStay ==
    ASSUME \A p \in Paths : files'[p].lines = files[p].lines,
           \A p \in Paths : Torn(p)' <=> Torn(p),
           Paths' = Paths
    PROVE  UNCHANGED <<Logs, Tears>>
<1>1. \A p \in Paths : Readable(p)' = Readable(p)
  BY DEF Readable
<1>2. \A p \in Paths : Torn(p)' = Torn(p)
  BY DEF Torn
<1> QED
  BY <1>1, <1>2 DEF Logs, Tears

\* The newline adds the entry to its file, or what a tear spoiled of it.
LEMMA NewlineAdds ==
    ASSUME StoreInv, Write, part = Parts
    PROVE  Log!Add(Target, [run |-> run, id |-> next])
<1> USE DEF StoreInv
<1> DEFINE t == files[Target].tail
           e == [run |-> run, id |-> next]
           log == Logs
           torn == Tears
<1>1. /\ Target' = Target /\ Paths' = Paths
      /\ Target \in Paths /\ t \in Seq(Pieces) /\ files[Target].lines \in Seq(Seq(Pieces))
      /\ files'[Target].lines = Append(files[Target].lines, t)
      /\ \A p \in Paths \ {Target} : files'[p] = files[p] /\ (Torn(p)' <=> Torn(p))
      /\ ~Torn(Target)'
      /\ EntryOf(t) = IF Torn(Target) THEN None ELSE e
  BY NewlineEndsLine
<1>2. \A i \in DOMAIN log[Target] : log[Target][i] # None => Log!Precedes(log[Target][i], e)
  BY <1>1, PartsAssumption DEF EntriesArePast, Readable, StoreTypeOK, Logs
<1>3. Readable(Target)' = Append(Readable(Target), EntryOf(t))
  BY <1>1, ReadAppended DEF Readable
<1>4. \A p \in Paths \ {Target} : Readable(p)' = Readable(p)
  BY <1>1 DEF Readable
<1>5. log' = [log EXCEPT ![Target] = Append(@, IF torn[Target] THEN None ELSE e)]
  <2>1. log[Target] = Readable(Target) /\ torn[Target] = Torn(Target)
    BY <1>1 DEF Logs, Tears
  <2>2. log' = [p \in Paths |-> Readable(p)']
    BY <1>1 DEF Logs
  <2>3. [log EXCEPT ![Target] = Append(@, IF torn[Target] THEN None ELSE e)]
          = [p \in Paths |-> IF p = Target
                             THEN Append(log[p], IF torn[Target] THEN None ELSE e)
                             ELSE log[p]]
    BY DEF Logs
  <2>4. \A p \in Paths :
            Readable(p)' = IF p = Target
                           THEN Append(log[p], IF torn[Target] THEN None ELSE e)
                           ELSE log[p]
    BY <1>1, <1>3, <1>4, <2>1 DEF Logs
  <2> HIDE DEF log, torn, e
  <2> QED
    BY <2>2, <2>3, <2>4, Zenon
<1>6. torn' = [torn EXCEPT ![Target] = FALSE]
  <2>1. torn' = [p \in Paths |-> Torn(p)']
    BY <1>1 DEF Tears
  <2>2. [torn EXCEPT ![Target] = FALSE]
          = [p \in Paths |-> IF p = Target THEN FALSE ELSE Torn(p)]
    BY DEF Tears
  <2>3. \A p \in Paths : Torn(p)' = IF p = Target THEN FALSE ELSE Torn(p)
    BY <1>1, Zenon DEF Torn
  <2> HIDE DEF torn
  <2> QED
    BY <2>1, <2>2, <2>3, Zenon
<1>7. up /\ Pending = {} /\ Pending' = {e} /\ UNCHANGED <<up, returned>>
  BY PartsAssumption DEF Write, Appending, Pending
<1> QED
  BY <1>2, <1>5, <1>6, <1>7 DEF Log!Add

\* A process that stops tears the file it was writing to, if it was.
LEMMA CrashStops ==
    ASSUME StoreInv, Crash
    PROVE  Log!Stop
<1>1. /\ Paths' = Paths /\ UNCHANGED <<plan, run, next, part, files, returned>>
      /\ up /\ up' = FALSE /\ Pending' = {}
  BY DEF Crash, Paths, Pending, Appending
<1>2. \A p \in Paths : Readable(p)' = Readable(p)
  BY <1>1 DEF Readable
<1>3. \A p \in Paths : Underway(p)' = <<>>
  BY <1>1 DEF Underway, Appending
<1>4. CASE Appending /\ part =< Parts /\ part > 0
  <2>1. Target \in Paths
    BY <1>4, TargetIsPath DEF StoreInv
  <2>2. files[Target].tail # <<>>
    <3>1. Len(files[Target].tail) > 0
      BY <1>4, <2>1, PartsAssumption DEF StoreInv, StoreTypeOK, TailHoldsUnderway
    <3> QED
      BY <3>1
  <2>3. \A p \in Paths : Torn(p)' = IF p = Target THEN TRUE ELSE Torn(p)
    <3>1. \A p \in Paths \ {Target} : Underway(p) = <<>>
      BY DEF Underway
    <3>2. \A p \in Paths : p = Target => Torn(p)'
      BY <1>1, <1>3, <2>1, <2>2 DEF Torn
    <3>3. \A p \in Paths \ {Target} : Torn(p)' <=> Torn(p)
      BY <1>1, <1>3, <3>1 DEF Torn
    <3>4. \A p \in Paths : Torn(p)' \in BOOLEAN /\ Torn(p) \in BOOLEAN
      BY DEF Torn
    <3> QED
      BY <3>2, <3>3, <3>4, Zenon
  <2>4. Tears' = [Tears EXCEPT ![Target] = TRUE]
    <3>1. Tears' = [p \in Paths |-> Torn(p)']
      BY <1>1, Zenon DEF Tears
    <3>2. [Tears EXCEPT ![Target] = TRUE]
            = [p \in Paths |-> IF p = Target THEN TRUE ELSE Torn(p)]
      BY DEF Tears
    <3> QED
      BY <2>3, <3>1, <3>2, Zenon
  <2>5. Logs' = Logs
    BY <1>1, <1>2, Zenon DEF Logs
  <2>6. Pending = {}
    BY <1>4, PartsAssumption DEF Pending, StoreInv, StoreTypeOK
  <2> QED
    BY <1>1, <2>1, <2>4, <2>5, <2>6, Zenon DEF Log!Stop
<1>5. CASE ~(Appending /\ part =< Parts /\ part > 0)
  <2>1. \A p \in Paths : Underway(p) = <<>>
    BY <1>5, PartsAssumption DEF Underway, Text, StoreInv, StoreTypeOK
  <2>2. \A p \in Paths : Torn(p)' <=> Torn(p)
    BY <1>1, <1>3, <2>1 DEF Torn
  <2>3. UNCHANGED <<Logs, Tears>>
    BY <1>1, <2>2, LogsStay
  <2> QED
    BY <1>1, <2>3, Zenon DEF Log!Stop
<1> QED
  BY <1>4, <1>5

\* Returning and starting again happen outside the files.
LEMMA ReturnAndBootStayOutside ==
    ASSUME StoreInv, Return \/ Boot
    PROVE  UNCHANGED <<Logs, Tears>> /\ Pending' = {} /\ (Boot => Pending = {})
<1>1. Paths' = Paths /\ files' = files /\ part' = 0
  BY DEF Return, Boot, Paths
<1>2. \A p \in Paths : Underway(p)' = <<>>
  BY <1>1 DEF Underway, Text
<1>3. Boot => ~Appending
  BY PlansAssumption DEF Boot, Appending, StoreInv, StoreTypeOK
<1>4. \A p \in Paths : Underway(p) = <<>>
  <2>1. CASE Return
    BY <2>1, PartsAssumption DEF Return, Underway
  <2>2. CASE Boot
    BY <1>3, <2>2 DEF Underway
  <2> QED
    BY <2>1, <2>2
<1>5. \A p \in Paths : Torn(p)' <=> Torn(p)
  BY <1>1, <1>2, <1>4 DEF Torn
<1>6. UNCHANGED <<Logs, Tears>>
  BY <1>1, <1>5, LogsStay
<1> QED
  BY <1>1, <1>3, <1>6, PartsAssumption DEF Pending

LEMMA LogSteps == StoreInv /\ [Next]_vars => [Log!LogNext]_(Log!logVars)
<1> SUFFICES ASSUME StoreInv, [Next]_vars PROVE [Log!LogNext]_(Log!logVars)
  OBVIOUS
<1>1. CASE Write /\ part = Parts
  <2>1. Target \in Paths /\ [run |-> run, id |-> next] \in Entries
    BY <1>1, TargetIsPath DEF StoreInv, StoreTypeOK, Entries, Write
  <2> QED
    BY <1>1, <2>1, NewlineAdds, Zenon DEF Log!LogNext
<1>2. CASE Write /\ part # Parts
  <2>1. part < Parts /\ part \in Nat
    BY <1>2, PartsAssumption DEF StoreInv, StoreTypeOK, Write
  <2>2. UNCHANGED <<Logs, Tears>>
    BY <1>2, <2>1, PieceIsUnderway, LogsStay DEF StoreInv
  <2>3. UNCHANGED <<up, Pending, returned>>
    BY <1>2, <2>1, PartsAssumption DEF Write, Pending
  <2> QED
    BY <2>2, <2>3 DEF Log!logVars
<1>3. CASE Crash
  BY <1>3, CrashStops, Zenon DEF Log!LogNext
<1>4. CASE Return
  <2>1. up /\ Pending = {[run |-> run, id |-> next]} /\ up' = up
        /\ returned' = returned \cup {[run |-> run, id |-> next]}
    BY <1>4 DEF Return, Appending, Pending
  <2>2. Log!Return
    BY <1>4, <2>1, ReturnAndBootStayOutside DEF Log!Return
  <2> QED
    BY <2>2 DEF Log!LogNext
<1>5. CASE Boot
  <2>1. UNCHANGED <<Logs, Tears, Pending, returned>> /\ up' = TRUE /\ up \in BOOLEAN
    BY <1>5, ReturnAndBootStayOutside DEF Boot, StoreInv, StoreTypeOK
  <2>2. CASE up
    BY <2>1, <2>2 DEF Log!logVars
  <2>3. CASE ~up
    BY <2>1, <2>3 DEF Log!LogNext, Log!Start
  <2> QED
    BY <2>2, <2>3
<1>6. CASE UNCHANGED vars
  <2>1. Paths' = Paths /\ files' = files
    BY <1>6 DEF Paths, vars
  <2>2. \A p \in Paths : Torn(p)' <=> Torn(p)
    BY <1>6 DEF vars, Torn, Underway, Appending, Target
  <2>3. UNCHANGED <<Logs, Tears>>
    BY <2>1, <2>2, LogsStay
  <2>4. UNCHANGED <<up, Pending, returned>>
    BY <1>6 DEF vars, Pending, Appending
  <2> QED
    BY <2>3, <2>4 DEF Log!logVars
<1> QED
  BY <1>1, <1>2, <1>3, <1>4, <1>5, <1>6 DEF Next

\* The file stores implement append-only logs: an append adds one entry behind
\* all earlier ones before it returns, and a process that stops in the middle
\* of one spoils at most the entry added next to that log.
THEOREM StoresAreAppendLogs == Spec => ImplementsAppendLog
BY LogInitially, LogSteps, StoreInvHolds, PTL DEF Spec, ImplementsAppendLog, Log!LogSpec
------------------------------------------------------------------------------
LEMMA LatestStep ==
    ASSUME StoreInv, LatestIsLastOfThisRun, [Next]_vars
    PROVE  LatestIsLastOfThisRun'
<1> USE DEF StoreInv
<1> DEFINE Mine(m) == {e.id : e \in {d \in returned :
                          d.run = run /\ plan[d.id].kind = "snapshot" /\ plan[d.id].mint = m}}
<1>1. CASE Return
  <2>1. /\ UNCHANGED <<plan, run>> /\ next \in DOMAIN plan /\ next \in Nat
        /\ returned' = returned \cup {[run |-> run, id |-> next]}
        /\ latest' = Remember(latest, plan[next], next)
        /\ latest \in [Mints -> DOMAIN plan \cup {None}]
    BY <1>1, TargetIsPath, ReturnedTyped DEF Return, StoreTypeOK
  <2>2. ASSUME NEW m \in Mints, plan[next].kind = "snapshot", plan[next].mint = m
        PROVE  /\ Mine(m)' = Mine(m) \cup {next}
               /\ latest'[m] = next
               /\ \A i \in Mine(m) : i =< next
    <3>1. \A i \in Mine(m) : i < next
      BY <2>1, ReturnedTyped DEF ReturnedArePast
    <3>2. \A i \in Mine(m) : i \in Nat
      BY ReturnedTyped
    <3>3. Mine(m)' = Mine(m) \cup {next}
      <4> DEFINE new == [run |-> run, id |-> next]
                 Of(d) == d.run = run /\ plan[d.id].kind = "snapshot" /\ plan[d.id].mint = m
      <4>1. Of(new) /\ new.id = next
        BY <2>2
      <4>2. {d \in returned : Of(d)}' = {d \in returned : Of(d)} \cup {new}
        BY <2>1, <4>1
      <4> QED
        BY <4>1, <4>2, ZenonT(30)
    <3>4. latest'[m] = next
      BY <2>1, <2>2 DEF Remember
    <3> QED
      BY <2>1, <3>1, <3>2, <3>3, <3>4
  <2>3. ASSUME NEW m \in Mints, ~(plan[next].kind = "snapshot" /\ plan[next].mint = m)
        PROVE  Mine(m)' = Mine(m) /\ latest'[m] = latest[m]
    BY <2>1, <2>3 DEF Remember
  <2>4. ASSUME NEW m \in Mints
        PROVE  IF Mine(m)' = {} THEN latest'[m] = None
               ELSE latest'[m] \in Mine(m)' /\ \A i \in Mine(m)' : i =< latest'[m]
    <3>1. CASE plan[next].kind = "snapshot" /\ plan[next].mint = m
      BY <2>1, <2>2, <3>1
    <3>2. CASE ~(plan[next].kind = "snapshot" /\ plan[next].mint = m)
      BY <2>3, <3>2 DEF LatestIsLastOfThisRun
    <3> QED
      BY <3>1, <3>2
  <2> QED
    BY <2>4 DEF LatestIsLastOfThisRun
<1>2. CASE Boot
  <2>1. /\ UNCHANGED <<plan, returned>> /\ run' = run + 1
        /\ \A m \in Mints : latest'[m] = None
    BY <1>2 DEF Boot, NoLatest
  <2>2. \A d \in returned : d.run # run'
    BY <2>1, ReturnedTyped DEF ReturnedArePast
  <2> QED
    BY <2>1, <2>2 DEF LatestIsLastOfThisRun
<1>3. CASE Write \/ Crash \/ UNCHANGED vars
  <2>1. UNCHANGED <<plan, run, latest, returned>>
    BY <1>3 DEF Write, Crash, vars
  <2> QED
    BY <2>1 DEF LatestIsLastOfThisRun
<1> QED
  BY <1>1, <1>2, <1>3 DEF Next

\* Whatever order snapshots were captured in, and however often the command
\* was run, latest is the last append of the token in this run.
THEOREM LatestIsLastAppended == Spec => []LatestIsLastOfThisRun
<1>1. Init => LatestIsLastOfThisRun
  BY DEF Init, NoLatest, LatestIsLastOfThisRun
<1>2. StoreInv /\ LatestIsLastOfThisRun /\ [Next]_vars => LatestIsLastOfThisRun'
  BY LatestStep
<1> QED
  BY <1>1, <1>2, StoreInvHolds, PTL DEF Spec
------------------------------------------------------------------------------
\* The inductive invariant: a line is in the file its item belongs to, and
\* behind those of what was appended before it.
FilesInOrder ==
    \A p \in Paths :
        /\ \A i \in DOMAIN files[p].lines :
              LET e == EntryOf(files[p].lines[i])
              IN  e # None => e.id \in DOMAIN plan /\ PathOf(plan[e.id]) = p
        /\ \A i, j \in DOMAIN files[p].lines :
              LET d == EntryOf(files[p].lines[i])
                  e == EntryOf(files[p].lines[j])
              IN  i < j /\ d # None /\ e # None => Log!Precedes(d, e)

\* A later time is not of an earlier day.
LEMMA DaysInOrder ==
    ASSUME NEW s \in Int, NEW t \in Int, s =< t
    PROVE  UtcDate(s) \in Int /\ UtcDate(t) \in Int /\ UtcDate(s) =< UtcDate(t)
<1>1. \A u \in Int : /\ UtcDate(u) \in Int
                     /\ DayMs * UtcDate(u) =< u /\ u < DayMs * UtcDate(u) + DayMs
  <2> SUFFICES ASSUME NEW u \in Int
               PROVE  /\ u \div DayMs \in Int
                      /\ DayMs * (u \div DayMs) =< u /\ u < DayMs * (u \div DayMs) + DayMs
    BY DEF UtcDate
  <2>1. DayMs \in Int /\ DayMs > 0
    BY DayAssumption
  <2> QED
    BY <2>1
<1>2. PICK a : a = UtcDate(s)
  OBVIOUS
<1>3. PICK b : b = UtcDate(t)
  OBVIOUS
<1>4. a \in Int /\ b \in Int /\ s >= DayMs * a /\ t < DayMs * b + DayMs
  BY <1>1, <1>2, <1>3, DayAssumption
<1>5. ASSUME a > b
      PROVE  FALSE
  <2>1. DayMs * a >= DayMs * (b + 1)
    BY <1>4, <1>5, DayAssumption
  <2>2. DayMs * (b + 1) = DayMs * b + DayMs
    BY <1>4, DayAssumption
  <2> QED
    BY <1>4, <2>1, <2>2, DayAssumption
<1> QED
  BY <1>2, <1>3, <1>4, <1>5

\* Records read back of one run are where their order puts them.
LEMMA OrderIsRead == StoreTypeOK /\ FilesInOrder => HistoryReadsInOrder
<1> SUFFICES ASSUME StoreTypeOK, FilesInOrder,
                    NEW p \in Paths, p[1] = "provenance",
                    NEW q \in Paths, q[1] = "provenance",
                    NEW i \in DOMAIN files[p].lines, NEW j \in DOMAIN files[q].lines,
                    EntryOf(files[p].lines[i]) # None, EntryOf(files[q].lines[j]) # None,
                    EntryOf(files[p].lines[i]).run = EntryOf(files[q].lines[j]).run
             PROVE  Before(p[2], i, q[2], j)
                       <=> EntryOf(files[p].lines[i]).id < EntryOf(files[q].lines[j]).id
  BY DEF HistoryReadsInOrder, Readable
<1>1. PICK d : d = EntryOf(files[p].lines[i])
  OBVIOUS
<1>2. PICK e : e = EntryOf(files[q].lines[j])
  OBVIOUS
<1>3. d.id \in DOMAIN plan /\ PathOf(plan[d.id]) = p
  BY <1>1 DEF FilesInOrder
<1>4. e.id \in DOMAIN plan /\ PathOf(plan[e.id]) = q
  BY <1>2 DEF FilesInOrder
<1>5. /\ plan[d.id].kind = "provenance" /\ p = <<"provenance", UtcDate(plan[d.id].occurred_at_ms)>>
      /\ plan[e.id].kind = "provenance" /\ q = <<"provenance", UtcDate(plan[e.id].occurred_at_ms)>>
      /\ plan[d.id].occurred_at_ms \in Int /\ plan[e.id].occurred_at_ms \in Int
      /\ plan \in Plans /\ d.id \in Nat /\ e.id \in Nat
  <2>1. plan \in Plans /\ Len(plan) \in Nat /\ DOMAIN plan = 1 .. Len(plan)
        /\ \A k \in DOMAIN plan : IsItem(plan[k])
    BY PlansAssumption DEF StoreTypeOK
  <2>2. ASSUME NEW k \in DOMAIN plan, PathOf(plan[k])[1] = "provenance"
        PROVE  /\ plan[k].kind = "provenance" /\ plan[k].occurred_at_ms \in Int /\ k \in Nat
               /\ PathOf(plan[k]) = <<"provenance", UtcDate(plan[k].occurred_at_ms)>>
    BY <2>1, <2>2 DEF PathOf, IsItem
  <2> QED
    BY <1>3, <1>4, <2>1, <2>2
<1>6. i \in Int /\ j \in Int
  BY SMTT(30) DEF StoreTypeOK
<1>7. ASSUME d.id < e.id
      PROVE  p[2] < q[2] \/ p = q
  <2>1. plan[d.id].occurred_at_ms =< plan[e.id].occurred_at_ms
    BY <1>3, <1>4, <1>5, <1>7, ClockAssumption
  <2>2. /\ UtcDate(plan[d.id].occurred_at_ms) =< UtcDate(plan[e.id].occurred_at_ms)
        /\ UtcDate(plan[d.id].occurred_at_ms) \in Int
        /\ UtcDate(plan[e.id].occurred_at_ms) \in Int
    BY <1>5, <2>1, DaysInOrder
  <2> QED
    BY <1>5, <2>2
<1>8. ASSUME e.id < d.id
      PROVE  q[2] < p[2] \/ p = q
  <2>1. plan[e.id].occurred_at_ms =< plan[d.id].occurred_at_ms
    BY <1>3, <1>4, <1>5, <1>8, ClockAssumption
  <2>2. /\ UtcDate(plan[e.id].occurred_at_ms) =< UtcDate(plan[d.id].occurred_at_ms)
        /\ UtcDate(plan[d.id].occurred_at_ms) \in Int
        /\ UtcDate(plan[e.id].occurred_at_ms) \in Int
    BY <1>5, <2>1, DaysInOrder
  <2> QED
    BY <1>5, <2>2
<1>9. p[2] \in Int /\ q[2] \in Int
  BY <1>5, DaysInOrder
<1>10. p = q => /\ i < j => d.id < e.id
                /\ j < i => e.id < d.id
                /\ i = j => d.id = e.id
  <2>1. SUFFICES ASSUME p = q
                 PROVE  /\ i < j => d.id < e.id
                        /\ j < i => e.id < d.id
                        /\ i = j => d.id = e.id
    OBVIOUS
  <2>2. i < j => Log!Precedes(d, e)
    BY <1>1, <1>2, <2>1 DEF FilesInOrder
  <2>3. j < i => Log!Precedes(e, d)
    BY <1>1, <1>2, <2>1 DEF FilesInOrder
  <2>4. i = j => d = e
    BY <1>1, <1>2, <2>1
  <2>5. d.run \in Int /\ d.run = e.run
    BY <1>1, <1>2, EntriesTyped
  <2> QED
    BY <2>2, <2>3, <2>4, <2>5 DEF Log!Precedes
<1>11. d.id = e.id => p = q
  BY <1>3, <1>4
<1>12. Before(p[2], i, q[2], j) <=> d.id < e.id
  <2>1. p[2] = q[2] <=> p = q
    BY <1>5
  <2> QED
    BY <1>5, <1>6, <1>7, <1>8, <1>9, <1>10, <1>11, <2>1 DEF Before
<1> QED
  BY <1>1, <1>2, <1>12

\* A newline ends the line of the file the item belongs to, behind all that
\* can be read of it.
LEMMA NewlineInOrder ==
    ASSUME StoreInv, FilesInOrder, Write, part = Parts
    PROVE  FilesInOrder'
<1> USE DEF StoreInv
<1>1. PICK t : t = files[Target].tail
  OBVIOUS
<1>2. PICK n : n = Len(files[Target].lines)
  OBVIOUS
<1>3. /\ plan' = plan /\ Paths' = Paths /\ Target \in Paths
      /\ files[Target].lines \in Seq(Seq(Pieces)) /\ t \in Seq(Pieces)
      /\ files'[Target].lines = Append(files[Target].lines, t)
      /\ \A p \in Paths \ {Target} : files'[p] = files[p]
      /\ EntryOf(t) # None => EntryOf(t) = [run |-> run, id |-> next]
  BY <1>1, NewlineEndsLine DEF Write
<1>4. /\ n \in Nat /\ DOMAIN files[Target].lines = 1 .. n
      /\ DOMAIN files'[Target].lines = 1 .. n + 1
      /\ files'[Target].lines[n + 1] = t
      /\ \A i \in 1 .. n : files'[Target].lines[i] = files[Target].lines[i]
  BY <1>2, <1>3
<1>5. EntryOf(t) # None => /\ EntryOf(t).id \in DOMAIN plan
                           /\ PathOf(plan[EntryOf(t).id]) = Target
  BY <1>3, TargetIsPath DEF Write, Target
<1>6. \A i \in 1 .. n : LET d == EntryOf(files[Target].lines[i]) IN
         d # None /\ EntryOf(t) # None => Log!Precedes(d, EntryOf(t))
  BY <1>3, <1>4, PartsAssumption DEF EntriesArePast, StoreTypeOK
<1>7. ASSUME NEW i \in 1 .. n + 1
      PROVE  LET e == EntryOf(files'[Target].lines[i])
             IN  e # None => e.id \in DOMAIN plan /\ PathOf(plan[e.id]) = Target
  <2>1. CASE i = n + 1
    BY <1>4, <1>5, <2>1
  <2>2. CASE i \in 1 .. n
    BY <1>3, <1>4, <2>2 DEF FilesInOrder
  <2> QED
    BY <1>4, <2>1, <2>2
<1>8. ASSUME NEW i \in 1 .. n + 1, NEW j \in 1 .. n + 1, i < j
      PROVE  LET d == EntryOf(files'[Target].lines[i])
                 e == EntryOf(files'[Target].lines[j])
             IN  d # None /\ e # None => Log!Precedes(d, e)
  <2>1. i \in 1 .. n
    BY <1>4, <1>8
  <2>2. CASE j = n + 1
    BY <1>4, <1>6, <2>1, <2>2
  <2>3. CASE j \in 1 .. n
    BY <1>3, <1>4, <1>8, <2>1, <2>3 DEF FilesInOrder
  <2> QED
    BY <1>4, <2>2, <2>3
<1>9. ASSUME NEW p \in Paths
      PROVE  /\ \A i \in DOMAIN files'[p].lines :
                   LET e == EntryOf(files'[p].lines[i])
                   IN  e # None => e.id \in DOMAIN plan /\ PathOf(plan[e.id]) = p
             /\ \A i, j \in DOMAIN files'[p].lines :
                   LET d == EntryOf(files'[p].lines[i])
                       e == EntryOf(files'[p].lines[j])
                   IN  i < j /\ d # None /\ e # None => Log!Precedes(d, e)
  <2>1. CASE p = Target
    BY <1>4, <1>7, <1>8, <2>1
  <2>2. CASE p # Target
    BY <1>3, <2>2 DEF FilesInOrder
  <2> QED
    BY <2>1, <2>2
<1> QED
  BY <1>3, <1>9 DEF FilesInOrder, Log!Precedes

\* Nothing else touches a complete line.
LEMMA StepInOrder == StoreInv /\ FilesInOrder /\ [Next]_vars => FilesInOrder'
<1> SUFFICES ASSUME StoreInv, FilesInOrder, [Next]_vars PROVE FilesInOrder'
  OBVIOUS
<1>1. CASE Write /\ part = Parts
  BY <1>1, NewlineInOrder
<1>2. ASSUME plan' = plan, Paths' = Paths, \A p \in Paths : files'[p].lines = files[p].lines
      PROVE  FilesInOrder'
  BY <1>2 DEF FilesInOrder, Log!Precedes
<1>3. CASE Write /\ part # Parts
  <2>1. part < Parts
    BY <1>3, PartsAssumption DEF StoreInv, StoreTypeOK, Write
  <2> QED
    BY <1>2, <1>3, <2>1, PieceIsUnderway DEF StoreInv, Write
<1>4. CASE Return \/ Crash \/ Boot \/ UNCHANGED vars
  BY <1>2, <1>4 DEF Return, Crash, Boot, vars, Paths
<1> QED
  BY <1>1, <1>3, <1>4 DEF Next

\* Whenever runs were cut short, what can be read back of a run's provenance
\* is in the order it happened: by date, and each file from its start.
THEOREM HistoryIsInOrder == Spec => []HistoryReadsInOrder
<1>1. Init => FilesInOrder
  BY DEF Init, FilesInOrder
<1>2. StoreInv /\ FilesInOrder => HistoryReadsInOrder
  BY OrderIsRead DEF StoreInv
<1> QED
  BY <1>1, <1>2, StepInOrder, StoreInvHolds, PTL DEF Spec
==============================================================================
