---------------------------- MODULE Ingest_proofs ----------------------------
(***************************************************************************)
(* What Ingest promises for any feeds, entries, dates and limits, and any   *)
(* number of runs, edits and crashes.                                      *)
(***************************************************************************)
EXTENDS Ingest, Extrema

USE DEF feeds, run, history, used

\* The rows there are at the start.
Given == Cardinality(DOMAIN Initial)

LEMMA GivenFacts ==
    /\ Given \in Nat /\ Initial \in [1 .. Given -> Feeds] /\ DOMAIN Initial = 1 .. Given
    /\ MaxEdits \in Nat
    /\ Ids = 1 .. Given + MaxEdits /\ Ids \subseteq Nat /\ 0 \notin Ids
    /\ 1 .. Given \subseteq Ids
  <1>1. Given \in Nat /\ Initial \in [1 .. Given -> Feeds] /\ MaxEdits \in Nat
    BY InitialAssumption, LimitAssumption DEF Given
  <1>2. Ids = 1 .. Given + MaxEdits
    BY DEF Ids, Given
  <1> QED BY <1>1, <1>2

(***************************************************************************)
(* Types.                                                                  *)
(***************************************************************************)

\* The least date of a set of dated entries.
LEMMA CutoffIsNat ==
    ASSUME NEW window \in SUBSET Entries, clock \in Nat
    PROVE  /\ Cutoff(window) \in Nat
           /\ \A e \in window : Pub[e] # Undated => Pub[e] >= Cutoff(window)
  <1> DEFINE dated == {Pub[e] : e \in window} \ {Undated}
  <1>1. dated \in SUBSET Nat
    BY FeedAssumption
  <1>2. \A e \in window : Pub[e] # Undated => Pub[e] \in dated
    OBVIOUS
  <1>3. Cutoff(window) = IF dated = {} THEN clock ELSE Min(dated)
    BY DEF Cutoff
  <1> HIDE DEF dated
  <1>4. CASE dated = {}
    BY <1>2, <1>3, <1>4
  <1>5. CASE dated # {}
    <2>1. Min(dated) \in dated /\ \A y \in dated : Min(dated) <= y
      BY <1>1, <1>5, MinIsLeast
    <2> QED BY <1>1, <1>2, <1>3, <1>5, <2>1
  <1> QED BY <1>4, <1>5

\* What an ingest takes is new to the source.
LEMMA TakenFacts ==
    ASSUME NEW s, NEW fresh \in SUBSET Entries,
           NEW window \in Window(s, fresh), NEW n, NEW taken \in Newest(n, window)
    PROVE  /\ taken \subseteq window /\ window \subseteq fresh
           /\ s.cutoff # NoCutoff =>
                  \A e \in window : Pub[e] = Undated \/ Pub[e] >= s.cutoff
  BY DEF Window, Newest

\* The row with the least id comes first.
LEMMA NextSourceFacts ==
    ASSUME queue # {}, \A s \in queue : s.id \in Nat
    PROVE  NextSource \in queue
  <1> DEFINE ids == {s.id : s \in queue}
  <1>1. Min(ids) \in ids /\ \A y \in ids : Min(ids) <= y
    <2>1. ids \in SUBSET Nat /\ ids # {}
      OBVIOUS
    <2> HIDE DEF ids
    <2> QED BY <2>1, MinIsLeast
  <1>2. PICK s \in queue : \A t \in queue : s.id <= t.id
    BY <1>1
  <1> QED BY <1>2 DEF NextSource

\* The id of a new row is larger than those in use, and no larger than edits
\* make it.
Numbered == \A i \in Ids : Exists(i) => i <= Given + edits

NewId == 1 + Max({i \in Ids : Exists(i)} \cup {0})

LEMMA NewIdFacts ==
    ASSUME Numbered, edits \in Nat, edits < MaxEdits
    PROVE  /\ NewId \in Ids /\ NewId <= Given + edits + 1
           /\ \A i \in Ids : Exists(i) => i < NewId
  <1> DEFINE S == {i \in Ids : Exists(i)} \cup {0}
  <1>1. S \in SUBSET (0 .. Given + edits)
    <2>1. \A i \in S : i \in 0 .. Given + edits
      BY GivenFacts DEF Numbered
    <2> QED BY <2>1
  <1>2. IsFiniteSet(S)
    <2>1. IsFiniteSet(0 .. Given + edits)
      BY GivenFacts, FS_Interval
    <2> QED BY <1>1, <2>1, FS_Subset
  <1>3. S \in SUBSET Int /\ 0 \in S /\ {i \in Ids : Exists(i)} \subseteq S
    BY <1>1, GivenFacts
  <1> HIDE DEF S
  <1>4. Max(S) \in S /\ \A y \in S : y <= Max(S)
    BY <1>2, <1>3, MaxIsGreatest
  <1>5. NewId = 1 + Max(S)
    BY DEF NewId, S
  <1>9. Max(S) \in 0 .. Given + edits
    BY <1>1, <1>4
  <1> DEFINE m == Max(S)
  <1>10. m \in 0 .. Given + edits /\ NewId = 1 + m /\ \A y \in S : y <= m
    BY <1>4, <1>5, <1>9
  <1> HIDE DEF m
  <1>6. NewId \in Nat /\ NewId >= 1 /\ NewId <= Given + edits + 1
    BY <1>10, GivenFacts
  <1>7. NewId \in Ids
    BY <1>6, GivenFacts
  <1>8. ASSUME NEW i \in Ids, Exists(i) PROVE i < NewId
    <2>1. i \in Nat /\ i <= m
      BY <1>3, <1>8, <1>10, GivenFacts
    <2> QED BY <1>10, <2>1, GivenFacts
  <1> QED BY <1>6, <1>7, <1>8

Typed == TypeOK /\ Numbered

LEMMA TypedInit == Init => Typed
  <1> SUFFICES ASSUME Init PROVE Typed
    OBVIOUS
  <1> USE GivenFacts, LimitAssumption, FeedAssumption DEF Init
  <1>1. rows \in [Ids -> Row] /\ Numbered
    <2>1. ASSUME NEW i \in Ids
          PROVE  rows[i] \in Row /\ (Exists(i) => i \in 1 .. Given)
      <3>1. CASE i \in 1 .. Given
        <4>1. rows[i] = Fresh(Initial[i]) /\ Initial[i] \in Feeds
          BY <3>1
        <4> QED BY <3>1, <4>1 DEF Fresh, Row, NoCutoff
      <3>2. CASE i \notin 1 .. Given
        <4>1. rows[i] = NoRow
          BY <3>2
        <4>2. NoRow \in Row /\ NoRow.feed = NoFeed
          BY DEF NoRow, Row
        <4> QED BY <4>1, <4>2 DEF Exists
      <3> QED BY <3>1, <3>2
    <2> QED BY <2>1 DEF Numbered
  <1>2. /\ served \in [Feeds -> SUBSET Entries] /\ aired \subseteq Upcoming /\ items = {}
        /\ queue = {} /\ src \in RowCopy /\ got \subseteq Entries /\ validator \subseteq Entries
        /\ catalogue \in [Ids -> SUBSET Entries] /\ capped \in [Ids -> SUBSET Entries]
        /\ letgo \in [Ids -> SUBSET Entries] /\ pc = "idle" /\ born \in [Ids -> 0 .. MaxRuns]
    BY DEF NoSrc, RowCopy
  <1>3. /\ clock \in 0 .. MaxClock /\ now \in 0 .. MaxClock /\ polls \in 0 .. MaxRuns
        /\ edits \in 0 .. MaxEdits /\ crashes \in 0 .. MaxCrashes
    OBVIOUS
  <1> QED BY <1>1, <1>2, <1>3 DEF Typed, TypeOK

\* What a new row changes.
LEMMA Creates ==
    ASSUME Typed, NEW f \in Feeds, Create(f)
    PROVE  /\ NewId \in Ids /\ NewId <= Given + edits'
           /\ \A i \in Ids : Exists(i) => i < NewId
           /\ edits' = edits + 1 /\ edits' \in 0 .. MaxEdits
           /\ f \in Creatable
           /\ rows' = [rows EXCEPT ![NewId] = Fresh(f)]
           /\ catalogue' = [catalogue EXCEPT ![NewId] = {}]
           /\ capped' = [capped EXCEPT ![NewId] = {}]
           /\ letgo' = [letgo EXCEPT ![NewId] = {}]
           /\ born' = [born EXCEPT ![NewId] = IF pc = "idle" THEN 0 ELSE polls]
           /\ UNCHANGED <<clock, feeds, items, pc, run, polls, crashes>>
  <1>1. edits \in Nat /\ edits < MaxEdits /\ edits' = edits + 1 /\ edits' \in 0 .. MaxEdits
    BY LimitAssumption DEF Create, Typed, TypeOK
  <1>2. /\ NewId \in Ids /\ NewId <= Given + edits + 1
        /\ \A i \in Ids : Exists(i) => i < NewId
    BY <1>1, NewIdFacts DEF Typed
  <1>3. NewId <= Given + edits'
    BY <1>1, <1>2, GivenFacts
  <1> QED BY <1>1, <1>2, <1>3 DEF Create, NewId

\* The rows an ingest stores.
Landed(taken) ==
    {[source |-> src.id, entry |-> e, seen |-> clock, run |-> polls] : e \in taken}

\* What an ingest that is not refused changes, and what is true of it.
Ingests(window, taken) ==
    /\ pc = "ingest" /\ pc' = "save"
    /\ Exists(src.id) \/ taken = {}
    /\ items' = items \cup Landed(taken)
    /\ IF src.cutoff = NoCutoff /\ window # {} /\ Exists(src.id)
       THEN /\ rows' = [rows EXCEPT ![src.id].cutoff = Cutoff(window)]
            /\ catalogue' = [catalogue EXCEPT ![src.id] = got]
            /\ capped' = [capped EXCEPT ![src.id] = window \ taken]
       ELSE UNCHANGED <<rows, catalogue, capped>>
    /\ letgo' = [letgo EXCEPT ![src.id] =
                    @ \cup (got \ taken) \cup
                    IF validator = src.validator THEN {} ELSE validator \ got]
    /\ UNCHANGED <<clock, feeds, run, born, used>>

IngestRefused ==
    /\ pc = "ingest" /\ pc' = "idle" /\ now' = 0 /\ queue' = {} /\ Forget
    /\ UNCHANGED <<clock, feeds, rows, items, history, used>>

LEMMA IngestCases ==
    ASSUME Ingest, TypeOK
    PROVE  \/ IngestRefused
           \/ \E window \in SUBSET got, taken \in SUBSET Entries :
                 /\ window \in Window(src, NewTo(src.id, got))
                 /\ taken \in Newest(Budget(src.id), window)
                 /\ taken \subseteq window /\ window \subseteq NewTo(src.id, got)
                 /\ src.cutoff # NoCutoff =>
                        \A e \in window : Pub[e] = Undated \/ Pub[e] >= src.cutoff
                 /\ Ingests(window, taken)
  <1>1. got \in SUBSET Entries /\ NewTo(src.id, got) \subseteq got
    BY DEF TypeOK, NewTo
  <1>6. PICK window \in Window(src, NewTo(src.id, got)) :
           \E taken \in Newest(Budget(src.id), window) :
              IF ~Exists(src.id) /\ taken # {}
              THEN /\ pc' = "idle" /\ now' = 0 /\ queue' = {} /\ Forget
                   /\ UNCHANGED <<rows, items, catalogue, capped, letgo>>
              ELSE Ingests(window, taken)
    BY DEF Ingest, Ingests, Landed
  <1>2. PICK taken \in Newest(Budget(src.id), window) :
           IF ~Exists(src.id) /\ taken # {}
           THEN /\ pc' = "idle" /\ now' = 0 /\ queue' = {} /\ Forget
                /\ UNCHANGED <<rows, items, catalogue, capped, letgo>>
           ELSE Ingests(window, taken)
    BY <1>6
  <1>3. /\ taken \subseteq window /\ window \subseteq NewTo(src.id, got)
        /\ src.cutoff # NoCutoff =>
               \A e \in window : Pub[e] = Undated \/ Pub[e] >= src.cutoff
    <2>1. NewTo(src.id, got) \in SUBSET Entries
      BY <1>1
    <2> QED BY <2>1, <1>2, TakenFacts
  <1>4. CASE ~Exists(src.id) /\ taken # {}
    BY <1>2, <1>4 DEF IngestRefused, Ingest
  <1>5. CASE ~(~Exists(src.id) /\ taken # {})
    BY <1>1, <1>2, <1>3, <1>5
  <1> QED BY <1>4, <1>5

\* A run never holds the copy of a row that has no id once it is past the poll.
Sourced == pc \in {"ingest", "save"} => src.id \in Ids

Copied == \A s \in queue : s.id \in Ids /\ s.feed \in Feeds

\* A run in progress has a number.
Counted == pc # "idle" => polls >= 1

Types == Typed /\ Sourced /\ Copied /\ Counted

LEMMA NoSrcType == NoSrc \in RowCopy
  BY DEF NoSrc, RowCopy

LEMMA TypesNext == Types /\ [Next]_vars => Types'
  <1> SUFFICES ASSUME Types, [Next]_vars
               PROVE  Types'
    OBVIOUS
  <1> USE DEF Types, Typed, TypeOK, Sourced, Copied, Counted
  <1>0. /\ MaxClock \in Nat /\ MaxRuns \in Nat /\ MaxEdits \in Nat /\ MaxCrashes \in Nat
        /\ Ids \subseteq Nat
    BY LimitAssumption, GivenFacts
  <1>1. CASE StartRun
    <2>1. polls' \in 0 .. MaxRuns /\ now' \in 0 .. MaxClock
      BY <1>0, <1>1 DEF StartRun
    <2>2. queue' \subseteq RowCopy /\ \A s \in queue' : s.id \in Ids /\ s.feed \in Feeds
      BY <1>1 DEF StartRun, Row, RowCopy, Exists
    <2> QED BY <1>1, <2>1, <2>2 DEF StartRun, Numbered, Exists
  <1>2. CASE PollFails
    BY <1>2 DEF PollFails, Numbered, Exists
  <1>3. CASE Poll
    <2>1. NextSource \in queue
      BY <1>0, <1>3, NextSourceFacts DEF Poll
    <2>2. /\ src' = NextSource /\ queue' = queue \ {NextSource} /\ pc = "poll" /\ pc' = "ingest"
          /\ got' \subseteq Entries /\ validator' \subseteq Entries
          /\ UNCHANGED <<clock, feeds, rows, items, now, history, used>>
      BY <1>3, <2>1 DEF Poll, Enriched, RowCopy
    <2> QED BY <2>1, <2>2 DEF Numbered, Exists
  <1>4. CASE Ingest
    <2>1. CASE IngestRefused
      BY <1>0, <2>1, NoSrcType DEF IngestRefused, Forget, Numbered, Exists
    <2>2. ASSUME NEW window \in SUBSET got, NEW taken \in SUBSET Entries, Ingests(window, taken)
          PROVE  Types'
      <3> USE <2>2 DEF Ingests
      <3>1. src.id \in Ids /\ clock \in Nat
        BY <1>0
      <3>2. Cutoff(window) \in Nat
        BY <3>1, CutoffIsNat
      <3>3. rows' \in [Ids -> Row] /\ \A i \in Ids : rows'[i].feed = rows[i].feed
        <4>1. CASE src.cutoff = NoCutoff /\ window # {} /\ Exists(src.id)
          <5>1. rows' = [rows EXCEPT ![src.id].cutoff = Cutoff(window)]
            BY <4>1
          <5> QED BY <3>1, <3>2, <5>1, SMTT(30) DEF Row
        <4>2. CASE ~(src.cutoff = NoCutoff /\ window # {} /\ Exists(src.id))
          BY <4>2
        <4> QED BY <4>1, <4>2
      <3>4. items' \subseteq
                [source : Ids, entry : Entries, seen : 0 .. MaxClock, run : 1 .. MaxRuns]
        BY <3>1 DEF Landed
      <3>5. /\ catalogue' \in [Ids -> SUBSET Entries] /\ capped' \in [Ids -> SUBSET Entries]
            /\ letgo' \in [Ids -> SUBSET Entries]
        BY <3>1
      <3>6. Numbered'
        BY <3>3 DEF Numbered, Exists
      <3> QED BY <3>3, <3>4, <3>5, <3>6
    <2> QED BY <1>4, <2>1, <2>2, IngestCases
  <1>5. CASE SaveValidator
    <2>1. rows' \in [Ids -> Row] /\ \A i \in Ids : rows'[i].feed = rows[i].feed
      BY <1>5 DEF SaveValidator, Row
    <2> QED BY <1>5, <2>1, NoSrcType DEF SaveValidator, Forget, Numbered, Exists
  <1>6. CASE EndRun
    BY <1>0, <1>6 DEF EndRun, Numbered, Exists
  <1>7. CASE Crash
    BY <1>0, <1>7, NoSrcType DEF Crash, Forget, Numbered, Exists
  <1>8. ASSUME NEW f \in Feeds, Create(f) PROVE Types'
    <2>1. /\ NewId \in Ids /\ NewId <= Given + edits'
          /\ edits' = edits + 1 /\ edits' \in 0 .. MaxEdits
          /\ rows' = [rows EXCEPT ![NewId] = Fresh(f)]
          /\ catalogue' = [catalogue EXCEPT ![NewId] = {}]
          /\ capped' = [capped EXCEPT ![NewId] = {}]
          /\ letgo' = [letgo EXCEPT ![NewId] = {}]
          /\ born' = [born EXCEPT ![NewId] = IF pc = "idle" THEN 0 ELSE polls]
          /\ UNCHANGED <<clock, feeds, items, pc, run, polls, crashes>>
      BY <1>8, Creates
    <2>2. Fresh(f) \in Row
      BY DEF Fresh, Row
    <2>3. rows' \in [Ids -> Row] /\ \A i \in Ids : i = NewId \/ rows'[i] = rows[i]
      BY <2>1, <2>2
    <2>4. ASSUME NEW i \in Ids, Exists(i)' PROVE i <= Given + edits'
      <3>1. CASE i = NewId
        BY <2>1, <3>1
      <3>2. CASE i # NewId
        <4>1. i <= Given + edits
          BY <2>3, <2>4, <3>2 DEF Exists, Numbered
        <4> QED BY <1>0, <2>1, <4>1, GivenFacts
      <3> QED BY <3>1, <3>2
    <2>5. born' \in [Ids -> 0 .. MaxRuns]
      <3>1. 0 \in 0 .. MaxRuns /\ polls \in 0 .. MaxRuns
        BY <1>0
      <3> QED BY <2>1, <3>1
    <2> QED BY <2>1, <2>3, <2>4, <2>5 DEF Numbered
  <1>9. ASSUME NEW i \in Ids, Purge(i) PROVE Types'
    <2>1. /\ rows' = [rows EXCEPT ![i] = NoRow] /\ edits' = edits + 1 /\ edits' \in 0 .. MaxEdits
      BY <1>0, <1>9 DEF Purge
    <2>2. NoRow \in Row /\ NoRow.feed = NoFeed
      BY DEF NoRow, Row
    <2>3. rows' \in [Ids -> Row] /\ \A j \in Ids : rows'[j].feed \in {rows[j].feed, NoFeed}
      BY <2>1, <2>2
    <2>4. Numbered'
      <3>1. \A j \in Ids : Exists(j)' => Exists(j)
        BY <2>3 DEF Exists
      <3>2. ASSUME NEW j \in Ids, j <= Given + edits PROVE j <= Given + edits'
        BY <1>0, <2>1, <3>2, GivenFacts
      <3> QED BY <3>1, <3>2 DEF Numbered
    <2> QED BY <1>9, <2>1, <2>3, <2>4 DEF Purge
  <1>10. ASSUME NEW i \in Ids, SetEnabled(i) PROVE Types'
    <2>1. /\ rows' = [rows EXCEPT ![i].enabled = ~@] /\ edits' = edits + 1
          /\ edits' \in 0 .. MaxEdits
      BY <1>0, <1>10 DEF SetEnabled
    <2>3. rows' \in [Ids -> Row] /\ \A j \in Ids : rows'[j].feed = rows[j].feed
      BY <2>1 DEF Row
    <2>4. Numbered'
      <3>1. \A j \in Ids : Exists(j)' => Exists(j)
        BY <2>3 DEF Exists
      <3>2. ASSUME NEW j \in Ids, j <= Given + edits PROVE j <= Given + edits'
        BY <1>0, <2>1, <3>2, GivenFacts
      <3> QED BY <3>1, <3>2 DEF Numbered
    <2> QED BY <1>10, <2>1, <2>3, <2>4 DEF SetEnabled
  <1>11. ASSUME NEW e \in Entries, Publish(e) \/ Withdraw(e) \/ Air(e) PROVE Types'
    <2>1. served' \in [Feeds -> SUBSET Entries] /\ aired' \subseteq Upcoming
      BY <1>11, FeedAssumption DEF Publish, Withdraw, Air
    <2>2. UNCHANGED <<clock, rows, items, pc, run, history, used>>
      BY <1>11 DEF Publish, Withdraw, Air
    <2> QED BY <2>1, <2>2 DEF Numbered, Exists
  <1>12. CASE Tick
    <2>1. clock' \in 0 .. MaxClock
      BY <1>0, <1>12 DEF Tick
    <2> QED BY <1>12, <2>1 DEF Tick, Numbered, Exists
  <1>13. CASE UNCHANGED vars
    BY <1>13 DEF vars, Numbered, Exists
  <1> QED BY <1>1, <1>2, <1>3, <1>4, <1>5, <1>6, <1>7, <1>8, <1>9, <1>10, <1>11, <1>12, <1>13
          DEF Next

LEMMA TypesInit == Init => Types
  BY TypedInit DEF Types, Init, Sourced, Copied, Counted

LEMMA TypesHold == Spec => []Types
  BY TypesInit, TypesNext, PTL DEF Spec

\* Every variable keeps the shape the schema and the code give it; above all,
\* a cutoff is a time and a new row gets an id.
THEOREM TypeCorrect == Spec => []TypeOK
  <1>1. Types => TypeOK
    BY DEF Types, Typed
  <1> QED BY <1>1, TypesHold, PTL

(***************************************************************************)
(* Once under a source, and no more than the cap in a day.                 *)
(***************************************************************************)

\* What a step does to the items.
LEMMA ItemSteps ==
    ASSUME Types, [Next]_vars
    PROVE  \/ items' \subseteq items
           \/ \E window \in SUBSET got, taken \in SUBSET Entries :
                 /\ taken \in Newest(Budget(src.id), window)
                 /\ taken \subseteq window /\ window \subseteq NewTo(src.id, got)
                 /\ src.cutoff # NoCutoff =>
                        \A e \in window : Pub[e] = Undated \/ Pub[e] >= src.cutoff
                 /\ Ingests(window, taken)
  <1>1. CASE Ingest
    BY <1>1, IngestCases DEF IngestRefused, Types, Typed
  <1>2. CASE \/ StartRun \/ PollFails \/ Poll \/ SaveValidator \/ EndRun \/ Crash \/ Tick
             \/ UNCHANGED vars
    BY <1>2 DEF StartRun, PollFails, Poll, SaveValidator, EndRun, Crash, Tick, vars
  <1>3. CASE \E f \in Feeds : Create(f)
    BY <1>3 DEF Create
  <1>4. CASE \E i \in Ids : Purge(i) \/ SetEnabled(i)
    BY <1>4 DEF Purge, SetEnabled
  <1>5. CASE \E e \in Entries : Publish(e) \/ Withdraw(e) \/ Air(e)
    BY <1>5 DEF Publish, Withdraw, Air
  <1> QED BY <1>1, <1>2, <1>3, <1>4, <1>5 DEF Next

LEMMA StoredOnceNext == Types /\ StoredOnce /\ [Next]_vars => StoredOnce'
  <1> SUFFICES ASSUME Types, StoredOnce, [Next]_vars
               PROVE  StoredOnce'
    OBVIOUS
  <1>1. CASE items' \subseteq items
    BY <1>1 DEF StoredOnce
  <1>2. ASSUME NEW window \in SUBSET got, NEW taken \in SUBSET Entries,
               taken \subseteq window, window \subseteq NewTo(src.id, got),
               Ingests(window, taken)
        PROVE  StoredOnce'
    <2> DEFINE new == Landed(taken)
    <2>1. items' = items \cup new
      BY <1>2 DEF Ingests
    <2>2. ASSUME NEW a \in items, NEW b \in new PROVE a.source # b.source \/ a.entry # b.entry
      BY <1>2 DEF NewTo, Landed
    <2>3. ASSUME NEW a \in new, NEW b \in new, a.entry = b.entry PROVE a = b
      BY <2>3 DEF Landed
    <2> HIDE DEF new
    <2> QED BY <2>1, <2>2, <2>3 DEF StoredOnce
  <1> QED BY <1>1, <1>2, ItemSteps

\* An entry is stored once under a source: repeated polls, crashes between the
\* two transactions and lost validators never store it again.
THEOREM StoredOnceHolds == Spec => []StoredOnce
  <1>1. Init => StoredOnce
    BY DEF Init, StoredOnce
  <1> QED BY <1>1, StoredOnceNext, TypesHold, PTL DEF Spec

\* The newest of a finite set are no more than asked for.
LEMMA NewestSize ==
    ASSUME NEW n \in Nat, NEW window, IsFiniteSet(window), NEW taken \in Newest(n, window)
    PROVE  IsFiniteSet(taken) /\ Cardinality(taken) \in Nat /\ Cardinality(taken) <= n
  <1>1. taken \in SUBSET window
        /\ Cardinality(taken) = IF n < Cardinality(window) THEN n ELSE Cardinality(window)
    BY DEF Newest
  <1>2. Cardinality(window) \in Nat /\ IsFiniteSet(taken)
    BY <1>1, FS_CardinalityType, FS_Subset
  <1> QED BY <1>1, <1>2

\* A later instant is of the same day or a later one.
LEMMA DaysPass ==
    ASSUME NEW a \in Nat, NEW b \in Nat, a <= b
    PROVE  DayOf(a) \in Nat /\ DayOf(a) <= DayOf(b)
  <1>1. DayLen \in Nat /\ DayLen > 0
    BY LimitAssumption
  <1>2. a \div DayLen \in Nat /\ b \div DayLen \in Nat
    BY <1>1
  <1>3. DayLen * (a \div DayLen) <= a /\ b < DayLen * (b \div DayLen) + DayLen
    BY <1>1, SMT
  <1>4. ~(b \div DayLen + 1 <= a \div DayLen)
    BY <1>1, <1>2, <1>3, SMT
  <1> QED BY <1>2, <1>4 DEF DayOf

LEMMA DayBegins ==
    ASSUME NEW a \in Nat, NEW t \in Nat, DayOf(a) <= DayOf(t)
    PROVE  DayStart(a) <= t
  <1>1. DayLen \in Nat /\ DayLen > 0
    BY LimitAssumption
  <1>2. a \div DayLen \in Nat /\ t \div DayLen \in Nat
    BY <1>1
  <1>3. (t \div DayLen) * DayLen <= t
    BY <1>1, SMT
  <1>4. a \div DayLen <= t \div DayLen
    BY DEF DayOf
  <1>5. (a \div DayLen) * DayLen <= (t \div DayLen) * DayLen
    BY <1>1, <1>2, <1>4, SMT
  <1>6. (a \div DayLen) * DayLen \in Nat /\ (t \div DayLen) * DayLen \in Nat
    BY <1>1, <1>2, SMT
  <1> QED BY <1>3, <1>5, <1>6 DEF DayStart, DayOf

OfDay(i, d) == {it \in ItemsOf(i) : DayOf(it.seen) = d}

\* A run in progress started in the past.
Clocked == pc # "idle" => now <= clock

Capped ==
    /\ \A i \in Ids, d \in Nat : Cardinality(OfDay(i, d)) <= DailyItemCap
    /\ IsFiniteSet(items)
    /\ Clocked

LEMMA ClockedNext == Types /\ Clocked /\ [Next]_vars => Clocked'
  <1> SUFFICES ASSUME Types, Clocked, [Next]_vars
               PROVE  Clocked'
    OBVIOUS
  <1> USE DEF Clocked
  <1>1. clock \in Nat /\ now \in Nat
    BY LimitAssumption DEF Types, Typed, TypeOK
  <1>2. CASE StartRun
    BY <1>1, <1>2 DEF StartRun
  <1>3. CASE Ingest
    BY <1>3 DEF Ingest
  <1>4. CASE PollFails \/ Poll \/ SaveValidator \/ EndRun \/ Crash \/ UNCHANGED vars
    BY <1>4 DEF PollFails, Poll, SaveValidator, EndRun, Crash, vars
  <1>5. CASE \E f \in Feeds : Create(f)
    BY <1>5 DEF Create
  <1>6. CASE \E i \in Ids : Purge(i) \/ SetEnabled(i)
    BY <1>6 DEF Purge, SetEnabled
  <1>7. CASE \E e \in Entries : Publish(e) \/ Withdraw(e) \/ Air(e)
    BY <1>7 DEF Publish, Withdraw, Air
  <1>8. CASE Tick
    <2>1. clock' = clock + 1 /\ now' = now /\ pc' = pc
      BY <1>8 DEF Tick
    <2> QED BY <1>1, <2>1
  <1> QED BY <1>2, <1>3, <1>4, <1>5, <1>6, <1>7, <1>8 DEF Next

LEMMA FewerItems ==
    ASSUME Capped, Types, items' \subseteq items
    PROVE  /\ \A i \in Ids, d \in Nat : Cardinality(OfDay(i, d)') <= DailyItemCap
           /\ IsFiniteSet(items')
  <1>1. IsFiniteSet(items')
    BY FS_Subset DEF Capped
  <1>2. ASSUME NEW i \in Ids, NEW d \in Nat
        PROVE  Cardinality(OfDay(i, d)') <= DailyItemCap
    <2>1. OfDay(i, d) \in SUBSET items /\ OfDay(i, d)' \in SUBSET OfDay(i, d)
      BY DEF OfDay, ItemsOf
    <2>2. IsFiniteSet(OfDay(i, d)) /\ Cardinality(OfDay(i, d)) <= DailyItemCap
      BY <2>1, FS_Subset DEF Capped
    <2>3. /\ Cardinality(OfDay(i, d)) \in Nat
          /\ Cardinality(OfDay(i, d)') \in Nat
          /\ Cardinality(OfDay(i, d)') <= Cardinality(OfDay(i, d))
      BY <2>1, <2>2, FS_Subset, FS_CardinalityType
    <2> QED BY <2>2, <2>3, LimitAssumption
  <1> QED BY <1>1, <1>2

\* The budget counts at least what the current day has already: it counts from
\* the midnight before the run began.
LEMMA BudgetFits ==
    ASSUME Capped, Types, pc # "idle", src.id \in Ids
    PROVE  /\ Budget(src.id) \in Nat
           /\ \/ Budget(src.id) = 0
              \/ Cardinality(OfDay(src.id, DayOf(clock))) + Budget(src.id) <= DailyItemCap
  <1> DEFINE today == {it \in items : it.source = src.id /\ it.seen >= DayStart(now)}
             D == OfDay(src.id, DayOf(clock))
  <1>1. clock \in Nat /\ now \in Nat /\ now <= clock /\ DailyItemCap \in Nat
        /\ \A it \in items : it.seen \in Nat
    BY LimitAssumption DEF Types, Typed, TypeOK, Capped, Clocked
  <1>2. D \in SUBSET today /\ today \in SUBSET items
    <2>1. DayOf(now) <= DayOf(clock)
      BY <1>1, DaysPass
    <2>2. ASSUME NEW it \in items, DayOf(it.seen) = DayOf(clock) PROVE DayStart(now) <= it.seen
      BY <1>1, <2>1, <2>2, DayBegins
    <2>3. \A it \in items : DayStart(now) \in Int /\ it.seen \in Int
      BY <1>1, LimitAssumption DEF DayStart, DayOf
    <2> QED BY <2>2, <2>3 DEF OfDay, ItemsOf
  <1>3. /\ Cardinality(D) \in Nat /\ Cardinality(today) \in Nat
        /\ Cardinality(D) <= Cardinality(today)
    <2>1. IsFiniteSet(today)
      BY <1>2, FS_Subset DEF Capped
    <2> QED BY <1>2, <2>1, FS_Subset, FS_CardinalityType
  <1>4. Budget(src.id) = IF Cardinality(today) < DailyItemCap
                         THEN DailyItemCap - Cardinality(today) ELSE 0
    BY DEF Budget
  <1> HIDE DEF today, D
  <1>5. CASE Cardinality(today) < DailyItemCap
    BY <1>1, <1>3, <1>4, <1>5 DEF D
  <1>6. CASE ~(Cardinality(today) < DailyItemCap)
    BY <1>4, <1>6
  <1> QED BY <1>5, <1>6

LEMMA MoreItems ==
    ASSUME Capped, Types,
           NEW window \in SUBSET got, NEW taken \in Newest(Budget(src.id), window),
           Ingests(window, taken)
    PROVE  /\ \A i \in Ids, d \in Nat : Cardinality(OfDay(i, d)') <= DailyItemCap
           /\ IsFiniteSet(items')
  <1> DEFINE new == Landed(taken)
  <1>1. pc # "idle" /\ src.id \in Ids /\ clock \in Nat /\ DailyItemCap \in Nat
    BY LimitAssumption DEF Ingests, Types, Sourced, Typed, TypeOK
  <1>2. IsFiniteSet(taken) /\ Cardinality(taken) \in Nat /\ Cardinality(taken) <= Budget(src.id)
    <2>1. IsFiniteSet(window)
      <3>1. window \in SUBSET Entries
        BY DEF Types, Typed, TypeOK
      <3> QED BY <3>1, FeedAssumption, FS_Subset
    <2> QED BY <1>1, <2>1, BudgetFits, NewestSize
  <1>3. IsFiniteSet(new) /\ Cardinality(new) \in Nat /\ Cardinality(new) <= Cardinality(taken)
    <2> DEFINE f == [e \in taken |-> [source |-> src.id, entry |-> e, seen |-> clock, run |-> polls]]
    <2>1. f \in Surjection(taken, new)
      BY DEF Surjection, Landed
    <2> HIDE DEF f, new
    <2> QED BY <1>2, <2>1, FS_Surjection, FS_CardinalityType
  <1>4. items' = items \cup new
    BY DEF Ingests
  <1>5. IsFiniteSet(items')
    BY <1>3, <1>4, FS_Union DEF Capped
  <1>6. ASSUME NEW i \in Ids, NEW d \in Nat, i # src.id \/ d # DayOf(clock)
        PROVE  Cardinality(OfDay(i, d)') <= DailyItemCap
    <2>1. OfDay(i, d)' = OfDay(i, d)
      BY <1>4, <1>6 DEF OfDay, ItemsOf, Landed
    <2> QED BY <2>1 DEF Capped
  <1>7. ASSUME NEW i \in Ids, NEW d \in Nat, i = src.id, d = DayOf(clock)
        PROVE  Cardinality(OfDay(i, d)') <= DailyItemCap
    <2>1. OfDay(i, d)' = OfDay(i, d) \cup new
      BY <1>4, <1>7 DEF OfDay, ItemsOf, Ingests, Landed
    <2>2. IsFiniteSet(OfDay(i, d)) /\ Cardinality(OfDay(i, d)) \in Nat
      <3>1. OfDay(i, d) \in SUBSET items
        BY DEF OfDay, ItemsOf
      <3> QED BY <3>1, FS_Subset, FS_CardinalityType DEF Capped
    <2>3. CASE Budget(src.id) = 0
      <3>1. Cardinality(taken) = 0
        BY <1>2, <2>3
      <3>2. taken = {}
        BY <1>2, <3>1, FS_EmptySet
      <3>3. new = {}
        BY <3>2 DEF Landed
      <3>4. OfDay(i, d)' = OfDay(i, d)
        BY <2>1, <3>3
      <3> QED BY <1>1, <3>4 DEF Capped
    <2>4. CASE Cardinality(OfDay(i, d)) + Budget(src.id) <= DailyItemCap
      <3> DEFINE both == OfDay(i, d) \cap new
      <3> HIDE DEF new
      <3>1. Cardinality(both) \in Nat
        <4>1. both \in SUBSET new
          OBVIOUS
        <4> QED BY <1>3, <4>1, FS_Subset, FS_CardinalityType
      <3>2. Cardinality(OfDay(i, d)') =
                Cardinality(OfDay(i, d)) + Cardinality(new) - Cardinality(both)
        BY <1>3, <2>1, <2>2, FS_Union
      <3>3. Budget(src.id) \in Nat
        BY <1>1, BudgetFits
      <3> HIDE DEF both
      <3> QED BY <1>1, <1>2, <1>3, <2>2, <2>4, <3>1, <3>2, <3>3
    <2> QED BY <1>1, <1>7, <2>3, <2>4, BudgetFits
  <1> QED BY <1>5, <1>6, <1>7

LEMMA CappedNext == Types /\ Capped /\ [Next]_vars => Capped'
  <1> SUFFICES ASSUME Types, Capped, [Next]_vars
               PROVE  Capped'
    OBVIOUS
  <1>1. Clocked'
    BY ClockedNext DEF Capped
  <1>2. CASE items' \subseteq items
    BY <1>1, <1>2, FewerItems DEF Capped
  <1>3. ASSUME NEW window \in SUBSET got, NEW taken \in Newest(Budget(src.id), window),
               Ingests(window, taken)
        PROVE  Capped'
    BY <1>1, <1>3, MoreItems DEF Capped
  <1> QED BY <1>2, <1>3, ItemSteps

\* However many runs a day sees, and however late in the night they reach a
\* source, a source gains no more items in one local day than its cap.
THEOREM CapPerDayHolds == Spec => []CapPerDay
  <1>1. Init => Capped
    <2> SUFFICES ASSUME Init PROVE Capped
      OBVIOUS
    <2>1. items = {} /\ pc = "idle"
      BY DEF Init
    <2>2. \A i \in Ids, d \in Nat : OfDay(i, d) = {}
      BY <2>1 DEF OfDay, ItemsOf
    <2> QED BY <2>1, <2>2, FS_EmptySet, LimitAssumption DEF Capped, Clocked
  <1>2. Capped => CapPerDay
    <2>1. DayOf(MaxClock) \in Nat
      BY LimitAssumption, DaysPass
    <2> QED BY <2>1 DEF Capped, CapPerDay, OfDay
  <1> QED BY <1>1, <1>2, CappedNext, TypesHold, PTL DEF Spec

(***************************************************************************)
(* Under the row it came from, not below the cutoff, not behind a 304.      *)
(***************************************************************************)

\* The copy of a row says what the row says, unless it is purged ...
Current(s) ==
    Exists(s.id) => /\ rows[s.id].feed = s.feed
                    /\ rows[s.id].cutoff = s.cutoff
                    /\ rows[s.id].validator = s.validator

\* ... or the id was given out again while the run was working from the copy.
Tied(s) == born[s.id] = polls \/ Current(s)

\* The copies a run works from.
Own ==
    /\ pc = "idle" => queue = {}
    /\ \A s, t \in queue : s.id = t.id => s = t
    /\ \A s \in queue : Tied(s)
    /\ pc \in {"ingest", "save"} => \A s \in queue : s.id # src.id
    /\ pc = "ingest" => Tied(src)

\* A step that keeps the rows, and what the run holds of them or less.
LEMMA OwnKept ==
    ASSUME Own, UNCHANGED <<rows, born, polls, src>>, queue' \subseteq queue,
           pc' = pc \/ (pc' = "idle" /\ queue' = {}) \/ pc' = "poll"
    PROVE  Own'
  BY DEF Own, Tied, Current, Exists

\* A step after which every copy is tied to its row as before.
LEMMA CopiesKept ==
    ASSUME Own, UNCHANGED <<queue, src>>,
           pc' = pc \/ (pc' = "save" /\ pc = "ingest"),
           \A s \in queue : Tied(s)', pc' = "ingest" => Tied(src)'
    PROVE  Own'
  <1>1. \A s \in queue' : Tied(s)'
    OBVIOUS
  <1>2. /\ pc' = "idle" => queue' = {}
        /\ \A s, t \in queue' : s.id = t.id => s = t
        /\ pc' \in {"ingest", "save"} => \A s \in queue' : s.id # src'.id
    BY DEF Own
  <1> QED BY <1>1, <1>2 DEF Own, Tied, Current, Exists

LEMMA OwnNext == Types /\ Own /\ [Next]_vars => Own'
  <1> SUFFICES ASSUME Types, Own, [Next]_vars
               PROVE  Own'
    OBVIOUS
  <1>0. /\ Ids \subseteq Nat /\ rows \in [Ids -> Row] /\ born \in [Ids -> 0 .. MaxRuns]
        /\ \A s \in queue : s.id \in Ids
        /\ pc \in {"ingest", "save"} => src.id \in Ids
    BY GivenFacts DEF Types, Typed, TypeOK, Sourced, Copied
  <1>1. CASE StartRun
    <2>1. /\ rows' = rows /\ pc' = "poll"
          /\ queue' = {[id |-> i, feed |-> rows[i].feed, cutoff |-> rows[i].cutoff,
                        validator |-> rows[i].validator] :
                          i \in {i \in Ids : Exists(i) /\ rows[i].enabled}}
      BY <1>1 DEF StartRun
    <2>2. \A s \in queue' : Current(s)
      BY <2>1 DEF Current
    <2>3. \A s, t \in queue' : s.id = t.id => s = t
      BY <2>1
    <2> QED BY <2>1, <2>2, <2>3 DEF Own, Tied, Current, Exists
  <1>2. CASE PollFails \/ EndRun \/ Tick \/ UNCHANGED vars
             \/ \E e \in Entries : Publish(e) \/ Withdraw(e) \/ Air(e)
    <2>1. /\ UNCHANGED <<rows, born, polls, src>> /\ queue' \subseteq queue
          /\ pc' = pc \/ (pc' = "idle" /\ queue' = {}) \/ pc' = "poll"
      <3>1. CASE PollFails
        BY <3>1 DEF PollFails
      <3>2. CASE EndRun
        BY <3>2 DEF EndRun
      <3>3. CASE UNCHANGED <<rows, born, polls, pc, run>>
        BY <3>3
      <3>4. Tick \/ UNCHANGED vars => UNCHANGED <<rows, born, polls, pc, run>>
        BY DEF Tick, vars
      <3>5. ASSUME NEW e \in Entries, Publish(e) \/ Withdraw(e) \/ Air(e)
            PROVE  UNCHANGED <<rows, born, polls, pc, run>>
        BY <3>5 DEF Publish, Withdraw, Air
      <3> QED BY <1>2, <3>1, <3>2, <3>3, <3>4, <3>5
    <2> QED BY <2>1, OwnKept
  <1>3. CASE Poll
    <2>1. NextSource \in queue
      BY <1>0, <1>3, NextSourceFacts DEF Poll
    <2>2. /\ UNCHANGED <<rows, born, polls>> /\ pc' = "ingest" /\ src' = NextSource
          /\ queue' = queue \ {NextSource}
      BY <1>3 DEF Poll
    <2> HIDE DEF NextSource
    <2> QED BY <2>1, <2>2 DEF Own, Tied, Current, Exists
  <1>9. CASE Crash \/ IngestRefused
    <2>1. pc' = "idle" /\ queue' = {}
      BY <1>9 DEF Crash, IngestRefused
    <2> QED BY <2>1 DEF Own
  <1>4. CASE Ingest
    <2>2. ASSUME NEW window \in SUBSET got, NEW taken \in SUBSET Entries, Ingests(window, taken)
          PROVE  Own'
      <3>1. /\ pc = "ingest" /\ pc' = "save" /\ UNCHANGED <<queue, src, born, polls>>
            /\ \A i \in Ids \ {src.id} : rows'[i] = rows[i]
        <4>1. CASE src.cutoff = NoCutoff /\ window # {} /\ Exists(src.id)
          <5>1. rows' = [rows EXCEPT ![src.id].cutoff = Cutoff(window)]
            BY <2>2, <4>1 DEF Ingests
          <5> QED BY <1>0, <2>2, <5>1 DEF Ingests, Row
        <4>2. CASE ~(src.cutoff = NoCutoff /\ window # {} /\ Exists(src.id))
          BY <1>0, <2>2, <4>2 DEF Ingests
        <4> QED BY <4>1, <4>2
      <3>3. \A s \in queue : Tied(s)'
        BY <1>0, <3>1 DEF Own, Tied, Current, Exists
      <3> QED BY <3>1, <3>3, CopiesKept
    <2> QED BY <1>4, <1>9, <2>2, IngestCases DEF Types, Typed
  <1>5. CASE SaveValidator
    <2>1. /\ pc = "save" /\ pc' = "poll" /\ UNCHANGED <<queue, born, polls>>
          /\ \A i \in Ids \ {src.id} : rows'[i] = rows[i]
      BY <1>0, <1>5 DEF SaveValidator, Row
    <2>3. \A s \in queue : Tied(s)'
      BY <1>0, <2>1 DEF Own, Tied, Current, Exists
    <2> QED BY <2>1, <2>3 DEF Own, Tied, Current, Exists
  <1>6. ASSUME NEW f \in Feeds, Create(f) PROVE Own'
    <2>1. /\ NewId \in Ids
          /\ rows' = [rows EXCEPT ![NewId] = Fresh(f)]
          /\ born' = [born EXCEPT ![NewId] = IF pc = "idle" THEN 0 ELSE polls]
          /\ UNCHANGED <<pc, queue, src, polls>>
      BY <1>6, Creates DEF Types
    <2>2. /\ \A j \in Ids : j # NewId => rows'[j] = rows[j] /\ born'[j] = born[j]
          /\ pc # "idle" => born'[NewId] = polls
      BY <1>0, <2>1
    <2>3. \A s \in queue : pc # "idle"
      BY DEF Own
    <2>4. \A s \in queue : Tied(s)'
      BY <1>0, <2>1, <2>2, <2>3 DEF Own, Tied, Current, Exists
    <2>5. pc' = "ingest" => Tied(src)'
      BY <1>0, <2>1, <2>2 DEF Own, Tied, Current, Exists
    <2> QED BY <2>1, <2>4, <2>5, CopiesKept
  <1>7. ASSUME NEW i \in Ids, Purge(i) PROVE Own'
    <2>1. /\ \A j \in Ids \ {i} : rows'[j] = rows[j]
          /\ ~Exists(i)'
          /\ UNCHANGED <<pc, queue, src, born, polls>>
      BY <1>0, <1>7 DEF Purge, Exists, NoRow
    <2>2. \A j \in Ids : Exists(j)' => Exists(j) /\ rows'[j] = rows[j]
      BY <2>1 DEF Exists
    <2>3. \A s \in queue : Tied(s)'
      BY <1>0, <2>1, <2>2 DEF Own, Tied, Current
    <2>4. pc' = "ingest" => Tied(src)'
      BY <1>0, <2>1, <2>2 DEF Own, Tied, Current, Exists
    <2> QED BY <2>1, <2>3, <2>4, CopiesKept
  <1>8. ASSUME NEW i \in Ids, SetEnabled(i) PROVE Own'
    <2>1. /\ UNCHANGED <<pc, queue, src, born, polls>>
          /\ \A j \in Ids : /\ rows'[j].feed = rows[j].feed /\ rows'[j].cutoff = rows[j].cutoff
                             /\ rows'[j].validator = rows[j].validator
      BY <1>0, <1>8 DEF SetEnabled, Row
    <2>2. \A s \in queue : Tied(s)'
      BY <1>0, <2>1 DEF Own, Tied, Current, Exists
    <2>3. pc' = "ingest" => Tied(src)'
      BY <1>0, <2>1 DEF Own, Tied, Current, Exists
    <2> QED BY <2>1, <2>2, <2>3, CopiesKept
  <1> QED BY <1>1, <1>2, <1>3, <1>4, <1>5, <1>6, <1>7, <1>8, <1>9 DEF Next

LEMMA OwnHolds == Spec => []Own
  <1>1. Init => Own
    BY DEF Init, Own
  <1> QED BY <1>1, OwnNext, TypesHold, PTL DEF Spec

\* Every item has its row, and neither the row nor the item is younger than the
\* run that stored the item.
Rooted ==
    /\ \A i \in Ids : born[i] <= polls
    /\ \A it \in items : /\ Exists(it.source)
                         /\ born[it.source] <= it.run /\ it.run <= polls

\* The steps that touch what is stored, one by one.
LEMMA StoreSteps ==
    ASSUME Types, [Next]_vars
    PROVE  \/ /\ UNCHANGED <<rows, items, catalogue, letgo, born>>
              /\ polls' \in {polls, polls + 1}
              /\ pc' = "save" => pc = "save" /\ UNCHANGED <<src, validator, polls>>
           \/ SaveValidator
           \/ \E i \in Ids : SetEnabled(i)
           \/ \E i \in Ids : Purge(i)
           \/ \E f \in Feeds : Create(f)
           \/ \E window \in SUBSET got, taken \in SUBSET Entries :
                 /\ window \in Window(src, NewTo(src.id, got))
                 /\ taken \subseteq window /\ window \subseteq NewTo(src.id, got)
                 /\ src.cutoff # NoCutoff =>
                        \A e \in window : Pub[e] = Undated \/ Pub[e] >= src.cutoff
                 /\ Ingests(window, taken)
  <1>1. CASE Ingest
    BY <1>1, IngestCases DEF IngestRefused, Types, Typed
  <1>2. CASE StartRun \/ PollFails \/ Poll \/ EndRun \/ Crash
    BY <1>2 DEF StartRun, PollFails, Poll, EndRun, Crash
  <1>3. CASE Tick \/ UNCHANGED vars
    BY <1>3 DEF Tick, vars
  <1>4. CASE \E e \in Entries : Publish(e) \/ Withdraw(e) \/ Air(e)
    BY <1>4 DEF Publish, Withdraw, Air
  <1> QED BY <1>1, <1>2, <1>3, <1>4 DEF Next

\* What is served and what was fetched is of the feed that was asked.
Fetched ==
    /\ \A f \in Feeds : \A e \in served[f] : FeedOf[e] = f
    /\ pc = "ingest" => \A e \in got : FeedOf[e] = src.feed

LEMMA FetchedNext == Types /\ Fetched /\ [Next]_vars => Fetched'
  <1> SUFFICES ASSUME Types, Fetched, [Next]_vars
               PROVE  Fetched'
    OBVIOUS
  <1>1. CASE Poll
    <2>1. NextSource \in queue
      BY <1>1, GivenFacts, NextSourceFacts DEF Poll, Types, Copied
    <2>2. /\ served' = served /\ src' = NextSource /\ NextSource.feed \in Feeds
          /\ got' \subseteq served[NextSource.feed]
      BY <1>1, <2>1 DEF Poll, Enriched, Types, Copied
    <2> QED BY <2>2 DEF Fetched
  <1>2. CASE UNCHANGED served /\ (pc' # "ingest" \/ UNCHANGED <<pc, got, src>>)
    BY <1>2 DEF Fetched
  <1>3. ASSUME NEW e \in Entries, Publish(e) \/ Withdraw(e) PROVE Fetched'
    <2>1. \A f \in Feeds : served'[f] \subseteq served[f] \cup {x \in {e} : FeedOf[x] = f}
      BY <1>3, FeedAssumption DEF Publish, Withdraw, Types, Typed, TypeOK
    <2>2. UNCHANGED <<pc, got, src>>
      BY <1>3 DEF Publish, Withdraw
    <2> QED BY <2>1, <2>2 DEF Fetched
  <1>4. CASE StartRun \/ PollFails \/ SaveValidator \/ EndRun \/ Crash \/ Tick \/ UNCHANGED vars
    BY <1>2, <1>4 DEF StartRun, PollFails, SaveValidator, EndRun, Crash, Tick, vars
  <1>5. CASE Ingest
    BY <1>2, <1>5 DEF Ingest
  <1>6. ASSUME NEW f \in Feeds, Create(f) PROVE Fetched'
    BY <1>2, <1>6 DEF Create
  <1>7. ASSUME NEW i \in Ids, Purge(i) \/ SetEnabled(i) PROVE Fetched'
    BY <1>2, <1>7 DEF Purge, SetEnabled
  <1>8. ASSUME NEW e \in Entries, Air(e) PROVE Fetched'
    BY <1>2, <1>8 DEF Air
  <1> QED BY <1>1, <1>3, <1>4, <1>5, <1>6, <1>7, <1>8 DEF Next

\* What SaveValidator, SetEnabled and Purge do to the rows.
LEMMA RowEdits ==
    ASSUME Types, NEW i \in Ids
    PROVE  /\ SaveValidator =>
                 /\ \A j \in Ids : /\ rows'[j].feed = rows[j].feed
                                    /\ rows'[j].cutoff = rows[j].cutoff
                                    /\ rows'[j].validator =
                                           IF j = src.id /\ Exists(j) THEN validator
                                           ELSE rows[j].validator
                 /\ UNCHANGED <<items, letgo, catalogue, born, polls>>
                 /\ pc = "save" /\ pc' = "poll"
           /\ SetEnabled(i) =>
                 /\ \A j \in Ids : /\ rows'[j].feed = rows[j].feed
                                    /\ rows'[j].cutoff = rows[j].cutoff
                                    /\ rows'[j].validator = rows[j].validator
                 /\ UNCHANGED <<items, letgo, catalogue, born, polls, pc, src, validator>>
           /\ Purge(i) =>
                 /\ \A j \in Ids \ {i} : rows'[j] = rows[j]
                 /\ ~Exists(i)'
                 /\ items' = {it \in items : it.source # i}
                 /\ UNCHANGED <<letgo, catalogue, born, polls, pc, src, validator>>
  <1>1. rows \in [Ids -> Row]
    BY DEF Types, Typed, TypeOK
  <1>2. SaveValidator =>
            /\ \A j \in Ids : /\ rows'[j].feed = rows[j].feed
                               /\ rows'[j].cutoff = rows[j].cutoff
                               /\ rows'[j].validator =
                                      IF j = src.id /\ Exists(j) THEN validator
                                      ELSE rows[j].validator
            /\ UNCHANGED <<items, letgo, catalogue, born, polls>>
            /\ pc = "save" /\ pc' = "poll"
    BY <1>1 DEF SaveValidator, Row
  <1>3. SetEnabled(i) =>
            /\ \A j \in Ids : /\ rows'[j].feed = rows[j].feed
                               /\ rows'[j].cutoff = rows[j].cutoff
                               /\ rows'[j].validator = rows[j].validator
            /\ UNCHANGED <<items, letgo, catalogue, born, polls, pc, src, validator>>
    BY <1>1 DEF SetEnabled, Row
  <1>4. Purge(i) =>
            /\ \A j \in Ids \ {i} : rows'[j] = rows[j]
            /\ ~Exists(i)'
            /\ items' = {it \in items : it.source # i}
            /\ UNCHANGED <<letgo, catalogue, born, polls, pc, src, validator>>
    BY <1>1 DEF Purge, Exists, NoRow
  <1> QED BY <1>2, <1>3, <1>4

\* What an ingest does to the rows.
LEMMA IngestEdits ==
    ASSUME Types, NEW window \in SUBSET got, NEW taken \in SUBSET Entries, Ingests(window, taken)
    PROVE  /\ src.id \in Ids /\ window \in SUBSET Entries
           /\ \A j \in Ids : /\ rows'[j].feed = rows[j].feed
                              /\ rows'[j].validator = rows[j].validator
                              /\ rows'[j].cutoff =
                                     IF /\ j = src.id /\ src.cutoff = NoCutoff
                                        /\ window # {} /\ Exists(j)
                                     THEN Cutoff(window) ELSE rows[j].cutoff
  <1>1. src.id \in Ids /\ rows \in [Ids -> Row] /\ window \in SUBSET Entries
    BY DEF Types, Sourced, Typed, TypeOK, Ingests
  <1>2. CASE src.cutoff = NoCutoff /\ window # {} /\ Exists(src.id)
    <2>1. rows' = [rows EXCEPT ![src.id].cutoff = Cutoff(window)]
      BY <1>2 DEF Ingests
    <2> QED BY <1>1, <1>2, <2>1 DEF Row
  <1>3. CASE ~(src.cutoff = NoCutoff /\ window # {} /\ Exists(src.id))
    BY <1>1, <1>3 DEF Ingests
  <1> QED BY <1>2, <1>3

LEMMA RootedNext == Types /\ Rooted /\ [Next]_vars => Rooted'
  <1> SUFFICES ASSUME Types, Rooted, [Next]_vars
               PROVE  Rooted'
    OBVIOUS
  <1>0. /\ polls \in Nat /\ Ids \subseteq Nat /\ rows \in [Ids -> Row]
        /\ born \in [Ids -> Nat]
        /\ \A it \in items : it.source \in Ids /\ it.run \in Nat
    BY LimitAssumption, GivenFacts DEF Types, Typed, TypeOK
  <1>1. CASE UNCHANGED <<rows, items, born>> /\ polls' \in {polls, polls + 1}
    BY <1>0, <1>1 DEF Rooted, Exists
  <1>2. ASSUME UNCHANGED <<items, born, polls>>, \A j \in Ids : rows'[j].feed = rows[j].feed
        PROVE  Rooted'
    BY <1>0, <1>2 DEF Rooted, Exists
  <1>3. SaveValidator => Rooted'
    BY <1>2, RowEdits DEF SaveValidator
  <1>4. ASSUME NEW i \in Ids, SetEnabled(i) PROVE Rooted'
    BY <1>2, <1>4, RowEdits DEF SetEnabled
  <1>5. ASSUME NEW i \in Ids, Purge(i) PROVE Rooted'
    BY <1>0, <1>5, RowEdits DEF Rooted, Exists
  <1>6. ASSUME NEW f \in Feeds, Create(f) PROVE Rooted'
    <2>1. /\ NewId \in Ids /\ (\A i \in Ids : Exists(i) => i < NewId)
          /\ \A j \in Ids : j # NewId => rows'[j] = rows[j] /\ born'[j] = born[j]
          /\ born'[NewId] = IF pc = "idle" THEN 0 ELSE polls
          /\ UNCHANGED <<items, polls>>
      BY <1>0, <1>6, Creates DEF Types
    <2>2. \A it \in items : it.source # NewId
      BY <1>0, <2>1 DEF Rooted
    <2>3. ASSUME NEW j \in Ids PROVE born'[j] <= polls'
      BY <1>0, <2>1 DEF Rooted
    <2> QED BY <1>0, <2>1, <2>2, <2>3 DEF Rooted, Exists
  <1>7. ASSUME NEW window \in SUBSET got, NEW taken \in SUBSET Entries, Ingests(window, taken)
        PROVE  Rooted'
    <2>1. /\ src.id \in Ids /\ \A j \in Ids : rows'[j].feed = rows[j].feed
          /\ UNCHANGED <<born, polls>> /\ items' = items \cup Landed(taken)
          /\ taken # {} => Exists(src.id)
      BY <1>7, IngestEdits DEF Ingests
    <2>2. \A it \in Landed(taken) : it.source = src.id /\ it.run = polls /\ Exists(src.id)
      BY <2>1 DEF Landed
    <2>3. \A it \in items' : it \in items \/ it \in Landed(taken)
      BY <2>1
    <2>4. born[src.id] <= polls /\ polls <= polls
      BY <1>0, <2>1 DEF Rooted
    <2>5. ASSUME NEW it \in items'
          PROVE  it.source \in Ids /\ Exists(it.source) /\ born[it.source] <= it.run /\ it.run <= polls
      <3>1. CASE it \in items
        BY <1>0, <3>1 DEF Rooted
      <3>2. CASE it \in Landed(taken)
        BY <2>1, <2>2, <2>4, <3>2
      <3> QED BY <2>3, <3>1, <3>2
    <2> QED BY <2>1, <2>5 DEF Rooted, Exists
  <1> QED BY <1>1, <1>3, <1>4, <1>5, <1>6, <1>7, StoreSteps

LEMMA RootedHolds == Spec => []Rooted
  <1>1. Init => Rooted
    BY DEF Init, Rooted
  <1> QED BY <1>1, RootedNext, TypesHold, PTL DEF Spec

\* A new row begins with no items, and no other row changes.
LEMMA NewRow ==
    ASSUME Types, Rooted, NEW f \in Feeds, Create(f)
    PROVE  /\ items' = items
           /\ \A it \in items : rows'[it.source] = rows[it.source]
           /\ \A it \in items : Inherited(it)' <=> Inherited(it)
  <1>0. /\ Ids \subseteq Nat /\ rows \in [Ids -> Row] /\ born \in [Ids -> 0 .. MaxRuns]
        /\ \A it \in items : it.source \in Ids
    BY GivenFacts DEF Types, Typed, TypeOK
  <1>1. /\ NewId \in Ids /\ (\A i \in Ids : Exists(i) => i < NewId)
        /\ \A j \in Ids : j # NewId => rows'[j] = rows[j] /\ born'[j] = born[j]
        /\ items' = items
    BY <1>0, Creates DEF Types
  <1>2. \A it \in items : it.source # NewId
    BY <1>0, <1>1 DEF Rooted
  <1> QED BY <1>0, <1>1, <1>2 DEF Inherited

\* What is stored under a row by a run it is younger than, it inherits; else
\* the run works from the row as it is.
LEMMA Heirs ==
    ASSUME Types, Own, Rooted, NEW window \in SUBSET got, NEW taken \in SUBSET Entries,
           Ingests(window, taken)
    PROVE  /\ \A it \in items' : it \in items \/ it \in Landed(taken)
           /\ \A it \in Landed(taken) : it.source = src.id /\ it.entry \in taken
           /\ \A it \in items' : it.source \in Ids
           /\ \A it \in items : Inherited(it)' <=> Inherited(it)
           /\ \/ \A it \in items' : it.source = src.id => Inherited(it)'
              \/ Current(src)
  <1>0. /\ src.id \in Ids /\ Ids \subseteq Nat /\ born \in [Ids -> Nat] /\ polls \in Nat
        /\ \A it \in items : it.source \in Ids /\ it.run \in Nat
    <2>1. src.id \in Ids
      BY IngestEdits
    <2> QED BY <2>1, LimitAssumption, GivenFacts DEF Types, Typed, TypeOK
  <1>1. /\ items' = items \cup Landed(taken) /\ UNCHANGED <<born, polls>>
        /\ Tied(src)
    BY DEF Ingests, Own
  <1>2. \A it \in Landed(taken) : it.source = src.id /\ it.entry \in taken /\ it.run = polls
    BY DEF Landed
  <1>3. CASE born[src.id] = polls
    <2>1. ASSUME NEW it \in items', it.source = src.id PROVE it.run = polls
      <3>1. CASE it \in items
        BY <1>0, <1>3, <2>1, <3>1 DEF Rooted
      <3>2. CASE it \in Landed(taken)
        BY <1>2, <3>2
      <3> QED BY <1>1, <3>1, <3>2
    <2>2. \A it \in items' : it.source = src.id => Inherited(it)'
      BY <1>1, <1>3, <2>1 DEF Inherited
    <2> QED BY <1>0, <1>1, <1>2, <2>2 DEF Inherited
  <1>4. CASE Current(src)
    BY <1>0, <1>1, <1>2, <1>4 DEF Inherited
  <1> QED BY <1>1, <1>3, <1>4 DEF Tied

Filed == Fetched /\ ItemsOfTheirFeed

LEMMA FiledNext == Types /\ Own /\ Rooted /\ Filed /\ [Next]_vars => Filed'
  <1> SUFFICES ASSUME Types, Own, Rooted, Filed, [Next]_vars
               PROVE  ItemsOfTheirFeed'
    BY FetchedNext DEF Filed
  <1>0. \A it \in items : /\ it.source \in Ids
                          /\ FeedOf[it.entry] = rows[it.source].feed \/ Inherited(it)
    BY DEF Filed, ItemsOfTheirFeed, Types, Typed, TypeOK
  <1>1. CASE UNCHANGED <<rows, items, born>>
    BY <1>0, <1>1 DEF ItemsOfTheirFeed, Inherited
  <1>2. CASE SaveValidator \/ \E i \in Ids : SetEnabled(i)
    <2>1. UNCHANGED <<items, born>> /\ \A j \in Ids : rows'[j].feed = rows[j].feed
      <3>1. CASE SaveValidator
        BY <3>1, RowEdits DEF SaveValidator
      <3>2. ASSUME NEW i \in Ids, SetEnabled(i)
            PROVE  UNCHANGED <<items, born>> /\ \A j \in Ids : rows'[j].feed = rows[j].feed
        BY <3>2, RowEdits
      <3> QED BY <1>2, <3>1, <3>2
    <2> QED BY <1>0, <2>1 DEF ItemsOfTheirFeed, Inherited
  <1>3. ASSUME NEW i \in Ids, Purge(i) PROVE ItemsOfTheirFeed'
    BY <1>0, <1>3, RowEdits DEF ItemsOfTheirFeed, Inherited
  <1>4. ASSUME NEW f \in Feeds, Create(f) PROVE ItemsOfTheirFeed'
    BY <1>0, <1>4, NewRow DEF ItemsOfTheirFeed
  <1>5. ASSUME NEW window \in SUBSET got, NEW taken \in SUBSET Entries,
               taken \subseteq window, Ingests(window, taken)
        PROVE  ItemsOfTheirFeed'
    <2>1. src.id \in Ids /\ \A j \in Ids : rows'[j].feed = rows[j].feed
      BY <1>5, IngestEdits
    <2>2. /\ \A it \in items' : it.source \in Ids /\ (it \in items \/ it \in Landed(taken))
          /\ \A it \in Landed(taken) : it.source = src.id /\ it.entry \in taken
          /\ \A it \in items : Inherited(it)' <=> Inherited(it)
          /\ \/ \A it \in items' : it.source = src.id => Inherited(it)'
             \/ Current(src)
      BY <1>5, Heirs
    <2>3. ASSUME Current(src), NEW e \in taken PROVE FeedOf[e] = rows[src.id].feed
      BY <1>5, <2>3 DEF Ingests, Current, Filed, Fetched
    <2>4. ASSUME NEW it \in items' PROVE FeedOf[it.entry] = rows'[it.source].feed \/ Inherited(it)'
      <3>1. CASE it \in items
        BY <1>0, <2>1, <2>2, <3>1
      <3>2. CASE it \in Landed(taken) /\ Current(src)
        BY <2>1, <2>2, <2>3, <3>2
      <3>3. CASE it \in Landed(taken) /\ ~Current(src)
        BY <2>2, <3>3
      <3> QED BY <2>2, <3>1, <3>2, <3>3
    <2> QED BY <2>4 DEF ItemsOfTheirFeed
  <1> QED BY <1>1, <1>2, <1>3, <1>4, <1>5, StoreSteps

LEMMA FiledHolds == Spec => []Filed
  <1>1. Init => Filed
    BY DEF Init, Filed, Fetched, ItemsOfTheirFeed
  <1> QED BY <1>1, FiledNext, TypesHold, OwnHolds, RootedHolds, PTL DEF Spec

\* What is stored under a row came from the feed of that row, whatever is purged
\* and added, and although the id of the newest row is given out again; but for
\* what one run stores under a row that was made while it polled.
THEOREM ItemsOfTheirFeedHolds == Spec => []ItemsOfTheirFeed
  <1>1. Filed => ItemsOfTheirFeed
    BY DEF Filed
  <1> QED BY <1>1, FiledHolds, PTL

LEMMA NothingOlderNext == Types /\ Own /\ Rooted /\ NothingOlder /\ [Next]_vars => NothingOlder'
  <1> SUFFICES ASSUME Types, Own, Rooted, NothingOlder, [Next]_vars
               PROVE  NothingOlder'
    OBVIOUS
  <1> DEFINE Inside(e, cutoff) ==
               cutoff # NoCutoff /\ (Pub[e] # Undated => Pub[e] >= cutoff)
  <1>0. \A it \in items : it.source \in Ids
    BY DEF Types, Typed, TypeOK
  <1>7. \A it \in items : Inherited(it) \/ Inside(it.entry, rows[it.source].cutoff)
    BY DEF NothingOlder
  <1>6. (\A it \in items' : Inherited(it)' \/ Inside(it.entry, rows'[it.source].cutoff))
            => NothingOlder'
    BY DEF NothingOlder
  <1> HIDE DEF Inside
  <1>1. CASE UNCHANGED <<rows, items, born>>
    BY <1>1, <1>6, <1>7 DEF Inherited
  <1>2. CASE SaveValidator \/ \E i \in Ids : SetEnabled(i)
    <2>1. UNCHANGED <<items, born>> /\ \A j \in Ids : rows'[j].cutoff = rows[j].cutoff
      <3>1. CASE SaveValidator
        BY <3>1, RowEdits DEF SaveValidator
      <3>2. ASSUME NEW i \in Ids, SetEnabled(i)
            PROVE  UNCHANGED <<items, born>> /\ \A j \in Ids : rows'[j].cutoff = rows[j].cutoff
        BY <3>2, RowEdits
      <3> QED BY <1>2, <3>1, <3>2
    <2>2. \A it \in items : Inherited(it)' <=> Inherited(it)
      BY <2>1 DEF Inherited
    <2>3. \A it \in items : rows'[it.source].cutoff = rows[it.source].cutoff
      BY <1>0, <2>1
    <2>4. ASSUME NEW it \in items'
          PROVE  Inherited(it)' \/ Inside(it.entry, rows'[it.source].cutoff)
      BY <1>7, <2>1, <2>2, <2>3
    <2> QED BY <1>6, <2>4
  <1>3. ASSUME NEW i \in Ids, Purge(i) PROVE NothingOlder'
    <2>1. \A it \in items' : it \in items /\ it.source # i
      BY <1>3, RowEdits
    <2>2. (\A j \in Ids \ {i} : rows'[j] = rows[j]) /\ born' = born
      BY <1>3, RowEdits
    <2>3. \A it \in items : Inherited(it)' <=> Inherited(it)
      BY <2>2 DEF Inherited
    <2>4. \A it \in items' : rows'[it.source] = rows[it.source]
      BY <1>0, <2>1, <2>2
    <2>5. ASSUME NEW it \in items'
          PROVE  Inherited(it)' \/ Inside(it.entry, rows'[it.source].cutoff)
      BY <1>7, <2>1, <2>3, <2>4
    <2> QED BY <1>6, <2>5
  <1>4. ASSUME NEW f \in Feeds, Create(f) PROVE NothingOlder'
    <2>1. /\ items' = items
          /\ \A it \in items : rows'[it.source] = rows[it.source]
          /\ \A it \in items : Inherited(it)' <=> Inherited(it)
      BY <1>4, NewRow
    <2>2. ASSUME NEW it \in items'
          PROVE  Inherited(it)' \/ Inside(it.entry, rows'[it.source].cutoff)
      <3>1. it \in items
        BY <2>1
      <3>2. rows'[it.source] = rows[it.source] /\ (Inherited(it)' <=> Inherited(it))
        BY <2>1, <3>1
      <3>3. Inherited(it) \/ Inside(it.entry, rows[it.source].cutoff)
        BY <1>7, <3>1
      <3> QED BY <3>2, <3>3
    <2> QED BY <1>6, <2>2
  <1>5. ASSUME NEW window \in SUBSET got, NEW taken \in SUBSET Entries, taken \subseteq window,
               src.cutoff # NoCutoff =>
                   \A e \in window : Pub[e] = Undated \/ Pub[e] >= src.cutoff,
               Ingests(window, taken)
        PROVE  NothingOlder'
    <2>1. /\ src.id \in Ids /\ window \in SUBSET Entries
          /\ \A j \in Ids : rows'[j].cutoff =
                 IF j = src.id /\ src.cutoff = NoCutoff /\ window # {} /\ Exists(j)
                 THEN Cutoff(window) ELSE rows[j].cutoff
      BY <1>5, IngestEdits
    <2>2. /\ \A it \in items' : it.source \in Ids /\ (it \in items \/ it \in Landed(taken))
          /\ \A it \in Landed(taken) : it.source = src.id /\ it.entry \in taken
          /\ \A it \in items : Inherited(it)' <=> Inherited(it)
          /\ \/ \A it \in items' : it.source = src.id => Inherited(it)'
             \/ Current(src)
      BY <1>5, Heirs
    <2>3. ASSUME NEW it \in items, it.source # src.id
          PROVE  Inherited(it)' \/ Inside(it.entry, rows'[it.source].cutoff)
      <3>1. rows'[it.source].cutoff = rows[it.source].cutoff
        BY <1>0, <2>1, <2>3
      <3>2. Inherited(it)' <=> Inherited(it)
        BY <2>2
      <3> QED BY <1>7, <3>1, <3>2
    <2>4. ASSUME Current(src), NEW it \in items, it.source = src.id
          PROVE  Inherited(it)' \/ Inside(it.entry, rows'[it.source].cutoff)
      <3>1. CASE Inherited(it)
        BY <2>2, <3>1
      <3>2. CASE ~Inherited(it)
        <4>1. Inside(it.entry, rows[src.id].cutoff) /\ rows[src.id].cutoff # NoCutoff
          BY <1>7, <2>4, <3>2 DEF Inside
        <4>2. Exists(src.id)
          BY <2>4 DEF Rooted
        <4>3. src.cutoff # NoCutoff
          BY <2>4, <4>1, <4>2 DEF Current
        <4> QED BY <2>1, <2>4, <4>1, <4>3
      <3> QED BY <3>1, <3>2
    <2>5. ASSUME Current(src), NEW e \in taken PROVE Inside(e, rows'[src.id].cutoff)
      <3>1. e \in window /\ window # {} /\ Exists(src.id)
        BY <1>5 DEF Ingests
      <3>2. CASE src.cutoff = NoCutoff
        <4>1. rows'[src.id].cutoff = Cutoff(window)
          BY <2>1, <3>1, <3>2
        <4>2. clock \in Nat
          BY LimitAssumption DEF Types, Typed, TypeOK
        <4>3. Cutoff(window) \in Nat /\ (Pub[e] # Undated => Pub[e] >= Cutoff(window))
          BY <2>1, <3>1, <4>2, CutoffIsNat
        <4> QED BY <4>1, <4>3 DEF Inside, NoCutoff
      <3>3. CASE src.cutoff # NoCutoff
        <4>1. rows'[src.id].cutoff = src.cutoff
          BY <2>1, <2>5, <3>1, <3>3 DEF Current
        <4> QED BY <1>5, <3>1, <3>3, <4>1 DEF Inside
      <3> QED BY <3>2, <3>3
    <2>6. ASSUME NEW it \in items'
          PROVE  Inherited(it)' \/ Inside(it.entry, rows'[it.source].cutoff)
      <3>1. CASE Current(src)
        BY <2>2, <2>3, <2>4, <2>5, <3>1
      <3>2. CASE ~Current(src)
        BY <2>2, <2>3, <3>2
      <3> QED BY <3>1, <3>2
    <2> QED BY <1>6, <2>6
  <1> QED BY <1>1, <1>2, <1>3, <1>4, <1>5, StoreSteps

\* Nothing dated before the cutoff is ever taken, and a source that has items
\* has its cutoff: the two are stored together; but for what a row inherits from
\* the run that was polling when it was made.
THEOREM NothingOlderHolds == Spec => []NothingOlder
  <1>1. Init => NothingOlder
    BY DEF Init, NothingOlder
  <1> QED BY <1>1, NothingOlderNext, TypesHold, OwnHolds, RootedHolds, PTL DEF Spec

EntriesOf(i) == {it.entry : it \in ItemsOf(i)}

Covers(v, i) == v \subseteq EntriesOf(i) \cup letgo[i]

\* A row that no run was polling beside when it was made.
Plain(i) == Exists(i) /\ born[i] = 0

\* Also what is about to be saved covers only what was stored or let go.
Covered ==
    /\ \A i \in Ids : Plain(i) => Covers(rows[i].validator, i)
    /\ pc = "save" /\ Plain(src.id) => Covers(validator, src.id)

LEMMA CoveredNext == Types /\ Own /\ Covered /\ [Next]_vars => Covered'
  <1> SUFFICES ASSUME Types, Own, Covered, [Next]_vars
               PROVE  Covered'
    OBVIOUS
  <1>0. rows \in [Ids -> Row] /\ letgo \in [Ids -> SUBSET Entries]
        /\ (pc \in {"ingest", "save"} => src.id \in Ids)
        /\ born \in [Ids -> 0 .. MaxRuns]
    BY DEF Types, Typed, TypeOK, Sourced
  <1>1. CASE /\ UNCHANGED <<rows, items, letgo, born>>
             /\ pc' = "save" => pc = "save" /\ UNCHANGED <<src, validator>>
    <2>1. \A v, i : Covers(v, i) => v \subseteq (EntriesOf(i) \cup letgo[i])'
      BY <1>1 DEF Covers, EntriesOf, ItemsOf
    <2>2. ASSUME NEW i \in Ids, Plain(i)' PROVE Covers(rows[i].validator, i)'
      BY <1>1, <2>1, <2>2 DEF Covered, Covers, Plain, Exists
    <2>3. ASSUME pc' = "save", Plain(src.id)' PROVE Covers(validator, src.id)'
      BY <1>1, <2>1, <2>3 DEF Covered, Covers, Plain, Exists
    <2> QED BY <2>2, <2>3 DEF Covered
  <1>2. CASE SaveValidator
    <2>1. /\ \A j \in Ids : /\ rows'[j].feed = rows[j].feed
                             /\ rows'[j].validator =
                                    IF j = src.id /\ Exists(j) THEN validator
                                    ELSE rows[j].validator
          /\ UNCHANGED <<items, letgo, catalogue, born, polls>>
          /\ pc = "save" /\ pc' = "poll" /\ src.id \in Ids
      BY <1>0, <1>2, RowEdits DEF SaveValidator
    <2>2. ASSUME NEW i \in Ids, Plain(i)' PROVE Covers(rows[i].validator, i)'
      <3>1. Plain(i) /\ Covers(rows'[i].validator, i)
        BY <2>1, <2>2 DEF Covered, Plain, Exists
      <3> QED BY <2>1, <3>1 DEF Covers, EntriesOf, ItemsOf
    <2> QED BY <2>1, <2>2 DEF Covered
  <1>3. ASSUME NEW i \in Ids, SetEnabled(i) PROVE Covered'
    <2>1. /\ \A j \in Ids : rows'[j].feed = rows[j].feed /\ rows'[j].validator = rows[j].validator
          /\ UNCHANGED <<items, letgo, born, pc, src, validator>>
      BY <1>3, RowEdits
    <2>2. ASSUME NEW j \in Ids, Plain(j)' PROVE Covers(rows[j].validator, j)'
      <3>1. Covers(rows'[j].validator, j)
        BY <2>1, <2>2 DEF Covered, Plain, Exists
      <3> QED BY <2>1, <3>1 DEF Covers, EntriesOf, ItemsOf
    <2>3. ASSUME pc' = "save", Plain(src.id)' PROVE Covers(validator, src.id)'
      <3>1. Covers(validator, src.id)
        BY <1>0, <2>1, <2>3 DEF Covered, Plain, Exists
      <3> QED BY <2>1, <3>1 DEF Covers, EntriesOf, ItemsOf
    <2> QED BY <2>2, <2>3 DEF Covered
  <1>4. ASSUME NEW i \in Ids, Purge(i) PROVE Covered'
    <2>1. /\ \A j \in Ids \ {i} : rows'[j] = rows[j]
          /\ ~Exists(i)' /\ items' = {it \in items : it.source # i}
          /\ UNCHANGED <<letgo, born, pc, src, validator>>
      BY <1>4, RowEdits
    <2>2. ASSUME NEW j \in Ids, j # i
          PROVE  /\ EntriesOf(j)' = EntriesOf(j) /\ rows'[j] = rows[j] /\ letgo' = letgo
      BY <2>1, <2>2 DEF EntriesOf, ItemsOf
    <2>3. ASSUME NEW j \in Ids, Plain(j)' PROVE Covers(rows[j].validator, j)'
      <3>1. j # i /\ Covers(rows[j].validator, j)
        BY <2>1, <2>2, <2>3 DEF Covered, Plain, Exists
      <3> QED BY <2>2, <3>1 DEF Covers
    <2>4. ASSUME pc' = "save", Plain(src.id)' PROVE Covers(validator, src.id)'
      <3>1. src.id # i /\ src.id \in Ids
        BY <1>0, <2>1, <2>4 DEF Plain, Exists
      <3>2. Covers(validator, src.id)
        BY <2>1, <2>2, <2>4, <3>1 DEF Covered, Plain, Exists
      <3>3. EntriesOf(src.id)' = EntriesOf(src.id)
        BY <2>1, <3>1 DEF EntriesOf, ItemsOf
      <3> QED BY <2>1, <3>2, <3>3 DEF Covers
    <2> QED BY <2>3, <2>4 DEF Covered
  <1>5. ASSUME NEW f \in Feeds, Create(f) PROVE Covered'
    <2>1. /\ NewId \in Ids
          /\ rows' = [rows EXCEPT ![NewId] = Fresh(f)] /\ letgo' = [letgo EXCEPT ![NewId] = {}]
          /\ born' = [born EXCEPT ![NewId] = IF pc = "idle" THEN 0 ELSE polls]
          /\ UNCHANGED <<items, pc, src, validator>>
      BY <1>5, Creates DEF Types
    <2>2. /\ rows'[NewId].validator = {}
          /\ \A j \in Ids : j # NewId =>
                rows'[j] = rows[j] /\ letgo'[j] = letgo[j] /\ born'[j] = born[j]
          /\ pc # "idle" => born'[NewId] # 0
      BY <1>0, <2>1, LimitAssumption DEF Fresh, Types, Counted
    <2>3. ASSUME NEW j \in Ids, Plain(j)' PROVE Covers(rows[j].validator, j)'
      <3>1. CASE j = NewId
        BY <2>2, <3>1 DEF Covers
      <3>2. CASE j # NewId
        <4>1. Covers(rows[j].validator, j)
          BY <2>2, <2>3, <3>2 DEF Covered, Plain, Exists
        <4> QED BY <2>1, <2>2, <3>2, <4>1 DEF Covers, EntriesOf, ItemsOf
      <3> QED BY <3>1, <3>2
    <2>4. ASSUME pc' = "save", Plain(src.id)' PROVE Covers(validator, src.id)'
      <3>1. src.id \in Ids /\ src.id # NewId
        BY <1>0, <2>1, <2>2, <2>4 DEF Plain
      <3>2. Covers(validator, src.id)
        BY <2>1, <2>2, <2>4, <3>1 DEF Covered, Plain, Exists
      <3> QED BY <2>1, <2>2, <3>1, <3>2 DEF Covers, EntriesOf, ItemsOf
    <2> QED BY <2>3, <2>4 DEF Covered
  <1>6. ASSUME NEW window \in SUBSET got, NEW taken \in SUBSET Entries, Ingests(window, taken)
        PROVE  Covered'
    <2>1. /\ src.id \in Ids
          /\ \A j \in Ids : rows'[j].feed = rows[j].feed /\ rows'[j].validator = rows[j].validator
      BY <1>6, IngestEdits
    <2>2. /\ items' = items \cup Landed(taken)
          /\ letgo' = [letgo EXCEPT ![src.id] =
                           @ \cup (got \ taken) \cup
                           IF validator = src.validator THEN {} ELSE validator \ got]
          /\ pc = "ingest" /\ UNCHANGED <<src, validator, born>>
      BY <1>6 DEF Ingests
    <2>3. \A j : EntriesOf(j) \subseteq EntriesOf(j)'
      BY <2>2 DEF EntriesOf, ItemsOf
    <2>4. taken \subseteq EntriesOf(src.id)'
      <3>1. ASSUME NEW e \in taken PROVE e \in EntriesOf(src.id)'
        <4> DEFINE it == [source |-> src.id, entry |-> e, seen |-> clock, run |-> polls]
        <4>1. it \in items' /\ it.source = src.id /\ it.entry = e
          BY <2>2 DEF Landed
        <4> HIDE DEF it
        <4> QED BY <2>2, <4>1 DEF EntriesOf, ItemsOf
      <3> QED BY <3>1
    <2>5. /\ \A j \in Ids : letgo[j] \subseteq letgo'[j]
          /\ got \ taken \subseteq letgo'[src.id]
          /\ validator # src.validator => validator \ got \subseteq letgo'[src.id]
      BY <1>0, <2>1, <2>2
    <2>6. ASSUME NEW j \in Ids, Plain(j)' PROVE Covers(rows[j].validator, j)'
      <3>1. Covers(rows'[j].validator, j)
        BY <2>1, <2>2, <2>6 DEF Covered, Plain, Exists
      <3> QED BY <2>3, <2>5, <3>1 DEF Covers
    <2>7. ASSUME Plain(src.id)' PROVE Covers(validator, src.id)'
      <3>1. CASE validator = src.validator
        <4>1. Plain(src.id) /\ rows[src.id].validator = src.validator
          <5>1. Plain(src.id) /\ polls >= 1 /\ born[src.id] = 0
            BY <2>1, <2>2, <2>7 DEF Plain, Exists, Types, Counted
          <5>2. polls # 0
            BY <5>1
          <5> QED BY <2>2, <5>1, <5>2 DEF Own, Tied, Current, Plain
        <4>2. Covers(validator, src.id)
          BY <2>1, <3>1, <4>1 DEF Covered
        <4> QED BY <2>1, <2>2, <2>3, <2>5, <4>2 DEF Covers
      <3>2. CASE validator # src.validator
        <4>1. validator \subseteq EntriesOf(src.id)' \cup letgo'[src.id]
          BY <2>4, <2>5, <3>2
        <4> QED BY <2>2, <4>1 DEF Covers
      <3> QED BY <3>1, <3>2
    <2> QED BY <2>6, <2>7 DEF Covered
  <1> QED BY <1>1, <1>2, <1>3, <1>4, <1>5, <1>6, StoreSteps

\* A 304 hides nothing: what the saved validator covers has been stored, or let
\* go by a filter, the window or the cap, whatever crash came between the two
\* transactions; but for a row that was made while a run polled.
THEOREM ValidatorCoversHolds == Spec => []ValidatorCovers
  <1>1. Init => Covered
    <2>1. ASSUME Init, NEW i \in Ids PROVE Covers(rows[i].validator, i)
      <3>1. rows[i].validator = {}
        BY <2>1 DEF Init, Fresh, NoRow
      <3> QED BY <3>1 DEF Covers
    <2> QED BY <2>1 DEF Init, Covered
  <1>2. Covered => ValidatorCovers
    BY DEF Covered, Covers, Plain, EntriesOf, ValidatorCovers
  <1> QED BY <1>1, <1>2, CoveredNext, TypesHold, OwnHolds, PTL DEF Spec

\* The assumption: every entry has a date, and no two of a feed the same.
DistinctDates ==
    \A e, f \in Entries :
        /\ Pub[e] # Undated
        /\ FeedOf[e] = FeedOf[f] /\ Pub[e] = Pub[f] => e = f

\* What lies above the cutoff in the catalogue and is not inherited.
Above(i) ==
    {e \in catalogue[i] : Pub[e] >= rows[i].cutoff}
        \ {it.entry : it \in {it \in ItemsOf(i) : Inherited(it)}}

\* The catalogue has no more above the cutoff than the window held.
Fits ==
    \A i \in Ids : Exists(i) /\ rows[i].cutoff # NoCutoff =>
        Cardinality(Above(i)) <= FirstRunItemLimit

\* The cutoff of a first window leaves nothing above it but the window.
LEMMA FirstWindow ==
    ASSUME DistinctDates, Types, Fetched, pc = "ingest", src.cutoff = NoCutoff,
           NEW fresh \in SUBSET got, NEW window \in Window(src, fresh), window # {}
    PROVE  /\ {e \in fresh : Pub[e] >= Cutoff(window)} \subseteq window
           /\ IsFiniteSet(window) /\ Cardinality(window) <= FirstRunItemLimit
  <1>1. /\ window \in Newest(FirstRunItemLimit, fresh) /\ fresh \subseteq Entries
        /\ FirstRunItemLimit \in Nat
    BY LimitAssumption DEF Window, Types, Typed, TypeOK
  <1>2. window \subseteq fresh /\ \A f \in window, e \in fresh \ window : Pub[f] >= Pub[e]
    BY <1>1 DEF Newest
  <1>3. PICK f \in window : Cutoff(window) = Pub[f]
    <2> DEFINE dated == {Pub[e] : e \in window}
    <2>1. dated \ {Undated} = dated /\ dated # {} /\ dated \in SUBSET Nat
      BY <1>1, <1>2, FeedAssumption DEF DistinctDates
    <2>2. Cutoff(window) = Min(dated)
      BY <2>1 DEF Cutoff
    <2> HIDE DEF dated
    <2>3. Min(dated) \in dated
      BY <2>1, MinIsLeast
    <2> QED BY <2>2, <2>3 DEF dated
  <1>4. ASSUME NEW e \in fresh, Pub[e] >= Cutoff(window) PROVE e \in window
    <2>1. SUFFICES ASSUME e \notin window PROVE FALSE
      OBVIOUS
    <2>2. Pub[e] \in Nat /\ Pub[f] \in Nat
      BY <1>1, <1>2, FeedAssumption DEF DistinctDates
    <2>3. Pub[e] = Pub[f]
      BY <1>2, <1>3, <1>4, <2>1, <2>2
    <2>4. FeedOf[e] = FeedOf[f]
      BY <1>2 DEF Fetched
    <2> QED BY <1>1, <1>2, <2>1, <2>3, <2>4 DEF DistinctDates
  <1>5. IsFiniteSet(fresh)
    BY <1>1, FeedAssumption, FS_Subset
  <1>6. IsFiniteSet(window)
    BY <1>2, <1>5, FS_Subset
  <1>7. Cardinality(window) <= FirstRunItemLimit
    <2>1. Cardinality(window) = IF FirstRunItemLimit < Cardinality(fresh)
                                THEN FirstRunItemLimit ELSE Cardinality(fresh)
      BY <1>1 DEF Newest
    <2> QED BY <1>1, <1>5, <2>1, FS_CardinalityType
  <1> QED BY <1>4, <1>6, <1>7

\* Where a row, its catalogue and its run stay, more items leave less above the
\* cutoff.
LEMMA AboveShrinks ==
    ASSUME Types, NEW j \in Ids, items \subseteq items', born'[j] = born[j],
           rows'[j].cutoff = rows[j].cutoff, catalogue'[j] = catalogue[j],
           Cardinality(Above(j)) <= FirstRunItemLimit
    PROVE  Cardinality(Above(j)') <= FirstRunItemLimit
  <1>1. Above(j)' \in SUBSET Above(j)
    BY DEF Above, ItemsOf, Inherited
  <1>2. IsFiniteSet(Above(j))
    <2>1. Above(j) \in SUBSET Entries
      BY DEF Above, Types, Typed, TypeOK
    <2> QED BY <2>1, FeedAssumption, FS_Subset
  <1>3. /\ Cardinality(Above(j)') \in Nat /\ Cardinality(Above(j)) \in Nat
        /\ Cardinality(Above(j)') <= Cardinality(Above(j))
    BY <1>1, <1>2, FS_Subset, FS_CardinalityType
  <1> QED BY <1>3, LimitAssumption

LEMMA FitsNext ==
    DistinctDates /\ Types /\ Own /\ Rooted /\ Fetched /\ NothingOlder /\ Fits /\ [Next]_vars
        => Fits'
  <1> SUFFICES ASSUME DistinctDates, Types, Own, Rooted, Fetched, NothingOlder, Fits, [Next]_vars
               PROVE  Fits'
    OBVIOUS
  <1>2. ASSUME UNCHANGED <<catalogue, items, born>>,
               \A j \in Ids : rows'[j].feed = rows[j].feed /\ rows'[j].cutoff = rows[j].cutoff
        PROVE  Fits'
    <2>1. ASSUME NEW j \in Ids, Exists(j)', rows'[j].cutoff # NoCutoff
          PROVE  Cardinality(Above(j)') <= FirstRunItemLimit
      <3>1. Cardinality(Above(j)) <= FirstRunItemLimit
        BY <1>2, <2>1 DEF Fits, Exists
      <3> QED BY <1>2, <3>1, AboveShrinks
    <2> QED BY <2>1 DEF Fits
  <1>1. CASE UNCHANGED <<rows, items, catalogue, born>>
    BY <1>1, <1>2
  <1>3. CASE SaveValidator
    BY <1>2, <1>3, RowEdits DEF SaveValidator
  <1>4. ASSUME NEW i \in Ids, SetEnabled(i) PROVE Fits'
    BY <1>2, <1>4, RowEdits
  <1>5. ASSUME NEW i \in Ids, Purge(i) PROVE Fits'
    <2>1. /\ \A j \in Ids \ {i} : rows'[j] = rows[j]
          /\ ~Exists(i)' /\ UNCHANGED <<catalogue, born>>
          /\ items' = {it \in items : it.source # i}
      BY <1>5, RowEdits
    <2>2. ASSUME NEW j \in Ids, Exists(j)', rows'[j].cutoff # NoCutoff
          PROVE  Cardinality(Above(j)') <= FirstRunItemLimit
      <3>1. j # i
        BY <2>1, <2>2
      <3>2. rows'[j] = rows[j] /\ Exists(j) /\ Above(j)' = Above(j)
        BY <2>1, <2>2, <3>1 DEF Above, Exists, ItemsOf, Inherited
      <3> QED BY <2>2, <3>2 DEF Fits
    <2> QED BY <2>2 DEF Fits
  <1>6. ASSUME NEW f \in Feeds, Create(f) PROVE Fits'
    <2>1. /\ NewId \in Ids /\ rows' = [rows EXCEPT ![NewId] = Fresh(f)]
          /\ catalogue' = [catalogue EXCEPT ![NewId] = {}]
          /\ born' = [born EXCEPT ![NewId] = IF pc = "idle" THEN 0 ELSE polls]
          /\ items' = items
      BY <1>6, Creates DEF Types
    <2>2. /\ rows'[NewId].cutoff = NoCutoff
          /\ \A j \in Ids : j # NewId =>
                rows'[j] = rows[j] /\ catalogue'[j] = catalogue[j] /\ born'[j] = born[j]
      BY <2>1 DEF Fresh, Types, Typed, TypeOK
    <2>3. ASSUME NEW j \in Ids, Exists(j)', rows'[j].cutoff # NoCutoff
          PROVE  Cardinality(Above(j)') <= FirstRunItemLimit
      <3>1. j # NewId
        BY <2>2, <2>3
      <3>2. Cardinality(Above(j)) <= FirstRunItemLimit
        BY <2>2, <2>3, <3>1 DEF Fits, Exists
      <3> QED BY <2>1, <2>2, <3>1, <3>2, AboveShrinks
    <2> QED BY <2>3 DEF Fits
  <1>7. ASSUME NEW window \in SUBSET got, NEW taken \in SUBSET Entries,
               window \in Window(src, NewTo(src.id, got)), Ingests(window, taken)
        PROVE  Fits'
    <2>1. /\ src.id \in Ids /\ window \in SUBSET Entries /\ pc = "ingest"
          /\ \A j \in Ids : rows'[j].feed = rows[j].feed
          /\ \A j \in Ids : j # src.id => rows'[j].cutoff = rows[j].cutoff
      BY <1>7, IngestEdits DEF Ingests
    <2>2. /\ items' = items \cup Landed(taken) /\ UNCHANGED <<src, born, polls>>
          /\ \A j \in Ids : j # src.id => catalogue'[j] = catalogue[j]
      BY <1>7 DEF Ingests, Types, Typed, TypeOK
    <2>3. ASSUME NEW j \in Ids, rows'[j].cutoff = rows[j].cutoff, catalogue'[j] = catalogue[j],
                 Exists(j)', rows'[j].cutoff # NoCutoff
          PROVE  Cardinality(Above(j)') <= FirstRunItemLimit
      <3>1. Cardinality(Above(j)) <= FirstRunItemLimit
        BY <2>1, <2>3 DEF Fits, Exists
      <3> QED BY <2>2, <2>3, <3>1, AboveShrinks
    <2>4. CASE src.cutoff = NoCutoff /\ window # {} /\ Exists(src.id)
      <3>1. rows'[src.id].cutoff = Cutoff(window) /\ catalogue'[src.id] = got
        BY <1>7, <2>1, <2>4, IngestEdits DEF Ingests, Types, Typed, TypeOK
      <3>2. \A it \in items : it.source = src.id => Inherited(it)'
        <4>1. \/ \A it \in items' : it.source = src.id => Inherited(it)'
              \/ Current(src)
          BY <1>7, Heirs
        <4>2. ASSUME Current(src), NEW it \in items, it.source = src.id PROVE Inherited(it)
          BY <2>4, <4>2 DEF Current, NothingOlder
        <4>3. \A it \in items : Inherited(it)' <=> Inherited(it)
          BY <1>7, Heirs
        <4>4. CASE Current(src)
          BY <4>2, <4>3, <4>4
        <4>5. CASE \A it \in items' : it.source = src.id => Inherited(it)'
          BY <2>2, <4>5
        <4> QED BY <4>1, <4>4, <4>5
      <3>3. NewTo(src.id, got) \in SUBSET got
        BY DEF NewTo
      <3>4. /\ {e \in NewTo(src.id, got) : Pub[e] >= Cutoff(window)} \subseteq window
            /\ IsFiniteSet(window) /\ Cardinality(window) <= FirstRunItemLimit
        BY <1>7, <2>1, <2>4, <3>3, FirstWindow
      <3>5. Above(src.id)' \in SUBSET window
        <4>1. ASSUME NEW e \in Above(src.id)' PROVE e \in window
          <5>1. /\ e \in got /\ Pub[e] >= Cutoff(window)
                /\ \A it \in items' : it.source = src.id /\ Inherited(it)' => it.entry # e
            BY <2>1, <2>2, <3>1, <4>1 DEF Above, ItemsOf
          <5>2. \A it \in items : it.source = src.id => it.entry # e
            BY <2>2, <3>2, <5>1
          <5>3. e \in NewTo(src.id, got)
            BY <5>1, <5>2 DEF NewTo
          <5> QED BY <3>4, <5>1, <5>3
        <4> QED BY <4>1
      <3>6. Cardinality(Above(src.id)') <= FirstRunItemLimit
        <4>1. /\ Cardinality(Above(src.id)') \in Nat /\ Cardinality(window) \in Nat
              /\ Cardinality(Above(src.id)') <= Cardinality(window)
          BY <3>4, <3>5, FS_Subset, FS_CardinalityType
        <4> QED BY <3>4, <4>1, LimitAssumption
      <3>7. ASSUME NEW j \in Ids, Exists(j)', rows'[j].cutoff # NoCutoff
            PROVE  Cardinality(Above(j)') <= FirstRunItemLimit
        <4>1. CASE j = src.id
          BY <2>2, <3>6, <4>1 DEF Above, ItemsOf, Inherited
        <4>2. CASE j # src.id
          BY <2>1, <2>2, <2>3, <3>7, <4>2
        <4> QED BY <4>1, <4>2
      <3> QED BY <3>7 DEF Fits
    <2>5. CASE ~(src.cutoff = NoCutoff /\ window # {} /\ Exists(src.id))
      <3>1. UNCHANGED <<rows, catalogue>>
        BY <1>7, <2>5 DEF Ingests
      <3>2. ASSUME NEW j \in Ids, Exists(j)', rows'[j].cutoff # NoCutoff
            PROVE  Cardinality(Above(j)') <= FirstRunItemLimit
        BY <2>3, <3>1, <3>2
      <3> QED BY <3>2 DEF Fits
    <2> QED BY <2>4, <2>5
  <1> QED BY <1>1, <1>3, <1>4, <1>5, <1>6, <1>7, StoreSteps

\* Of the back catalogue its first poll was served, a source contributes the
\* newest FIRST_RUN_ITEM_LIMIT entries at most, ever, next to what it inherits.
THEOREM CatalogueStaysOutHolds ==
    DistinctDates => (Spec => []CatalogueStaysOut)
  <1> SUFFICES ASSUME DistinctDates
               PROVE  Spec => []CatalogueStaysOut
    OBVIOUS
  <1>1. Init => Fits
    BY DEF Init, Fits, Fresh, NoRow
  <1>2. Types /\ Own /\ Rooted /\ Filed /\ NothingOlder /\ Fits /\ [Next]_vars => Fits'
    BY FitsNext DEF Filed
  <1>3. Types /\ StoredOnce /\ Rooted /\ NothingOlder /\ Fits => CatalogueStaysOut
    <2> SUFFICES ASSUME Types, StoredOnce, Rooted, NothingOlder, Fits, NEW i \in Ids
                 PROVE  Cardinality({it \in ItemsOf(i) : it.entry \in catalogue[i] /\ ~Inherited(it)})
                            <= FirstRunItemLimit
      BY DEF CatalogueStaysOut
    <2> DEFINE mine == {it \in ItemsOf(i) : it.entry \in catalogue[i] /\ ~Inherited(it)}
    <2>1. CASE mine = {}
      BY <2>1, FS_EmptySet, LimitAssumption
    <2>2. CASE mine # {}
      <3>1. Exists(i) /\ rows[i].cutoff # NoCutoff
        BY <2>2 DEF Rooted, NothingOlder, ItemsOf
      <3>2. ASSUME NEW it \in mine PROVE it.entry \in Above(i)
        <4>1. it \in items /\ it.source = i /\ it.entry \in catalogue[i] /\ ~Inherited(it)
              /\ it.entry \in Entries
          BY DEF ItemsOf, Types, Typed, TypeOK
        <4>2. Pub[it.entry] >= rows[i].cutoff
          BY <4>1 DEF NothingOlder, DistinctDates
        <4>3. \A other \in ItemsOf(i) : Inherited(other) => other.entry # it.entry
          BY <4>1 DEF ItemsOf, StoredOnce
        <4> QED BY <4>1, <4>2, <4>3 DEF Above
      <3>3. \A a, b \in mine : a.entry = b.entry => a = b
        BY DEF ItemsOf, StoredOnce
      <3> DEFINE f == [it \in mine |-> it.entry]
      <3>4. f \in Injection(mine, Above(i))
        <4>1. f \in [mine -> Above(i)]
          BY <3>2
        <4>2. IsInjective(f)
          BY <3>3 DEF IsInjective
        <4> QED BY <4>1, <4>2 DEF Injection
      <3>5. IsFiniteSet(Above(i))
        <4>1. Above(i) \in SUBSET Entries
          BY DEF Above, Types, Typed, TypeOK
        <4> QED BY <4>1, FeedAssumption, FS_Subset
      <3> HIDE DEF f, mine
      <3>6. IsFiniteSet(mine) /\ Cardinality(mine) <= Cardinality(Above(i))
        BY <3>4, <3>5, FS_Injection
      <3>7. Cardinality(mine) \in Nat /\ Cardinality(Above(i)) \in Nat
        BY <3>5, <3>6, FS_CardinalityType
      <3>8. Cardinality(Above(i)) <= FirstRunItemLimit
        BY <3>1 DEF Fits
      <3> QED BY <3>6, <3>7, <3>8, LimitAssumption DEF mine
    <2> QED BY <2>1, <2>2
  <1> QED BY <1>1, <1>2, <1>3, TypesHold, OwnHolds, RootedHolds, FiledHolds, StoredOnceHolds,
             NothingOlderHolds, PTL DEF Spec
=============================================================================
