--------------------------- MODULE Briefing_proofs ---------------------------
(***************************************************************************)
(* What Briefing promises for any number of items, days and runs, for every *)
(* length of the windows and of a day.                                     *)
(***************************************************************************)
EXTENDS Briefing, Extrema

USE DEF time, tables, pages, local, work, history

LEMMA WindowIsNat == Window \in Nat
  BY BriefingAssumption DEF Window

\* How far back retention reaches.
Kept == RetentionDays * DayLen

LEMMA KeptIsNat == Kept \in Nat
  BY BriefingAssumption DEF Kept

LEMMA ItemsAreNat == Items \subseteq Nat
  BY BriefingAssumption DEF Items

LEMMA NextInTodo ==
    ASSUME todo \in SUBSET Items, todo # {}
    PROVE  Min(todo) \in todo /\ Min(todo) \in Items
  BY ItemsAreNat, MinIsLeast

LEMMA DayStartBefore ==
    ASSUME NEW t \in Nat
    PROVE  DayStart(t) \in Int /\ DayStart(t) <= t
  <1>1. DayLen \in Nat /\ DayLen > 0
    BY BriefingAssumption
  <1>2. t \div DayLen \in Int /\ DayLen * (t \div DayLen) <= t
    BY <1>1, SMT
  <1>3. DayLen * (t \div DayLen) = (t \div DayLen) * DayLen
    BY <1>1, <1>2
  <1> QED BY <1>1, <1>2, <1>3 DEF DayStart, DateOf

(***************************************************************************)
(* Types, and what a run holds while it holds it.                          *)
(***************************************************************************)

\* What is selected has been seen.
Typed == TypeOK /\ \A i \in todo : Known(i)

LEMMA CardsTyped ==
    ASSUME TypeOK
    PROVE  {c \in {Card(i) : i \in {i \in Items : OnPage(i)}} :
               c.kind = "rejected" => Shadow} \subseteq Cards
  <1> SUFFICES ASSUME NEW i \in Items PROVE Card(i) \in Cards
    OBVIOUS
  <1>1. CASE Judged(i) /\ verdict[i].passed
    BY <1>1 DEF Card, Cards, Kinds
  <1>2. CASE Judged(i) /\ ~verdict[i].passed
    BY <1>2 DEF Card, Cards, Kinds
  <1>3. CASE ~Judged(i) /\ HasContent(i)
    BY <1>3 DEF Card, Cards, Kinds
  <1>4. CASE ~Judged(i) /\ ~HasContent(i)
    BY <1>4 DEF Card, Cards, Kinds
  <1> QED BY <1>1, <1>2, <1>3, <1>4

LEMMA OverTyped ==
    ASSUME Over
    PROVE  /\ page' \in SUBSET Cards
           /\ push' \in {"none", "NSTR", "briefing", "counts"}
           /\ pc' \in {"idle", "poll", "acquire", "select", "judge", "page", "write",
                       "notify", "prune", "end"}
           /\ reason' \in {"none", "scheduled", "manual", "reprocess"}
           /\ now' \in 0 .. MaxClock
           /\ todo' \in SUBSET Items
           /\ \A i \in todo' : Known(i)'
           /\ blocked' \in BOOLEAN
           /\ brought' \in SUBSET Items
           /\ tried' \in SUBSET Items
           /\ passed' \in SUBSET Items
  <1>1. now' \in 0 .. MaxClock
    BY BriefingAssumption DEF Over
  <1>2. \A i \in todo' : Known(i)'
    BY DEF Over
  <1> QED BY <1>1, <1>2 DEF Over

LEMMA TypedInit == Init => Typed
  <1> SUFFICES ASSUME Init PROVE Typed
    OBVIOUS
  <1> USE BriefingAssumption DEF Init, Never
  <1>1. /\ clock \in 0 .. MaxClock /\ aborts \in 0 .. MaxAborts
        /\ runs \in 0 .. MaxRuns /\ now \in 0 .. MaxClock
    OBVIOUS
  <1>2. /\ seen \in [Items -> Times] /\ fetched \in [Items -> Times]
        /\ \A i \in Items : ~HasContent(i)
    BY DEF Times, HasContent
  <1>3. /\ verdict \in [Items -> [at : Times, passed : BOOLEAN]]
        /\ \A i \in Items : ~Judged(i)
    BY DEF Times, Judged, NoVerdict
  <1>4. /\ page \in SUBSET Cards /\ todo \in SUBSET Items /\ brought \in SUBSET Items
        /\ tried \in SUBSET Items /\ passed \in SUBSET Items
        /\ dropped \in SUBSET Items /\ told \in SUBSET Items
        /\ \A i \in todo : Known(i)
    OBVIOUS
  <1> QED BY <1>1, <1>2, <1>3, <1>4 DEF Typed, TypeOK

LEMMA TypedNext == Typed /\ [Next]_vars => Typed'
  <1> SUFFICES ASSUME Typed, [Next]_vars
               PROVE  Typed'
    OBVIOUS
  <1> USE BriefingAssumption DEF Typed, TypeOK, Times, Known, HasContent, Judged
  <1>1. ASSUME NEW k \in {"scheduled", "manual", "reprocess"}, Start(k) PROVE Typed'
    BY <1>1 DEF Start
  <1>2. ASSUME NEW i \in Items, Ingest(i) PROVE Typed'
    BY <1>2 DEF Ingest, Never
  <1>3. CASE Pending
    BY <1>3 DEF Pending, InWindow
  <1>4. ASSUME NEW outcome \in WebContent \cup YoutubeContent, Fetch(outcome) PROVE Typed'
    <2>1. Min(todo) \in todo /\ Min(todo) \in Items
      BY <1>4, NextInTodo DEF Fetch
    <2> QED BY <1>4, <2>1 DEF Fetch
  <1>5. CASE FetchSkipped
    BY <1>5 DEF FetchSkipped
  <1>6. CASE Acquired
    BY <1>6 DEF Acquired
  <1>7. CASE Select
    BY <1>7 DEF Select, Wanted
  <1>8. CASE Triage
    <2>1. Min(todo) \in todo /\ Min(todo) \in Items
      BY <1>8, NextInTodo DEF Triage
    <2>2. /\ verdict' \in [Items -> [at : Times, passed : BOOLEAN]]
          /\ passed' \in SUBSET Items
          /\ \A i \in Items : HasContent(i)' \/ Judged(i)' => Known(i)'
      <3>1. CASE UNCHANGED <<verdict, passed>>
        BY <1>8, <3>1 DEF Triage
      <3>2. ASSUME NEW ok \in BOOLEAN,
                   verdict' = [verdict EXCEPT ![Min(todo)] = [at |-> clock, passed |-> ok]],
                   passed' = IF ok THEN passed \cup {Min(todo)} ELSE passed
            PROVE  <2>2
        BY <1>8, <2>1, <3>2 DEF Triage
      <3> QED BY <1>8, <3>1, <3>2 DEF Triage
    <2> QED BY <1>8, <2>1, <2>2 DEF Triage
  <1>9. CASE JudgeDone
    BY <1>9 DEF JudgeDone
  <1>10. CASE Compose
    <2>1. page' \subseteq Cards
      BY <1>10, CardsTyped DEF Compose
    <2> QED BY <1>10, <2>1 DEF Compose
  <1>11. CASE Write
    BY <1>11 DEF Write, Cards
  <1>12. CASE Notify
    BY <1>12 DEF Notify, Digest
  <1>13. CASE Prune
    BY <1>13 DEF Prune, Never
  <1>14. CASE End
    BY <1>14, OverTyped DEF End
  <1>15. CASE Abort
    <2>1. dropped' \in SUBSET Items
      BY <1>15 DEF Abort
    <2>2. aborts' \in 0 .. MaxAborts
      BY <1>15 DEF Abort
    <2> QED BY <1>15, <2>1, <2>2, OverTyped DEF Abort
  <1>16. CASE Tick
    BY <1>16 DEF Tick
  <1>17. CASE UNCHANGED vars
    BY <1>17 DEF vars
  <1> QED BY <1>1, <1>2, <1>3, <1>4, <1>5, <1>6, <1>7, <1>8, <1>9, <1>10, <1>11, <1>12,
             <1>13, <1>14, <1>15, <1>16, <1>17 DEF Next

\* Every variable keeps its type, for any number of items, runs and days.
THEOREM TypeCorrect == Spec => []TypeOK
  <1>1. Init => Typed
    BY TypedInit
  <1>2. Typed /\ [Next]_vars => Typed'
    BY TypedNext
  <1>3. Typed => TypeOK
    BY DEF Typed
  <1> QED BY <1>1, <1>2, <1>3, PTL DEF Spec

(***************************************************************************)
(* What the steps of a run rely on: in what order stamps were set, what the *)
(* run holds at each of its stages, and what retention can have taken.      *)
(***************************************************************************)
Stamped ==
    /\ now <= clock
    /\ \A i \in Items : seen[i] <= clock /\ (HasContent(i) => seen[i] <= fetched[i])

Phases ==
    /\ pc = "idle" => todo = {} /\ brought = {}
    /\ pc \notin {"write", "notify", "prune", "end"} => page = {}
    /\ pc = "poll" => brought = {}
    /\ reason = "reprocess" => pc \notin {"poll", "acquire"} /\ brought = {}
    /\ pc \in {"idle", "poll", "acquire", "select"} => passed = {}

\* The items selected fit the selection until their turn comes.
Held ==
    /\ pc = "acquire" => \A i \in todo : InWindow(i) /\ ~HasContent(i)
    /\ pc = "judge" =>
          \A i \in todo :
              /\ HasContent(i)
              /\ IF reason = "reprocess" THEN Judged(i) ELSE ~Judged(i) /\ InWindow(i)
    /\ pc # "idle" => \A i \in brought : InWindow(i)

\* Retention took the text of a judged item because the item was old enough.
Emptied ==
    \A i \in Items :
        Judged(i) /\ ~HasContent(i) => RetentionDays > 0 /\ seen[i] < Since - Kept

Passing ==
    \A i \in passed :
        /\ Judged(i) /\ verdict[i].passed /\ verdict[i].at >= now
        /\ pc = "judge" => i \notin todo

Composed ==
    {c \in {Card(i) : i \in {i \in Items : OnPage(i)}} : c.kind = "rejected" => Shadow}

\* The tables do not change between composing the page and pushing it.
Shown ==
    /\ pc \in {"write", "notify"} => page = Composed
    /\ pc = "notify" => \A c \in page : c.item \in told

\* A text nobody judged was told of, or its run is not over, or was cut short.
Told ==
    /\ \A i \in Items :
          HasContent(i) /\ ~Judged(i) => i \in told \/ i \in dropped \/ i \in brought
    /\ pc \in {"notify", "prune", "end"} =>
          \A i \in brought : HasContent(i) /\ ~Judged(i) => i \in told

Inv == Typed /\ Stamped /\ Phases /\ Held /\ Emptied /\ Passing /\ Shown /\ Told

LEMMA InvInit == Init => Inv
  <1> SUFFICES ASSUME Init PROVE Inv
    OBVIOUS
  <1>1. Typed
    BY TypedInit
  <1>2. /\ \A i \in Items : ~HasContent(i) /\ ~Judged(i) /\ seen[i] = Never
        /\ clock = 0 /\ now = 0
    BY DEF Init, HasContent, Judged
  <1>3. Stamped /\ Emptied /\ Told
    BY <1>2 DEF Stamped, Emptied, Told, Never, Init
  <1>4. Phases /\ Held /\ Passing /\ Shown
    BY DEF Init, Phases, Held, Passing, Shown
  <1> QED BY <1>1, <1>3, <1>4 DEF Inv

LEMMA StampedNext == Inv /\ [Next]_vars => Stamped'
  <1> SUFFICES ASSUME Inv, [Next]_vars
               PROVE  Stamped'
    OBVIOUS
  <1> USE DEF Inv, Typed, TypeOK, Times, Stamped, HasContent
  <1>1. CASE \E i \in Items : Ingest(i)
    BY <1>1 DEF Ingest, Never, Known
  <1>2. ASSUME NEW outcome \in WebContent \cup YoutubeContent, Fetch(outcome) PROVE Stamped'
    <2>1. Min(todo) \in todo /\ Min(todo) \in Items
      BY <1>2, NextInTodo DEF Fetch
    <2> QED BY <1>2, <2>1 DEF Fetch
  <1>3. CASE Prune
    BY <1>3 DEF Prune, Never
  <1>4. CASE End \/ Abort
    BY <1>4 DEF End, Abort, Over
  <1>5. CASE \E k \in {"scheduled", "manual", "reprocess"} : Start(k)
    BY <1>5 DEF Start
  <1>6. CASE Tick
    BY <1>6 DEF Tick, Never
  <1>7. CASE Triage
    BY <1>7 DEF Triage
  <1>8. CASE Pending \/ Acquired \/ FetchSkipped \/ Select \/ JudgeDone
    BY <1>8 DEF Pending, Acquired, FetchSkipped, Select, JudgeDone
  <1>9. CASE Compose \/ Write \/ Notify \/ UNCHANGED vars
    BY <1>9 DEF Compose, Write, Notify, vars
  <1> QED BY <1>1, <1>2, <1>3, <1>4, <1>5, <1>6, <1>7, <1>8, <1>9 DEF Next

LEMMA PhasesNext == Inv /\ [Next]_vars => Phases'
  <1> SUFFICES ASSUME Inv, [Next]_vars
               PROVE  Phases'
    OBVIOUS
  <1> USE DEF Inv, Phases
  <1>1. CASE \E k \in {"scheduled", "manual", "reprocess"} : Start(k)
    BY <1>1 DEF Start
  <1>2. CASE End \/ Abort
    BY <1>2 DEF End, Abort, Over
  <1>3. CASE \E outcome \in WebContent \cup YoutubeContent : Fetch(outcome)
    BY <1>3 DEF Fetch
  <1>4. CASE Triage
    BY <1>4 DEF Triage
  <1>5. CASE Pending \/ Acquired \/ FetchSkipped \/ Select \/ JudgeDone
    BY <1>5 DEF Pending, Acquired, FetchSkipped, Select, JudgeDone
  <1>6. CASE Compose \/ Write \/ Notify \/ Prune
    BY <1>6 DEF Compose, Write, Notify, Prune
  <1>7. CASE (\E i \in Items : Ingest(i)) \/ Tick \/ UNCHANGED vars
    BY <1>7 DEF Ingest, Tick, vars
  <1> QED BY <1>1, <1>2, <1>3, <1>4, <1>5, <1>6, <1>7 DEF Next

\* What was in the window when the run started stays in it: neither its start
\* nor the item's stamp moves.
LEMMA HeldNext == Inv /\ [Next]_vars => Held'
  <1> SUFFICES ASSUME Inv, [Next]_vars
               PROVE  Held'
    OBVIOUS
  <1> USE WindowIsNat DEF Inv, Typed, TypeOK, Times, Held, Phases, Stamped, HasContent,
          InWindow, Judged, Known
  <1>1. CASE \E k \in {"scheduled", "manual", "reprocess"} : Start(k)
    BY <1>1 DEF Start
  <1>2. CASE \E i \in Items : Ingest(i)
    BY <1>2 DEF Ingest
  <1>3. CASE Pending
    BY <1>3 DEF Pending
  <1>4. ASSUME NEW outcome \in WebContent \cup YoutubeContent, Fetch(outcome) PROVE Held'
    <2>1. Min(todo) \in todo /\ Min(todo) \in Items
      BY <1>4, NextInTodo DEF Fetch
    <2> QED BY <1>4, <2>1 DEF Fetch
  <1>5. CASE FetchSkipped \/ Acquired \/ JudgeDone
    BY <1>5 DEF FetchSkipped, Acquired, JudgeDone
  <1>6. CASE Select
    BY <1>6 DEF Select, Wanted
  <1>7. CASE Triage
    <2>1. Min(todo) \in todo /\ Min(todo) \in Items
      BY <1>7, NextInTodo DEF Triage
    <2>2. \A i \in Items \ {Min(todo)} : verdict'[i] = verdict[i]
      BY <1>7, <2>1 DEF Triage
    <2> QED BY <1>7, <2>1, <2>2 DEF Triage
  <1>8. CASE Compose \/ Write \/ Notify \/ Prune
    BY <1>8 DEF Compose, Write, Notify, Prune
  <1>9. CASE End \/ Abort
    BY <1>9 DEF End, Abort, Over
  <1>10. CASE Tick \/ UNCHANGED vars
    BY <1>10 DEF Tick, vars
  <1> QED BY <1>1, <1>2, <1>3, <1>4, <1>5, <1>6, <1>7, <1>8, <1>9, <1>10 DEF Next

\* The moment windows are measured from never moves back.
LEMMA SinceGrows == Inv /\ [Next]_vars => Since <= Since' /\ Since \in Nat /\ Since' \in Nat
  <1> SUFFICES ASSUME Inv, [Next]_vars
               PROVE  Since <= Since' /\ Since \in Nat /\ Since' \in Nat
    OBVIOUS
  <1>1. Typed' /\ Stamped'
    BY TypedNext, StampedNext DEF Inv
  <1> USE <1>1, BriefingAssumption DEF Inv, Typed, TypeOK, Stamped, Since
  <1>2. CASE \E k \in {"scheduled", "manual", "reprocess"} : Start(k)
    BY <1>2 DEF Start
  <1>3. CASE End \/ Abort
    BY <1>3 DEF End, Abort, Over
  <1>4. CASE Tick
    BY <1>4 DEF Tick
  <1>5. CASE pc # "idle" /\ pc' # "idle" /\ now' = now
    BY <1>5
  <1>6. CASE UNCHANGED vars
    BY <1>6 DEF vars
  <1> QED BY <1>2, <1>3, <1>4, <1>5, <1>6
          DEF Next, Ingest, Pending, Fetch, FetchSkipped, Acquired, Select, Triage,
              JudgeDone, Compose, Write, Notify, Prune

LEMMA EmptiedNext == Inv /\ [Next]_vars => Emptied'
  <1> SUFFICES ASSUME Inv, [Next]_vars, NEW i \in Items, (Judged(i) /\ ~HasContent(i))'
               PROVE  RetentionDays > 0 /\ seen'[i] < Since' - Kept
    BY DEF Emptied
  <1>1. Since <= Since' /\ Since \in Nat /\ Since' \in Nat
    BY SinceGrows
  <1> USE <1>1, KeptIsNat DEF Inv, Typed, TypeOK, Times, Judged, HasContent, Never
  <1>2. CASE Judged(i) /\ ~HasContent(i) /\ seen'[i] = seen[i]
    BY <1>2 DEF Emptied
  <1>3. CASE \E j \in Items : Ingest(j)
    BY <1>3, <1>2 DEF Ingest, Known
  <1>4. CASE Triage
    <2>1. Min(todo) \in todo /\ Min(todo) \in Items
      BY <1>4, NextInTodo DEF Triage
    <2>2. HasContent(Min(todo))
      BY <1>4, <2>1 DEF Triage, Held
    <2>3. i # Min(todo) /\ verdict'[i] = verdict[i]
      BY <1>4, <2>1, <2>2 DEF Triage
    <2> QED BY <1>4, <2>3, <1>2 DEF Triage
  <1>5. CASE Prune
    <2>1. CASE Outdated(i)
      <3>1. fetched[i] < now - Kept /\ RetentionDays > 0
        BY <2>1 DEF Outdated, Kept
      <3>2. seen[i] <= fetched[i]
        BY <2>1 DEF Outdated, Stamped
      <3>3. Since' = now /\ seen' = seen
        BY <1>5 DEF Prune, Since
      <3> QED BY <3>1, <3>2, <3>3
    <2>2. CASE ~Outdated(i)
      BY <1>5, <2>2, <1>2 DEF Prune
    <2> QED BY <2>1, <2>2
  <1>6. CASE \E outcome \in WebContent \cup YoutubeContent : Fetch(outcome)
    <2>1. Min(todo) \in todo /\ Min(todo) \in Items
      BY <1>6, NextInTodo DEF Fetch
    <2>2. ~HasContent(i)
      BY <1>6, <2>1 DEF Fetch
    <2> QED BY <1>6, <2>2, <1>2 DEF Fetch
  <1>7. CASE UNCHANGED tables
    BY <1>7, <1>2
  <1> QED BY <1>3, <1>4, <1>5, <1>6, <1>7
          DEF Next, vars, Start, Pending, FetchSkipped, Acquired, Select, JudgeDone,
              Compose, Write, Notify, End, Abort, Tick

LEMMA PassingNext == Inv /\ [Next]_vars => Passing'
  <1> SUFFICES ASSUME Inv, [Next]_vars
               PROVE  Passing'
    OBVIOUS
  <1> USE DEF Inv, Typed, TypeOK, Times, Stamped, Passing, Judged
  <1>1. CASE Triage
    <2>1. Min(todo) \in todo /\ Min(todo) \in Items
      BY <1>1, NextInTodo DEF Triage
    <2>2. CASE UNCHANGED <<verdict, passed>>
      BY <1>1, <2>2 DEF Triage
    <2>3. ASSUME NEW ok \in BOOLEAN,
                 verdict' = [verdict EXCEPT ![Min(todo)] = [at |-> clock, passed |-> ok]],
                 passed' = IF ok THEN passed \cup {Min(todo)} ELSE passed
          PROVE  Passing'
      <3>1. Min(todo) \notin passed
        BY <1>1, <2>1 DEF Triage
      <3> QED BY <1>1, <2>1, <2>3, <3>1 DEF Triage, NoVerdict, Never
    <2> QED BY <1>1, <2>2, <2>3 DEF Triage
  <1>2. CASE passed' = {}
    BY <1>2
  <1>3. CASE UNCHANGED <<verdict, passed, now>> /\ pc' # "judge"
    BY <1>3
  <1>4. CASE pc \in {"idle", "poll", "acquire", "select"}
    BY <1>4 DEF Phases, Next, Start, Ingest, Pending, Fetch, FetchSkipped, Acquired, Select,
                Triage, JudgeDone, Compose, Write, Notify, Prune, End, Abort, Over, Tick, vars
  <1>5. CASE Tick \/ UNCHANGED vars
    BY <1>5 DEF Tick, vars
  <1> QED BY <1>1, <1>2, <1>3, <1>4, <1>5
          DEF Next, Start, Ingest, Pending, Fetch, FetchSkipped, Acquired, Select,
              JudgeDone, Compose, Write, Notify, Prune, End, Abort, Over

LEMMA ComposedStays ==
    ASSUME UNCHANGED <<tables, now>>
    PROVE  Composed' = Composed
  BY DEF Composed, Card, OnPage, Judged, HasContent, InWindow, Expired, Known

\* Whatever belongs on the page and is not hidden has a card.
LEMMA ComposedShows ==
    ASSUME NEW i \in Items, OnPage(i), Card(i).kind # "rejected"
    PROVE  \E c \in Composed : c.item = i /\ c.kind = Card(i).kind
  <1>1. Card(i) \in Composed
    BY DEF Composed
  <1>2. Card(i).item = i
    BY DEF Card
  <1> QED BY <1>1, <1>2

LEMMA ShownNext == Inv /\ [Next]_vars => Shown'
  <1> SUFFICES ASSUME Inv, [Next]_vars
               PROVE  Shown'
    OBVIOUS
  <1> USE DEF Inv, Shown
  <1>1. CASE Compose
    <2>1. page' = Composed /\ pc' = "write" /\ UNCHANGED <<tables, now>>
      BY <1>1 DEF Compose, Composed
    <2> QED BY <2>1, ComposedStays
  <1>2. CASE Write
    <2>1. Composed' = Composed
      BY <1>2, ComposedStays DEF Write
    <2> QED BY <1>2, <2>1 DEF Write
  <1>3. CASE pc' \notin {"write", "notify"}
    BY <1>3
  <1>4. CASE UNCHANGED vars
    <2>1. Composed' = Composed
      BY <1>4, ComposedStays DEF vars
    <2> QED BY <1>4, <2>1 DEF vars
  <1> QED BY <1>1, <1>2, <1>3, <1>4
          DEF Next, Start, Ingest, Pending, Fetch, FetchSkipped, Acquired, Select, Triage,
              JudgeDone, Notify, Prune, End, Abort, Over, Tick

LEMMA ToldNext == Inv /\ [Next]_vars => Told'
  <1> SUFFICES ASSUME Inv, [Next]_vars
               PROVE  Told'
    OBVIOUS
  <1> USE DEF Inv, Typed, TypeOK, Times, Told, Judged, HasContent, Never
  <1>1. ASSUME NEW outcome \in WebContent \cup YoutubeContent, Fetch(outcome) PROVE Told'
    <2>1. Min(todo) \in todo /\ Min(todo) \in Items
      BY <1>1, NextInTodo DEF Fetch
    <2> QED BY <1>1, <2>1 DEF Fetch
  <1>2. CASE Triage
    <2>1. Min(todo) \in todo /\ Min(todo) \in Items
      BY <1>2, NextInTodo DEF Triage
    <2>2. \A i \in Items : Judged(i) => Judged(i)'
      BY <1>2, <2>1 DEF Triage, NoVerdict
    <2> QED BY <1>2, <2>2 DEF Triage
  <1>3. CASE Write
    <2> SUFFICES ASSUME NEW i \in brought, HasContent(i), ~Judged(i)
                 PROVE  i \in told'
      BY <1>3 DEF Write
    <2>1. i \in Items /\ InWindow(i)
      BY <1>3 DEF Write, Held
    <2>2. OnPage(i) /\ Card(i).kind = "unjudged"
      BY <2>1 DEF OnPage, Card
    <2>3. \E c \in page : c.item = i
      BY <1>3, <2>1, <2>2, ComposedShows DEF Write, Shown
    <2> QED BY <1>3, <2>3 DEF Write
  <1>4. CASE Prune
    BY <1>4 DEF Prune
  <1>5. CASE End
    BY <1>5 DEF End, Over
  <1>6. CASE Abort
    BY <1>6 DEF Abort, Over
  <1>7. CASE \E k \in {"scheduled", "manual", "reprocess"} : Start(k)
    BY <1>7 DEF Start
  <1>8. CASE (\E i \in Items : Ingest(i)) \/ Pending \/ FetchSkipped \/ Acquired \/ Select
    BY <1>8 DEF Ingest, Pending, FetchSkipped, Acquired, Select
  <1>9. CASE JudgeDone \/ Compose \/ Notify
    BY <1>9 DEF JudgeDone, Compose, Notify
  <1>10. CASE Tick \/ UNCHANGED vars
    BY <1>10 DEF Tick, vars
  <1> QED BY <1>1, <1>2, <1>3, <1>4, <1>5, <1>6, <1>7, <1>8, <1>9, <1>10 DEF Next

LEMMA InvNext == Inv /\ [Next]_vars => Inv'
  BY TypedNext, StampedNext, PhasesNext, HeldNext, EmptiedNext, PassingNext, ShownNext,
     ToldNext DEF Inv

LEMMA InvAlways == Spec => []Inv
  <1>1. Init => Inv
    BY InvInit
  <1>2. Inv /\ [Next]_vars => Inv'
    BY InvNext
  <1> QED BY <1>1, <1>2, PTL DEF Spec

(***************************************************************************)
(* The properties.                                                         *)
(***************************************************************************)

\* An item a run passed is on the page of that run, whatever midnights went by
\* between the start of the run, its verdict and the page.
THEOREM JudgedIsShownHolds == Spec => []JudgedIsShown
  <1>1. Inv => JudgedIsShown
    <2> SUFFICES ASSUME Inv, pc = "notify", NEW i \in passed
                 PROVE  \E c \in page : c.item = i /\ c.kind = "passed"
      BY DEF JudgedIsShown
    <2> USE DEF Inv, Typed, TypeOK, Times
    <2>1. i \in Items /\ Judged(i) /\ verdict[i].passed /\ verdict[i].at >= now
      BY DEF Passing
    <2>2. DayStart(now) \in Int /\ DayStart(now) <= now /\ now \in Nat /\ verdict[i].at \in Int
      BY <2>1, DayStartBefore, BriefingAssumption DEF Never
    <2>3. OnPage(i) /\ Card(i).kind = "passed"
      BY <2>1, <2>2 DEF OnPage, Card
    <2> QED BY <2>1, <2>3, ComposedShows DEF Shown
  <1> QED BY <1>1, InvAlways, PTL

\* Whatever the lengths of the windows and of a day, no item passes its window
\* untold and unjudged, but by a run that was cut short.
THEOREM NothingLostHolds == Spec => []NothingLost
  <1>1. Inv => NothingLost
    <2> SUFFICES ASSUME Inv, pc = "notify", NEW i \in Items, Expired(i), ~Judged(i)
                 PROVE  i \in told \/ i \in dropped
      BY DEF NothingLost
    <2>1. CASE HasContent(i)
      BY <2>1 DEF Inv, Told
    <2>2. CASE ~HasContent(i)
      <3>1. OnPage(i) /\ Card(i).kind = "unavailable"
        BY <2>2 DEF OnPage, Card
      <3> QED BY <3>1, ComposedShows DEF Inv, Shown
    <2> QED BY <2>1, <2>2
  <1> QED BY <1>1, InvAlways, PTL

(***************************************************************************)
(* The promises that need retention to outlast the retry window.  The       *)
(* settings allow any number of days; the defaults are 90 and 3.            *)
(***************************************************************************)
LastsWindow    == RetentionDays = 0 \/ RetentionDays >= RetryDays
OutlastsWindow == RetentionDays = 0 \/ RetentionDays >= RetryDays + 1

LEMMA KeptCovers == LastsWindow /\ RetentionDays > 0 => Kept >= Window
  <1> SUFFICES ASSUME RetentionDays >= RetryDays PROVE Kept >= Window
    BY BriefingAssumption DEF LastsWindow
  <1>1. (RetentionDays - RetryDays) * DayLen >= 0
    BY BriefingAssumption
  <1> QED BY <1>1, BriefingAssumption DEF Kept, Window

LEMMA KeptOutlasts == OutlastsWindow /\ RetentionDays > 0 => Kept >= Window + DayLen
  <1> SUFFICES ASSUME RetentionDays >= RetryDays + 1 PROVE Kept >= Window + DayLen
    BY BriefingAssumption DEF OutlastsWindow
  <1>1. (RetentionDays - (RetryDays + 1)) * DayLen >= 0
    BY BriefingAssumption
  <1> QED BY <1>1, BriefingAssumption DEF Kept, Window

\* A judged item whose text is gone is out of every window.
LEMMA EmptiedIsOver ==
    ASSUME LastsWindow, Inv, NEW i \in Items, Judged(i), ~HasContent(i)
    PROVE  seen[i] < Since - Window
  BY KeptCovers, KeptIsNat, WindowIsNat, BriefingAssumption
     DEF Inv, Emptied, Typed, TypeOK, Times, Never, Since

\* What a run fetched waits for the gate until the gate has tried it.
Owed ==
    /\ pc \in {"acquire", "select"} => \A i \in brought : HasContent(i) /\ ~Judged(i)
    /\ pc = "judge" => brought \subseteq tried \cup todo
    /\ pc = "page" => brought \subseteq tried

LEMMA OwedNext == LastsWindow /\ Inv /\ Owed /\ [Next]_vars => Owed'
  <1> SUFFICES ASSUME LastsWindow, Inv, Owed, [Next]_vars
               PROVE  Owed'
    OBVIOUS
  <1> USE DEF Inv, Typed, TypeOK, Times, Owed, Phases
  <1>1. ASSUME NEW outcome \in WebContent \cup YoutubeContent, Fetch(outcome) PROVE Owed'
    <2>1. Min(todo) \in todo /\ Min(todo) \in Items
      BY <1>1, NextInTodo DEF Fetch
    <2>2. InWindow(Min(todo)) /\ ~HasContent(Min(todo)) /\ Since = now
      BY <1>1, <2>1 DEF Fetch, Held, Since
    <2>3. ~Judged(Min(todo))
      BY <2>1, <2>2, EmptiedIsOver, WindowIsNat DEF InWindow, Never
    <2> QED BY <1>1, <2>1, <2>3 DEF Fetch, HasContent, Judged, Never
  <1>2. CASE Select
    <2>1. \A i \in brought : i \in Items /\ InWindow(i)
      BY <1>2 DEF Select, Held
    <2> QED BY <1>2, <2>1 DEF Select, Wanted
  <1>3. CASE Triage
    BY <1>3 DEF Triage
  <1>4. CASE JudgeDone
    BY <1>4 DEF JudgeDone
  <1>5. CASE pc' \notin {"acquire", "select", "judge", "page"}
    BY <1>5
  <1>6. CASE FetchSkipped \/ Acquired
    BY <1>6 DEF FetchSkipped, Acquired, HasContent, Judged
  <1>7. CASE (\E k \in {"scheduled", "manual", "reprocess"} : Start(k)) \/ Pending
    BY <1>7 DEF Start, Pending
  <1>8. CASE Tick \/ UNCHANGED vars
    BY <1>8 DEF Tick, vars, HasContent, Judged
  <1> QED BY <1>1, <1>2, <1>3, <1>4, <1>5, <1>6, <1>7, <1>8
          DEF Next, Ingest, Compose, Write, Notify, Prune, End, Abort, Over

\* The gate tries every text its run brought, however far back the retry window
\* let the acquire stage reach.
THEOREM FetchedIsTriedHolds ==
    ASSUME LastsWindow
    PROVE  Spec => []FetchedIsTried
  <1>1. Init => Inv /\ Owed
    BY InvInit DEF Init, Owed
  <1>2. Inv /\ Owed /\ [Next]_vars => (Inv /\ Owed)'
    BY InvNext, OwedNext, LastsWindow
  <1>3. Inv /\ Owed => FetchedIsTried
    BY DEF Owed, FetchedIsTried
  <1> QED BY <1>1, <1>2, <1>3, PTL DEF Spec

\* The next page's judged cards have verdicts of its day.
LEMMA ComposedOfTheDay ==
    ASSUME OutlastsWindow, Inv, pc # "idle",
           NEW c \in Composed, c.kind \in {"passed", "rejected"}
    PROVE  verdict[c.item].at >= DayStart(now)
  <1> USE DEF Inv, Typed, TypeOK, Times, Never
  <1>1. PICK i \in Items : OnPage(i) /\ c = Card(i)
    BY DEF Composed
  <1>2. Judged(i) /\ c.item = i
    BY <1>1 DEF Card
  <1>3. ~(~HasContent(i) /\ Expired(i))
    <2> SUFFICES ASSUME ~HasContent(i), Expired(i) PROVE FALSE
      OBVIOUS
    <2>1. RetentionDays > 0 /\ seen[i] < now - Kept
      BY <1>2 DEF Emptied, Since
    <2>2. Kept >= Window + DayLen
      BY <2>1, KeptOutlasts
    <2>3. seen[i] >= now - Window - DayLen
      BY DEF Expired
    <2> QED BY <2>1, <2>2, <2>3, KeptIsNat, WindowIsNat, BriefingAssumption
  <1> QED BY <1>1, <1>2, <1>3 DEF OnPage

\* Yesterday's verdicts stay off the page, for every length of the windows, as
\* long as retention outlasts the retry window by a day.
THEOREM VerdictOfTheDayHolds ==
    ASSUME OutlastsWindow
    PROVE  Spec => []VerdictOfTheDay
  <1> DEFINE Paged == Inv /\ VerdictOfTheDay
  <1>1. Init => Paged
    BY InvInit DEF Init, VerdictOfTheDay
  <1>2. Paged /\ [Next]_vars => Paged'
    <2> SUFFICES ASSUME Paged, [Next]_vars
                 PROVE  VerdictOfTheDay'
      BY InvNext
    <2> USE DEF VerdictOfTheDay, DayStart, DateOf
    <2>1. CASE Compose
      <3>1. page' = Composed /\ UNCHANGED <<verdict, now>> /\ pc # "idle"
        BY <2>1 DEF Compose, Composed
      <3> QED BY <3>1, ComposedOfTheDay
    <2>2. CASE page' = {}
      BY <2>2
    <2>3. CASE UNCHANGED <<page, now, verdict>>
      BY <2>3
    <2>4. CASE Triage
      BY <2>4 DEF Triage, Inv, Phases
    <2> QED BY <2>1, <2>2, <2>3, <2>4
            DEF Next, vars, Start, Ingest, Pending, Fetch, FetchSkipped, Acquired, Select,
                JudgeDone, Write, Notify, Prune, End, Abort, Over, Tick, Inv, Phases
  <1>3. Paged => VerdictOfTheDay
    OBVIOUS
  <1> QED BY <1>1, <1>2, <1>3, PTL DEF Spec

(***************************************************************************)
(* Briefing implements ItemLife: each step is a step of that life, or none. *)
(***************************************************************************)
\* The stages, one by one.
LEMMA StageIs ==
    ASSUME NEW i \in Items
    PROVE  /\ ~Known(i) => Stage(i) = "unseen"
           /\ Known(i) /\ Judged(i) /\ HasContent(i) => Stage(i) = "judged"
           /\ Known(i) /\ Judged(i) /\ ~HasContent(i) => Stage(i) = "archived"
           /\ Known(i) /\ ~Judged(i) /\ seen[i] < Since - Window => Stage(i) = "over"
           /\ Known(i) /\ ~Judged(i) /\ ~(seen[i] < Since - Window) =>
                 Stage(i) = IF HasContent(i) THEN "readable" ELSE "waiting"
  BY DEF Stage

\* A step that neither changes the tables nor moves the windows.
LEMMA LifeStutters ==
    ASSUME UNCHANGED tables, Since' = Since
    PROVE  UNCHANGED <<Stages, Passers>>
  <1>1. \A i \in Items : Stage(i)' = Stage(i)
    BY DEF Stage, Known, Judged, HasContent
  <1> QED BY <1>1 DEF Stages, Passers

\* Time that passes between runs ends the windows of some items.
LEMMA LifeExpires ==
    ASSUME Inv, UNCHANGED tables, Since \in Nat, Since' \in Nat, Since <= Since'
    PROVE  Life!Expire({i \in Items : Stage(i) # Stage(i)'})
  <1> DEFINE S == {i \in Items : Stage(i) # Stage(i)'}
  <1> USE DEF Known, Judged, HasContent
  <1>1. ASSUME NEW i \in S
        PROVE  Stage(i) \in {"waiting", "readable"} /\ Stage(i)' = "over"
    <2> USE DEF Stage
    <2>1. Known(i) /\ ~Judged(i)
      OBVIOUS
    <2>2. seen[i] \in Int
      BY DEF Inv, Typed, TypeOK, Times, Never
    <2>3. seen[i] < Since - Window => seen[i] < Since' - Window
      BY <2>2, WindowIsNat
    <2> QED BY <2>1, <2>3
  <1>2. [i \in Items |-> Stage(i)']
            = [i \in Items |-> IF i \in S THEN "over" ELSE [j \in Items |-> Stage(j)][i]]
    BY <1>1
  <1>3. Passers' = Passers
    BY DEF Passers
  <1> QED BY <1>1, <1>2, <1>3 DEF Life!Expire, Stages, Passers

LEMMA LifeSteps == LastsWindow /\ Inv /\ [Next]_vars => [Life!Next]_<<Stages, Passers>>
  <1> SUFFICES ASSUME LastsWindow, Inv, [Next]_vars
               PROVE  Life!Next \/ UNCHANGED <<Stages, Passers>>
    OBVIOUS
  <1>0. Since <= Since' /\ Since \in Nat /\ Since' \in Nat
    BY SinceGrows
  <1> USE <1>0, WindowIsNat DEF Inv, Typed, TypeOK, Times, Never
  <1>1. ASSUME NEW i \in Items, Ingest(i) PROVE Life!Next
    <2>1. ~Known(i) /\ ~Judged(i) /\ ~HasContent(i)
      BY <1>1 DEF Ingest, Known
    <2>2. seen'[i] = clock /\ Since' = now /\ Since = now /\ now <= clock
      BY <1>1 DEF Ingest, Since, Stamped
    <2>3. Stage(i) = "unseen" /\ Stage(i)' = "waiting"
      BY <1>1, <2>1, <2>2 DEF Ingest, Stage, Known, Judged, HasContent
    <2>4. \A j \in Items \ {i} : Stage(j)' = Stage(j)
      BY <1>1, <2>2 DEF Ingest, Stage, Known, Judged, HasContent
    <2>5. Life!Arrive(i)
      BY <1>1, <2>3, <2>4 DEF Life!Arrive, Stages, Passers, Ingest
    <2> QED BY <2>5 DEF Life!Next
  <1>2. ASSUME NEW outcome \in WebContent \cup YoutubeContent, Fetch(outcome)
        PROVE  Life!Next \/ UNCHANGED <<Stages, Passers>>
    <2>0. Since = now /\ Since' = now
      BY <1>2 DEF Fetch, Since
    <2>1. PICK i \in Items : i = Min(todo) /\ i \in todo /\ Since = now /\ Since' = now
      BY <1>2, <2>0, NextInTodo DEF Fetch
    <2>2. CASE outcome # "text"
      BY <1>2, <2>0, <2>2, LifeStutters DEF Fetch
    <2>3. CASE outcome = "text"
      <3>1. Known(i) /\ InWindow(i) /\ ~HasContent(i)
        BY <1>2, <2>1 DEF Fetch, Held
      <3>2. ~Judged(i)
        BY <2>1, <3>1, EmptiedIsOver DEF InWindow
      <3>3. fetched' = [fetched EXCEPT ![i] = clock] /\ UNCHANGED <<seen, verdict>>
        BY <1>2, <2>1, <2>3 DEF Fetch
      <3>4. Stage(i) = "waiting" /\ Stage(i)' = "readable"
        BY <2>1, <3>1, <3>2, <3>3 DEF Stage, Known, Judged, HasContent, InWindow
      <3>5. \A j \in Items \ {i} : Stage(j)' = Stage(j)
        BY <2>1, <3>3 DEF Stage, Known, Judged, HasContent
      <3>6. Life!Bring(i)
        BY <2>1, <3>3, <3>4, <3>5 DEF Life!Bring, Stages, Passers
      <3> QED BY <2>1, <3>6 DEF Life!Next
    <2> QED BY <2>2, <2>3
  <1>3. CASE Triage
    <2>0. Since = now /\ Since' = now
      BY <1>3 DEF Triage, Since
    <2>1. PICK i \in Items : i = Min(todo) /\ i \in todo /\ Since = now /\ Since' = now
      BY <1>3, <2>0, NextInTodo DEF Triage
    <2>2. UNCHANGED <<seen, fetched>> /\ Known(i) /\ HasContent(i)
          /\ (Judged(i) \/ InWindow(i))
      BY <1>3, <2>1 DEF Triage, Held
    <2>3. CASE UNCHANGED verdict
      BY <2>0, <2>2, <2>3, LifeStutters
    <2>4. ASSUME NEW ok \in BOOLEAN,
                 verdict' = [verdict EXCEPT ![i] = [at |-> clock, passed |-> ok]]
          PROVE  Life!Next
      <3>1. Stage(i) \in {"readable", "judged"}
        BY <2>1, <2>2 DEF Stage, InWindow
      <3>2. Stage(i)' = "judged"
        BY <2>1, <2>2, <2>4 DEF Stage, Known, Judged, HasContent, NoVerdict
      <3>3. \A j \in Items \ {i} : Stage(j)' = Stage(j) /\ verdict'[j] = verdict[j]
        BY <2>1, <2>2, <2>4 DEF Stage, Known, Judged, HasContent
      <3>4. verdict'[i].passed = ok
        BY <2>1, <2>4
      <3>5. Passers' \in {Passers \cup {i}, Passers \ {i}}
        <4>1. CASE ok
          BY <2>1, <3>3, <3>4, <4>1 DEF Passers
        <4>2. CASE ~ok
          BY <2>1, <3>3, <3>4, <4>2 DEF Passers
        <4> QED BY <4>1, <4>2
      <3>6. Life!Judge(i)
        BY <2>1, <3>1, <3>2, <3>3, <3>5 DEF Life!Judge, Stages, Passers
      <3> QED BY <2>1, <3>6 DEF Life!Next
    <2> QED BY <1>3, <2>1, <2>3, <2>4 DEF Triage
  <1>4. CASE Prune
    <2> DEFINE S == {i \in Items : Judged(i) /\ Outdated(i)}
    <2>1. UNCHANGED <<seen, verdict>> /\ Since' = now /\ Since = now
      BY <1>4 DEF Prune, Since
    <2>2. \A i \in Items : HasContent(i)' <=> HasContent(i) /\ ~Outdated(i)
      BY <1>4 DEF Prune, HasContent
    <2>3. \A i \in S : Stage(i) = "judged" /\ Stage(i)' = "archived"
      BY <2>1, <2>2 DEF Stage, Known, Judged, HasContent, Outdated
    <2>4. ASSUME NEW i \in Items, Outdated(i) PROVE seen[i] < now - Window
      <3>1. Kept >= Window
        BY <2>4, KeptCovers DEF Outdated
      <3>2. fetched[i] < now - Kept /\ seen[i] <= fetched[i]
        BY <2>4 DEF Outdated, Kept, Stamped
      <3> QED BY <3>1, <3>2, KeptIsNat, BriefingAssumption
    <2>5. \A i \in Items \ S : Stage(i)' = Stage(i)
      BY <2>1, <2>2, <2>4 DEF Stage, Known, Judged
    <2>6. Life!Archive(S)
      BY <2>1, <2>3, <2>5 DEF Life!Archive, Stages, Passers
    <2> QED BY <2>6 DEF Life!Next
  <1>5. CASE UNCHANGED tables
    BY <1>5, LifeExpires DEF Life!Next
  <1> QED BY <1>1, <1>2, <1>3, <1>4, <1>5
          DEF Next, vars, Start, Pending, FetchSkipped, Acquired, Select, JudgeDone, Compose,
              Write, Notify, End, Abort, Tick

\* Whatever the windows, the failures and the times at which runs start, an item
\* lives the one-way life of ItemLife, as long as retention lasts as long as the
\* retry window.
THEOREM ImplementsItemLifeHolds ==
    ASSUME LastsWindow
    PROVE  Spec => ImplementsItemLife
  <1>1. Init => Life!Init
    <2>1. ASSUME Init PROVE \A i \in Items : ~Known(i) /\ ~verdict[i].passed
      BY <2>1 DEF Init, Known, NoVerdict
    <2>2. ASSUME \A i \in Items : ~Known(i) PROVE \A i \in Items : Stage(i) = "unseen"
      BY <2>2, StageIs
    <2> QED BY <2>1, <2>2 DEF Life!Init, Stages, Passers
  <1>2. Inv /\ [Next]_vars => [Life!Next]_<<Stages, Passers>>
    BY LifeSteps, LastsWindow
  <1> QED BY <1>1, <1>2, InvAlways, PTL DEF Spec, Life!Spec, ImplementsItemLife
=============================================================================
