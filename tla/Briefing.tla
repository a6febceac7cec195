------------------------------- MODULE Briefing -------------------------------
(***************************************************************************)
(* What becomes of an item over the days: the acquire stage and its retry  *)
(* window, the gate's look back, the three ways onto the page, the digest   *)
(* and the retention of src/tattoo/pipeline.py.                            *)
(*                                                                         *)
(* Every window is measured from the start of a run, while items, content  *)
(* and verdicts are stamped when they are stored: a run may take long and  *)
(* cross midnight.  Runs come one after the other here, at any time and of *)
(* any kind; Gate explores two at once.  All sources are enabled and the   *)
(* gate has its api key.                                                   *)
(*                                                                         *)
(* Time is a count of instants, DayLen to a local day.                     *)
(***************************************************************************)
EXTENDS Integers, FiniteSetsExt

CONSTANTS
    NumItems,       \* items the feeds bring, by row id
    Youtube,        \* those of a youtube source
    Shadow,         \* settings.shadow_mode
    DayLen,
    RetryDays,      \* ACQUIRE_RETRY_DAYS
    RetentionDays,  \* settings.retention_days
    MaxClock,       \* bounds: instants, ...
    MaxRuns,        \* ... runs ...
    MaxAborts       \* ... and the runs an exception or a crash cuts short

Items == 1 .. NumItems

ASSUME BriefingAssumption ==
    /\ NumItems \in Nat
    /\ Youtube \subseteq Items
    /\ Shadow \in BOOLEAN
    /\ DayLen \in Nat \ {0}
    /\ RetryDays \in Nat
    /\ RetentionDays \in Nat
    /\ MaxClock \in Nat /\ MaxRuns \in Nat /\ MaxAborts \in Nat

VARIABLES
    clock,
    seen,       \* items.first_seen_at, or Never
    fetched,    \* content.fetched_at, or Never without a content row
    verdict,    \* the latest row of judgments, whose created_at is the last too
    page,       \* the cards of the run's page, written from "notify" on
    push,       \* the digest the run handed to the notifier
    pc, runs,   \* where the run is, and how many there were;
    reason,     \* why it runs,
    now,        \* ... when it started,
    todo,       \* ... the items selected and not yet reached,
    blocked,    \* ... and youtube_blocked
    brought,    \* history: the items this run fetched, ...
    tried,      \* ... tried to judge ...
    passed,     \* ... and passed;
    dropped,    \* ... those fetched by a run that never wrote its page,
    told,       \* ... and those that were ever on a page
    aborts

time    == <<clock, aborts>>
tables  == <<seen, fetched, verdict>>
pages   == <<page, push>>
local   == <<runs, reason, now, todo, blocked>>
work    == <<brought, tried, passed>>
history == <<dropped, told>>
vars    == <<time, tables, pages, pc, local, work, history>>

Never     == -1
NoVerdict == [at |-> Never, passed |-> FALSE]

DateOf(t)   == t \div DayLen
DayStart(t) == DateOf(t) * DayLen         \* _local_day_start_utc

Window        == RetryDays * DayLen
Known(i)      == seen[i] # Never
InWindow(i)   == Known(i) /\ seen[i] >= now - Window
HasContent(i) == fetched[i] # Never
Judged(i)     == verdict[i] # NoVerdict

Init ==
    /\ clock = 0
    /\ aborts = 0
    /\ seen = [i \in Items |-> Never]
    /\ fetched = [i \in Items |-> Never]
    /\ verdict = [i \in Items |-> NoVerdict]
    /\ page = {}
    /\ push = "none"
    /\ pc = "idle"
    /\ runs = 0
    /\ reason = "none"
    /\ now = 0
    /\ todo = {}
    /\ blocked = FALSE
    /\ brought = {} /\ tried = {} /\ passed = {}
    /\ dropped = {}
    /\ told = {}

(***************************************************************************)
(* A run: poll, acquire, judge, page, digest, retention.                   *)
(***************************************************************************)
Start(k) ==
    /\ pc = "idle"
    /\ runs < MaxRuns
    /\ runs' = runs + 1
    /\ reason' = k
    /\ now' = clock
    /\ pc' = IF k = "reprocess" THEN "select" ELSE "poll"
    /\ UNCHANGED <<time, tables, pages, todo, blocked, work, history>>

\* The poll stage stores an item.
Ingest(i) ==
    /\ pc = "poll"
    /\ seen[i] = Never
    /\ \A j \in 1 .. i - 1 : seen[j] # Never
    /\ seen' = [seen EXCEPT ![i] = clock]
    /\ UNCHANGED <<time, fetched, verdict, pages, pc, local, work, history>>

\* Mutant of Pending: no bound on first_seen_at.
PendingEver ==
    /\ pc = "poll"
    /\ todo' = {i \in Items : ~HasContent(i)}
    /\ blocked' = FALSE
    /\ pc' = "acquire"
    /\ UNCHANGED <<time, tables, pages, runs, reason, now, work, history>>

\* _acquire_stage selects what has no content and is inside the retry window.
Pending ==
    /\ pc = "poll"
    /\ todo' = {i \in Items : InWindow(i) /\ ~HasContent(i)}
    /\ blocked' = FALSE
    /\ pc' = "acquire"
    /\ UNCHANGED <<time, tables, pages, runs, reason, now, work, history>>

\* What an adapter's content() comes to: a text, full or degraded; none, or an
\* exception; and from youtube, a sign that it blocks.
WebContent     == {"text", "nothing"}
YoutubeContent == {"text", "nothing", "blocked"}
Content(i)     == IF i \in Youtube THEN YoutubeContent ELSE WebContent

\* The next item's text is stored, or the item is left for a later run.  The
\* first block ends the youtube fetches of this run.
Fetch(outcome) ==
    /\ pc = "acquire"
    /\ todo # {}
    /\ LET i == Min(todo)
       IN  /\ outcome \in Content(i)
           /\ i \in Youtube => ~blocked
           /\ todo' = todo \ {i}
           /\ blocked' = (blocked \/ outcome = "blocked")
           /\ fetched' = IF outcome = "text" THEN [fetched EXCEPT ![i] = clock] ELSE fetched
           /\ brought' = IF outcome = "text" THEN brought \cup {i} ELSE brought
    /\ UNCHANGED <<time, seen, verdict, pages, pc, runs, reason, now, tried, passed,
                   history>>

FetchSkipped ==
    /\ pc = "acquire"
    /\ todo # {}
    /\ blocked /\ Min(todo) \in Youtube
    /\ todo' = todo \ {Min(todo)}
    /\ UNCHANGED <<time, tables, pages, pc, runs, reason, now, blocked, work, history>>

Acquired ==
    /\ pc = "acquire"
    /\ todo = {}
    /\ pc' = "select"
    /\ UNCHANGED <<time, tables, pages, local, work, history>>

\* Mutant of Wanted: the gate looks at today's items only.
WantedToday ==
    {i \in Items : /\ HasContent(i)
                   /\ IF reason = "reprocess" THEN Judged(i) /\ verdict[i].at >= DayStart(now)
                      ELSE ~Judged(i) /\ seen[i] >= DayStart(now)}

\* A reprocess takes what was judged today, any other run what is inside the
\* retry window and was never judged.
Wanted ==
    {i \in Items : /\ HasContent(i)
                   /\ IF reason = "reprocess" THEN Judged(i) /\ verdict[i].at >= DayStart(now)
                      ELSE ~Judged(i) /\ InWindow(i)}

Select ==
    /\ pc = "select"
    /\ todo' = Wanted
    /\ pc' = "judge"
    /\ UNCHANGED <<time, tables, pages, runs, reason, now, blocked, work, history>>

\* triage_item records a verdict, or it raises and the item stays as it was.
Triage ==
    /\ pc = "judge"
    /\ todo # {}
    /\ LET i == Min(todo)
       IN  /\ todo' = todo \ {i}
           /\ tried' = tried \cup {i}
           /\ \/ UNCHANGED <<verdict, passed>>
              \/ \E ok \in BOOLEAN :
                    /\ verdict' = [verdict EXCEPT ![i] = [at |-> clock, passed |-> ok]]
                    /\ passed' = IF ok THEN passed \cup {i} ELSE passed
    /\ UNCHANGED <<time, seen, fetched, pages, pc, runs, reason, now, blocked, brought,
                   history>>

JudgeDone ==
    /\ pc = "judge"
    /\ todo = {}
    /\ pc' = "page"
    /\ UNCHANGED <<time, tables, pages, local, work, history>>

\* The retry window of the item ended within the last day.
Expired(i) == Known(i) /\ seen[i] < now - Window /\ seen[i] >= now - Window - DayLen

\* Mutants of OnPage: items keyed by the day they were first seen, and items
\* with content only.
OnPageFirstSeen(i) == Known(i) /\ seen[i] >= DayStart(now)
OnPageFetched(i) ==
    \/ Judged(i) /\ verdict[i].at >= DayStart(now)
    \/ HasContent(i) /\ ~Judged(i) /\ InWindow(i)

\* _sections_for_today: judged today, or with content and no verdict inside
\* the window, or never fetched and just expired.
OnPage(i) ==
    \/ Judged(i) /\ verdict[i].at >= DayStart(now)
    \/ HasContent(i) /\ ~Judged(i) /\ InWindow(i)
    \/ ~HasContent(i) /\ Expired(i)

Card(i) ==
    [item |-> i,
     kind |-> IF Judged(i) THEN IF verdict[i].passed THEN "passed" ELSE "rejected"
              ELSE IF HasContent(i) THEN "unjudged" ELSE "unavailable"]

\* A rejection is shown in shadow mode only.
Compose ==
    /\ pc = "page"
    /\ page' = {c \in {Card(i) : i \in {i \in Items : OnPage(i)}} :
                   c.kind = "rejected" => Shadow}
    /\ pc' = "write"
    /\ UNCHANGED <<time, tables, push, local, work, history>>

\* write_pages: the page of the run's date and its copy, the dashboard.
Write ==
    /\ pc = "write"
    /\ told' = told \cup {c.item : c \in page}
    /\ pc' = "notify"
    /\ UNCHANGED <<time, tables, pages, local, work, dropped>>

\* _digest: the passed items, or else NSTR when there are none at all or some
\* item has a score, or else how many there are.
Digest(cards) ==
    IF \E c \in cards : c.kind = "passed" THEN "briefing"
    ELSE IF cards = {} \/ \E c \in cards : c.kind = "rejected" THEN "NSTR"
    ELSE "counts"

\* The notifier drops an NSTR, and never raises.
Notify ==
    /\ pc = "notify"
    /\ push' = Digest(page)
    /\ pc' = IF reason = "scheduled" THEN "prune" ELSE "end"
    /\ UNCHANGED <<time, tables, page, local, work, history>>

\* Mutant of Outdated: content is kept for one day.
OutdatedNextDay(i) == HasContent(i) /\ fetched[i] < now - DayLen

\* _prune_retention: content goes, items and verdicts stay.
Outdated(i) ==
    /\ RetentionDays > 0
    /\ HasContent(i)
    /\ fetched[i] < now - RetentionDays * DayLen

Prune ==
    /\ pc = "prune"
    /\ fetched' = [i \in Items |-> IF Outdated(i) THEN Never ELSE fetched[i]]
    /\ pc' = "end"
    /\ UNCHANGED <<time, seen, verdict, pages, local, work, history>>

\* The run is gone, with all it held in memory.
Over ==
    /\ pc' = "idle"
    /\ reason' = "none"
    /\ now' = 0
    /\ todo' = {}
    /\ blocked' = FALSE
    /\ page' = {}
    /\ push' = "none"
    /\ brought' = {} /\ tried' = {} /\ passed' = {}

End ==
    /\ pc = "end"
    /\ Over
    /\ UNCHANGED <<time, tables, runs, history>>

\* An exception leaves the stages, or the process dies: what was committed
\* stays, and the rest of the run never happens.
Abort ==
    /\ pc \notin {"idle", "end"}
    /\ aborts < MaxAborts
    /\ aborts' = aborts + 1
    /\ dropped' = IF pc \in {"notify", "prune"} THEN dropped ELSE dropped \cup brought
    /\ Over
    /\ UNCHANGED <<clock, tables, runs, told>>

\* Time passes where some step reads the clock next; elsewhere it could as
\* well have passed before.
Tick ==
    /\ clock < MaxClock
    /\ pc \in {"idle", "poll", "acquire", "judge"}
    /\ clock' = clock + 1
    /\ UNCHANGED <<aborts, tables, pages, pc, local, work, history>>

Next ==
    \/ \E k \in {"scheduled", "manual", "reprocess"} : Start(k)
    \/ \E i \in Items : Ingest(i)
    \/ Pending \/ Acquired \/ FetchSkipped
    \/ \E outcome \in WebContent \cup YoutubeContent : Fetch(outcome)
    \/ Select \/ Triage \/ JudgeDone
    \/ Compose \/ Write \/ Notify \/ Prune \/ End
    \/ Abort \/ Tick

Spec == Init /\ [][Next]_vars

(***************************************************************************)
(* Properties.                                                             *)
(***************************************************************************)
Times == {Never} \cup 0 .. MaxClock
Kinds == {"passed", "rejected", "unjudged", "unavailable"}
Cards == [item : Items, kind : Kinds]

\* Every variable keeps the shape the schema and the code give it, and a
\* content row or a verdict belongs to an item.
TypeOK ==
    /\ clock \in 0 .. MaxClock
    /\ aborts \in 0 .. MaxAborts
    /\ seen \in [Items -> Times]
    /\ fetched \in [Items -> Times]
    /\ verdict \in [Items -> [at : Times, passed : BOOLEAN]]
    /\ \A i \in Items : HasContent(i) \/ Judged(i) => Known(i)
    /\ page \in SUBSET Cards
    /\ push \in {"none", "NSTR", "briefing", "counts"}
    /\ pc \in {"idle", "poll", "acquire", "select", "judge", "page", "write",
               "notify", "prune", "end"}
    /\ runs \in 0 .. MaxRuns
    /\ reason \in {"none", "scheduled", "manual", "reprocess"}
    /\ now \in 0 .. MaxClock
    /\ todo \in SUBSET Items
    /\ blocked \in BOOLEAN
    /\ brought \in SUBSET Items
    /\ tried \in SUBSET Items
    /\ passed \in SUBSET Items
    /\ dropped \in SUBSET Items
    /\ told \in SUBSET Items

\* An item a run passed is on the page of that run, however late it was
\* fetched and whatever midnight went by.
JudgedIsShown ==
    pc = "notify" =>
        \A i \in passed : \E c \in page : c.item = i /\ c.kind = "passed"

\* The gate looks back as far as the acquire stage does: the run that brings
\* an item's content also tries to judge it.
FetchedIsTried == pc = "page" => brought \subseteq tried

\* No item goes by in silence: once a run has written its page on the day
\* after an item's window, the item has been on a page or has been judged,
\* unless the run that fetched it never wrote a page.
NothingLost ==
    pc = "notify" =>
        \A i \in Items : Expired(i) => i \in told \/ Judged(i) \/ i \in dropped

\* Yesterday's news stays off: a verdict on the page was given that day or
\* later, and pruned content does not bring an item back (retention at least
\* a day longer than the retry window).
VerdictOfTheDay ==
    \A c \in page : c.kind \in {"passed", "rejected"} => verdict[c.item].at >= DayStart(now)

\* The moment windows are measured from: the start of the run in progress, or
\* of one that would start now.
Since == IF pc = "idle" THEN clock ELSE now

Stage(i) ==
    IF ~Known(i)                       THEN "unseen"
    ELSE IF Judged(i)                  THEN IF HasContent(i) THEN "judged" ELSE "archived"
    ELSE IF seen[i] < Since - Window   THEN "over"
    ELSE IF HasContent(i)              THEN "readable" ELSE "waiting"

Stages  == [i \in Items |-> Stage(i)]
Passers == {i \in Items : verdict[i].passed}

Life == INSTANCE ItemLife WITH stage <- Stages, passed <- Passers

\* Runs, windows, failures and retention come down to the one-way life of
\* ItemLife: a text is fetched once, nobody is judged unread, late or after the
\* text is gone (retention at least as long as the retry window).
ImplementsItemLife == Life!Spec
=============================================================================
