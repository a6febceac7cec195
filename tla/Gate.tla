--------------------------------- MODULE Gate ---------------------------------
(***************************************************************************)
(* The gate of src/tattoo: runs that triage and extract items through an   *)
(* LLM (pipeline.py, judge.py), several of them at once, each on its own   *)
(* sqlite connection.                                                      *)
(*                                                                         *)
(* A scheduled or manual run belongs to the scheduler thread, so one is    *)
(* live at a time; POST /api/reprocess starts a thread of its own for each *)
(* request.  An LLM call is in flight between two actions, and everything  *)
(* else may happen meanwhile: other runs, a new prompt, a purge, a crash.  *)
(*                                                                         *)
(* Python's sqlite3 opens a transaction at the first write and nothing in  *)
(* the code rolls one back, so a failed statement leaves it open.  tx says  *)
(* what a connection then holds, pend the rows it has not committed.  A    *)
(* write and the commit right after it are one action: the busy timeout of *)
(* five seconds outlasts them.                                             *)
(*                                                                         *)
(* One local day is modelled.  Feeds, caps and days are the business of    *)
(* Ingest; fetching is reduced to an item arriving with its content.       *)
(***************************************************************************)
EXTENDS Integers, FiniteSets, FiniteSetsExt

CONSTANTS
    Articles,    \* what a feed may carry
    Sources,     \* the sources in the table at the start
    SourceOf,    \* the source an article belongs to
    Purgeable,   \* sources the operator may purge
    Shadow,      \* settings.shadow_mode
    Kinds,       \* the kinds of run started
    Bodies,      \* what an extraction may hold: all asked for, or less
    Null,        \* no item
    MaxRuns,     \* bounds: runs started, ...
    MaxItems,    \* ... items up to which a poll brings in more, ...
    MaxEdits,    \* ... prompt saves and enable/disable edits, ...
    MaxCrashes   \* ... and process deaths

ASSUME GateAssumption ==
    /\ SourceOf \in [Articles -> Sources]
    /\ Purgeable \subseteq Sources
    /\ Shadow \in BOOLEAN
    /\ Kinds \subseteq {"scheduled", "manual", "reprocess"}
    /\ Bodies \subseteq {"full", "hole"}
    /\ Null \notin Articles
    /\ IsFiniteSet(Articles)
    /\ MaxRuns \in Nat
    /\ MaxItems \in Nat
    /\ MaxEdits \in Nat
    /\ MaxCrashes \in Nat

Runs == 1 .. MaxRuns
Ids  == 1 .. Cardinality(Articles)

VARIABLES
    sources,      \* rows of sources, and those with enabled = 1
    enabled,
    items,        \* items: row id -> article, with its content row
    judgments,    \* rows of judgments and extractions; a row's id is its order
    extractions,
    prompt,       \* the version the prompt pointer names
    runs,         \* rows of runs
    kind, pc,     \* a run in progress: its reason and where it is,
    todo,         \* ... the item ids selected and not yet reached,
    cur,          \* ... the item, its row as read, and the prompt in flight,
    failed,       \* ... whether an exception left its stages,
    count,        \* ... and counts["judged"], counts["passed"]
    tx,           \* what the run's connection holds of the database file
    pend,         \* its uncommitted rows
    draft,        \* ... and the cards it has composed and not yet written
    page,         \* the cards on the dashboard
    edits, crashes,
    astray        \* history: the calls in flight when their item was purged

tables   == <<sources, enabled, items>>
verdicts == <<judgments, extractions>>
local    == <<kind, todo, cur, failed, count, draft>>
bounds   == <<edits, crashes, astray>>
vars     == <<tables, verdicts, prompt, runs, local, pc, tx, pend, page, bounds>>

NoPend == [judgments |-> {}, extractions |-> {}, calls |-> 0, landed |-> Null]
NoCur  == [item |-> 0, article |-> Null, prompt |-> 0]
NoRow  == [status |-> "none", judged |-> 0, passed |-> 0, calls |-> 0]
Zero   == [judged |-> 0, passed |-> 0]

Init ==
    /\ sources = Sources
    /\ enabled = Sources
    /\ items = [i \in Ids |-> Null]
    /\ judgments = {}
    /\ extractions = {}
    /\ prompt = 1
    /\ runs = [r \in Runs |-> NoRow]
    /\ kind = [r \in Runs |-> "none"]
    /\ pc = [r \in Runs |-> "idle"]
    /\ todo = [r \in Runs |-> {}]
    /\ cur = [r \in Runs |-> NoCur]
    /\ failed = [r \in Runs |-> FALSE]
    /\ count = [r \in Runs |-> Zero]
    /\ tx = [r \in Runs |-> "none"]
    /\ pend = [r \in Runs |-> NoPend]
    /\ draft = [r \in Runs |-> {}]
    /\ page = {}
    /\ edits = 0
    /\ crashes = 0
    /\ astray = {}

(***************************************************************************)
(* Database locks.  "open" is a transaction that holds nothing yet, "shared" *)
(* one that has read, "reserved" one that has written, "pending" one whose *)
(* commit was refused while another connection still held a shared lock.   *)
(***************************************************************************)
Writes(t) == t \in {"reserved", "pending"}

MayRead(r)   == tx[r] \in {"shared", "reserved", "pending"}
                \/ \A s \in Runs \ {r} : tx[s] # "pending"
MayWrite(r)  == \A s \in Runs \ {r} : ~Writes(tx[s])
MayCommit(r) == \A s \in Runs \ {r} : tx[s] # "shared"

AfterRead(r)         == IF tx[r] = "open" THEN "shared" ELSE tx[r]
AfterRefusedWrite(r) == IF tx[r] = "none" THEN "open" ELSE tx[r]

\* A request handler's own connection: it writes and commits at once, or it
\* answers 500 and closes, and then nothing has changed.
RequestMayWrite == \A s \in Runs : ~Writes(tx[s]) /\ tx[s] # "shared"

\* What the connection of r reads: committed rows and its own.
SeenJudgments(r)   == judgments \cup pend[r].judgments
SeenExtractions(r) == extractions \cup pend[r].extractions

\* INTEGER PRIMARY KEY without AUTOINCREMENT: the largest id in use plus one,
\* so the id of a deleted last row is given out again.
NewId(used) == 1 + Max(used \cup {0})

\* conn.commit() succeeds: the rows given and the pending ones are durable.
Stored(r, js, xs, n) ==
    /\ MayWrite(r)
    /\ MayCommit(r)
    /\ judgments' = judgments \cup pend[r].judgments \cup js
    /\ extractions' = extractions \cup pend[r].extractions \cup xs
    /\ runs' = [runs EXCEPT ![r].calls = @ + pend[r].calls + n]
    /\ pend' = [pend EXCEPT ![r] = NoPend]
    /\ tx' = [tx EXCEPT ![r] = "none"]

\* The write, or the commit after it, raises "database is locked".  A refused
\* commit leaves its rows with the connection.
Refused(r, js, xs, n) ==
    /\ \/ /\ ~MayWrite(r)
          /\ tx' = [tx EXCEPT ![r] = AfterRefusedWrite(r)]
          /\ UNCHANGED pend
       \/ /\ MayWrite(r)
          /\ ~MayCommit(r)
          /\ tx' = [tx EXCEPT ![r] = "pending"]
          /\ pend' = [pend EXCEPT ![r] = [judgments   |-> @.judgments \cup js,
                                          extractions |-> @.extractions \cup xs,
                                          calls       |-> @.calls + n,
                                          landed      |-> @.landed]]
    /\ UNCHANGED <<verdicts, runs>>

\* A statement fails after the write lock was taken: the rows it follows stay
\* uncommitted and the lock stays held.
Broken(r, xs) ==
    /\ MayWrite(r)
    /\ tx' = [tx EXCEPT ![r] = "reserved"]
    /\ pend' = [pend EXCEPT ![r].extractions = @ \cup xs]
    /\ UNCHANGED <<verdicts, runs>>

Normal == {"scheduled", "manual"}
Live(r) == pc[r] \notin {"idle", "done"}

\* A card whose verdict or body is still to be looked up.
Unread(c) == c.verdict = "unread" \/ c.body = "unread"

Goto(r, label) == pc' = [pc EXCEPT ![r] = label]

\* An exception leaves the stages, and what they had in hand is gone.
Fail(r) ==
    /\ failed' = [failed EXCEPT ![r] = TRUE]
    /\ todo' = [todo EXCEPT ![r] = {}]
    /\ cur' = [cur EXCEPT ![r] = NoCur]
    /\ draft' = [draft EXCEPT ![r] = {}]
    /\ Goto(r, "close")

(***************************************************************************)
(* A run, stage by stage.                                                  *)
(***************************************************************************)

\* run() looks for the prompts and inserts its row before the try: refused, it
\* raises with no trace.  The scheduler thread runs one pipeline at a time.
Start(r, k) ==
    /\ pc[r] = "idle"
    /\ \A q \in 1 .. r - 1 : pc[q] # "idle"
    /\ k \in Kinds
    /\ k \in Normal => \A q \in Runs : Live(q) => kind[q] \notin Normal
    /\ MayWrite(r) /\ MayCommit(r)
    /\ runs' = [runs EXCEPT ![r].status = "running"]
    /\ kind' = [kind EXCEPT ![r] = k]
    /\ Goto(r, "zone")
    /\ UNCHANGED <<tables, verdicts, prompt, todo, cur, failed, count, draft, tx,
                   pend, page, bounds>>

\* The time zone is read outside the try, too, and the row is there by now.
Zone(r) ==
    /\ pc[r] = "zone"
    /\ MayRead(r)
    /\ tx' = [tx EXCEPT ![r] = AfterRead(r)]
    /\ Goto(r, "poll")
    /\ UNCHANGED <<tables, verdicts, prompt, runs, local, pend, page, bounds>>

\* What raises out of run() takes the connection with it, and whatever was
\* uncommitted; the row stays as it was.
Dropped(r) ==
    /\ pend' = [pend EXCEPT ![r] = NoPend]
    /\ tx' = [tx EXCEPT ![r] = "none"]
    /\ Goto(r, "done")
    /\ UNCHANGED <<tables, verdicts, prompt, runs, local, page, bounds>>

ZoneRefused(r) ==
    /\ pc[r] = "zone"
    /\ ~MayRead(r)
    /\ Dropped(r)

\* A reprocess fetches nothing.
Polling(r) == pc[r] = "poll" /\ kind[r] \in Normal

\* An article the poll may bring in, and the items with it there.
New(a) == SourceOf[a] \in enabled /\ \A i \in Ids : items[i] # a
WithItem(a) == [items EXCEPT ![NewId({i \in Ids : items[i] # Null})] = a]

\* Poll and acquire, for one article: its item row and its content row.  BOUND:
\* MaxItems.
Land(r, a) ==
    /\ Polling(r)
    /\ New(a)
    /\ Cardinality({i \in Ids : items[i] # Null}) < MaxItems
    /\ MayWrite(r) /\ MayCommit(r)
    /\ items' = WithItem(a)
    /\ UNCHANGED <<sources, enabled, verdicts, prompt, runs, local, pc, tx, pend,
                   page, bounds>>

\* A source's bookkeeping write raises, which is outside base.safe().
PollRefused(r) ==
    /\ Polling(r)
    /\ Refused(r, {}, {}, 0)
    /\ Fail(r)
    /\ UNCHANGED <<tables, prompt, kind, count, page, bounds>>

\* What raises is the commit of an article's rows: they stay with the connection.
LandRefused(r, a) ==
    /\ Polling(r)
    /\ New(a)
    /\ MayWrite(r)
    /\ ~MayCommit(r)
    /\ tx' = [tx EXCEPT ![r] = "pending"]
    /\ pend' = [pend EXCEPT ![r].landed = a]
    /\ Fail(r)
    /\ UNCHANGED <<tables, verdicts, runs, prompt, kind, count, page, bounds>>

\* Mutant of Wanted: a normal run forgets to leave out what was judged.
WantedAgain(r) ==
    IF kind[r] \in Normal THEN Ids ELSE {j.item : j \in SeenJudgments(r)}

\* A normal run wants what was never judged, a reprocess what was.
Wanted(r) ==
    LET judged == {j.item : j \in SeenJudgments(r)}
    IN  IF kind[r] \in Normal THEN Ids \ judged ELSE judged

\* The poll is over: _judge_stage selects its rows, from enabled sources only.
Select(r) ==
    /\ pc[r] = "poll"
    /\ MayRead(r)
    /\ todo' = [todo EXCEPT ![r] =
                   {i \in Wanted(r) : items[i] # Null /\ SourceOf[items[i]] \in enabled}]
    /\ tx' = [tx EXCEPT ![r] = AfterRead(r)]
    /\ Goto(r, "next")
    /\ UNCHANGED <<tables, verdicts, prompt, runs, kind, cur, failed, count, draft,
                   pend, page, bounds>>

\* The next item is read and its triage call goes out with the prompt that is
\* current now.
Take(r) ==
    /\ pc[r] = "next"
    /\ todo[r] # {}
    /\ MayRead(r)
    /\ LET i == Min(todo[r])
       IN  /\ items[i] # Null
           /\ todo' = [todo EXCEPT ![r] = @ \ {i}]
           /\ cur' = [cur EXCEPT ![r] = [item |-> i, article |-> items[i],
                                         prompt |-> prompt]]
    /\ tx' = [tx EXCEPT ![r] = AfterRead(r)]
    /\ Goto(r, "triage")
    /\ UNCHANGED <<tables, verdicts, prompt, runs, kind, failed, count, draft, pend,
                   page, bounds>>

\* The next item was purged since the selection: item["id"] raises on None,
\* outside the try that guards triage.
TakePurged(r) ==
    /\ pc[r] = "next"
    /\ todo[r] # {}
    /\ MayRead(r)
    /\ items[Min(todo[r])] = Null
    /\ tx' = [tx EXCEPT ![r] = AfterRead(r)]
    /\ Fail(r)
    /\ UNCHANGED <<tables, verdicts, prompt, runs, kind, count, pend, page, bounds>>

\* A read outside every inner try meets a pending lock.
ReadRefused(r) ==
    /\ \/ pc[r] \in {"poll", "next"}
       \/ pc[r] = "cards" /\ \E c \in draft[r] : Unread(c)
    /\ ~MayRead(r)
    /\ Fail(r)
    /\ UNCHANGED <<tables, verdicts, prompt, runs, kind, count, tx, pend, page, bounds>>

\* Mutant of Pay: extraction calls are not recorded.
PayTriageOnly(r) ==
    /\ pc[r] \in {"triage", "extract"}
    /\ MayRead(r)
    /\ Stored(r, {}, {}, IF pc[r] = "triage" THEN 1 ELSE 0)
    /\ Goto(r, IF pc[r] = "triage" THEN "verdict" ELSE "store")
    /\ UNCHANGED <<tables, prompt, local, page, bounds>>

\* call_llm returns and _record_usage commits the tokens spent.
Pay(r) ==
    /\ pc[r] \in {"triage", "extract"}
    /\ MayRead(r)
    /\ Stored(r, {}, {}, 1)
    /\ Goto(r, IF pc[r] = "triage" THEN "verdict" ELSE "store")
    /\ UNCHANGED <<tables, prompt, local, page, bounds>>

\* ... or cannot record them, and the item is skipped.
PayRefused(r) ==
    /\ pc[r] \in {"triage", "extract"}
    /\ IF MayRead(r) THEN Refused(r, {}, {}, 1)
       ELSE UNCHANGED <<verdicts, runs, tx, pend>>
    /\ ~(MayRead(r) /\ MayWrite(r) /\ MayCommit(r))
    /\ Goto(r, "next")
    /\ UNCHANGED <<tables, prompt, local, page, bounds>>

\* The call raises before it is paid for, or its reply is of no use: refused,
\* empty, truncated, not the json asked for, an extraction with no bluf and no
\* findings.  The item is skipped.
Skip(r) ==
    /\ pc[r] \in {"triage", "extract", "verdict", "store"}
    /\ Goto(r, "next")
    /\ UNCHANGED <<tables, verdicts, prompt, runs, local, tx, pend, page, bounds>>

\* triage_item records its verdict; foreign keys are on, so a purged item
\* refuses it.
Judgment(r, ok) == [id |-> NewId({j.id : j \in SeenJudgments(r)}),
                    item |-> cur[r].item, run |-> r, prompt |-> cur[r].prompt,
                    passed |-> ok, article |-> cur[r].article]

\* Mutants of Tally and AfterVerdict.
TallyAll(c, ok)      == [judged |-> c.judged + 1, passed |-> c.passed + 1]
TallyDown(c, ok)     == [judged |-> c.judged + 1, passed |-> c.passed + IF ok THEN 1 ELSE -1]
ExtractAnyway(ok)    == "extract"

\* counts["judged"], counts["passed"]; a rejected item is not extracted.
Tally(c, ok)     == [judged |-> c.judged + 1, passed |-> c.passed + IF ok THEN 1 ELSE 0]
AfterVerdict(ok) == IF ok THEN "extract" ELSE "next"

Judge(r, ok) ==
    /\ pc[r] = "verdict"
    /\ items[cur[r].item] # Null
    /\ Stored(r, {Judgment(r, ok)}, {}, 0)
    /\ count' = [count EXCEPT ![r] = Tally(@, ok)]
    /\ Goto(r, AfterVerdict(ok))
    /\ UNCHANGED <<tables, prompt, kind, todo, cur, failed, draft, page, bounds>>

JudgeRefused(r, ok) ==
    /\ pc[r] = "verdict"
    /\ MayWrite(r) => items[cur[r].item] # Null
    /\ Refused(r, {Judgment(r, ok)}, {}, 0)
    /\ Goto(r, "next")
    /\ UNCHANGED <<tables, prompt, local, page, bounds>>

\* extract_item inserts the extraction, then its findings, then commits.  The
\* body is a "hole" when there is no bluf and no finding had any text.  raised
\* and, in both tables, article are history: did extract_item raise after the
\* INSERT, and which article was read.
Extraction(r, body, raised) ==
    [id |-> NewId({x.id : x \in SeenExtractions(r)}), item |-> cur[r].item,
     run |-> r, body |-> body, article |-> cur[r].article, raised |-> raised]

Extract(r, body) ==
    /\ pc[r] = "store"
    /\ items[cur[r].item] # Null
    /\ Stored(r, {}, {Extraction(r, body, FALSE)}, 0)
    /\ Goto(r, "next")
    /\ UNCHANGED <<tables, prompt, local, page, bounds>>

ExtractRefused(r, body) ==
    /\ pc[r] = "store"
    /\ MayWrite(r) => items[cur[r].item] # Null
    /\ Refused(r, {}, {Extraction(r, body, TRUE)}, 0)
    /\ Goto(r, "next")
    /\ UNCHANGED <<tables, prompt, local, page, bounds>>

\* findings is not the list of objects asked for: the extraction row is in,
\* and building a finding raises.
ExtractBreaks(r, body) ==
    /\ pc[r] = "store"
    /\ items[cur[r].item] # Null
    /\ Broken(r, {Extraction(r, body, TRUE)})
    /\ Goto(r, "next")
    /\ UNCHANGED <<tables, prompt, local, page, bounds>>

\* A purged item refuses a verdict or an extraction: the INSERT fails on its
\* foreign key.
InsertOrphan(r) ==
    /\ pc[r] \in {"verdict", "store"}
    /\ items[cur[r].item] = Null
    /\ Broken(r, {})
    /\ Goto(r, "next")
    /\ UNCHANGED <<tables, prompt, local, page, bounds>>

(***************************************************************************)
(* The page.  Every item of the day has content here, so all are on it but *)
(* the rejected ones, which only shadow mode shows.                        *)
(***************************************************************************)
Last(rows) == CHOOSE x \in rows : \A y \in rows : y.id <= x.id

\* An item as the day's list has it, before its verdict is looked up.
Blank(i) ==
    [item |-> i, article |-> items[i], verdict |-> "unread", run |-> 0,
     body |-> "none", extraction_failed |-> FALSE]

\* The latest verdict on the item, and then, if it passed, ...
WithVerdict(r, c) ==
    LET of    == {j \in SeenJudgments(r) : j.item = c.item}
        shown == Last(of)
    IN  IF c.verdict # "unread" THEN c
        ELSE IF of = {} THEN [c EXCEPT !.verdict = "unjudged"]
        ELSE IF shown.passed
             THEN [c EXCEPT !.verdict = "passed", !.run = shown.run, !.body = "unread"]
        ELSE [c EXCEPT !.verdict = "rejected", !.run = shown.run]

Bodied(c, bodies) ==
    LET body == IF bodies = {} THEN "none" ELSE Last(bodies).body
    IN  [c EXCEPT !.body = body, !.extraction_failed = (body # "full")]

\* Mutant of WithBody: the latest extraction of the item, whichever run made it.
WithAnyBody(r, c) ==
    IF c.body # "unread" THEN c
    ELSE Bodied(c, {x \in SeenExtractions(r) : x.item = c.item})

\* ... the latest extraction of the run the verdict is of.
WithBody(r, c) ==
    IF c.body # "unread" THEN c
    ELSE Bodied(c, {x \in SeenExtractions(r) : x.item = c.item /\ x.run = c.run})

Shown(c)  == c.verdict = "rejected" => Shadow

\* What the tables show now: an item's card, and the sections of the page.
Card(r, i) == WithBody(r, WithVerdict(r, Blank(i)))
Sections(r) ==
    {c \in {Card(r, i) : i \in {i \in Ids : items[i] # Null}} : Shown(c)}

\* Mutant of List: a run with no verdict of its own leaves the page alone.
ListQuietly(r) ==
    /\ pc[r] = "next"
    /\ todo[r] = {}
    /\ MayRead(r)
    /\ draft' = [draft EXCEPT ![r] = {Blank(i) : i \in {i \in Ids : items[i] # Null}}]
    /\ cur' = [cur EXCEPT ![r] = NoCur]
    /\ tx' = [tx EXCEPT ![r] = AfterRead(r)]
    /\ Goto(r, IF count[r].judged = 0 THEN "close" ELSE "cards")
    /\ UNCHANGED <<tables, verdicts, prompt, runs, kind, todo, failed, count, pend,
                   page, bounds>>

\* The judge stage is over: the sections are composed from a read for the list ...
List(r) ==
    /\ pc[r] = "next"
    /\ todo[r] = {}
    /\ MayRead(r)
    /\ draft' = [draft EXCEPT ![r] = {Blank(i) : i \in {i \in Ids : items[i] # Null}}]
    /\ cur' = [cur EXCEPT ![r] = NoCur]
    /\ tx' = [tx EXCEPT ![r] = AfterRead(r)]
    /\ Goto(r, "cards")
    /\ UNCHANGED <<tables, verdicts, prompt, runs, kind, todo, failed, count, pend,
                   page, bounds>>

\* ... and two for each item on it, one item after the other: others may write
\* between them.
ReadVerdict(r, c) ==
    /\ pc[r] = "cards"
    /\ c.verdict = "unread"
    /\ \A d \in draft[r] : d.body # "unread"
    /\ MayRead(r)
    /\ draft' = [draft EXCEPT ![r] =
                    (@ \ {c}) \cup {d \in {WithVerdict(r, c)} : Shown(d)}]
    /\ tx' = [tx EXCEPT ![r] = AfterRead(r)]
    /\ UNCHANGED <<tables, verdicts, prompt, runs, kind, todo, cur, failed, count, pc,
                   pend, page, bounds>>

ReadBody(r, c) ==
    /\ pc[r] = "cards"
    /\ c.body = "unread"
    /\ MayRead(r)
    /\ draft' = [draft EXCEPT ![r] = (@ \ {c}) \cup {WithBody(r, c)}]
    /\ tx' = [tx EXCEPT ![r] = AfterRead(r)]
    /\ UNCHANGED <<tables, verdicts, prompt, runs, kind, todo, cur, failed, count, pc,
                   pend, page, bounds>>

Composed(r) == pc[r] = "cards" /\ \A c \in draft[r] : ~Unread(c)

Write(r) ==
    /\ Composed(r)
    /\ page' = draft[r]
    /\ draft' = [draft EXCEPT ![r] = {}]
    /\ Goto(r, IF kind[r] = "scheduled" THEN "prune" ELSE "close")
    /\ UNCHANGED <<tables, verdicts, prompt, runs, kind, todo, cur, failed, count,
                   tx, pend, bounds>>

\* Rendering or writing a file raises, with the dashboard copied or not, or the
\* digest does after it.
WriteFails(r) ==
    /\ Composed(r)
    /\ page' \in {page, draft[r]}
    /\ Fail(r)
    /\ UNCHANGED <<tables, verdicts, prompt, runs, kind, count, tx, pend, bounds>>

\* _prune_retention finds nothing old enough within a day, and commits.
Prune(r) ==
    /\ pc[r] = "prune"
    /\ \/ /\ Stored(r, {}, {}, 0)
          /\ Goto(r, "close")
          /\ UNCHANGED <<todo, cur, failed, draft>>
       \/ Refused(r, {}, {}, 0) /\ Fail(r)
    /\ UNCHANGED <<tables, prompt, kind, count, page, bounds>>

\* The run's row is closed with what became of it, and the connection with it:
\* the commit stores whatever a refused one had left.
Close(r) ==
    /\ pc[r] = "close"
    /\ MayWrite(r) /\ MayCommit(r)
    /\ runs' = [runs EXCEPT ![r] = [status |-> IF failed[r] THEN "failed" ELSE "ok",
                                    judged |-> count[r].judged,
                                    passed |-> count[r].passed,
                                    calls  |-> @.calls + pend[r].calls]]
    /\ judgments' = judgments \cup pend[r].judgments
    /\ extractions' = extractions \cup pend[r].extractions
    /\ items' = IF pend[r].landed = Null THEN items ELSE WithItem(pend[r].landed)
    /\ pend' = [pend EXCEPT ![r] = NoPend]
    /\ tx' = [tx EXCEPT ![r] = "none"]
    /\ Goto(r, "done")
    /\ UNCHANGED <<sources, enabled, prompt, local, page, bounds>>

\* Mutant of CloseRefused: a locked database is retried without end.
CloseRetried(r) ==
    /\ pc[r] = "close"
    /\ ~(MayWrite(r) /\ MayCommit(r))
    /\ UNCHANGED vars

\* That write raises out of run(), and the connection goes unclosed.
CloseRefused(r) ==
    /\ pc[r] = "close"
    /\ ~(MayWrite(r) /\ MayCommit(r))
    /\ Dropped(r)

(***************************************************************************)
(* The operator and the process.                                           *)
(***************************************************************************)

\* put_prompt and rollback: the pointer names another version.
SavePrompt ==
    /\ edits < MaxEdits
    /\ RequestMayWrite
    /\ edits' = edits + 1
    /\ prompt' = prompt + 1
    /\ UNCHANGED <<tables, verdicts, runs, local, pc, tx, pend, page, crashes,
                   astray>>

\* update_source with enabled alone changed.
SetEnabled(s) ==
    /\ edits < MaxEdits
    /\ s \in sources
    /\ RequestMayWrite
    /\ edits' = edits + 1
    /\ enabled' = IF s \in enabled THEN enabled \ {s} ELSE enabled \cup {s}
    /\ UNCHANGED <<sources, items, verdicts, prompt, runs, local, pc, tx, pend,
                   page, crashes, astray>>

\* What a purge of s takes, and the calls it finds in flight about it: the row id
\* may be another article's when they return.
Gone(s) == {i \in Ids : items[i] # Null /\ SourceOf[items[i]] = s}
Holding == {"triage", "verdict", "extract", "store"}
InFlight(gone) ==
    {p \in Runs \X gone : pc[p[1]] \in Holding /\ cur[p[1]].item = p[2]}

\* Mutant of Purge: extractions do not hang off their item.
PurgeKeepsSummaries(s) ==
    /\ s \in sources \cap Purgeable
    /\ RequestMayWrite
    /\ items' = [i \in Ids |-> IF i \in Gone(s) THEN Null ELSE items[i]]
    /\ judgments' = {j \in judgments : j.item \notin Gone(s)}
    /\ sources' = sources \ {s}
    /\ enabled' = enabled \ {s}
    /\ astray' = astray \cup InFlight(Gone(s))
    /\ UNCHANGED <<extractions, prompt, runs, local, pc, tx, pend, page, edits, crashes>>

\* purge_source: the ON DELETE CASCADE chain takes every row that hangs off it.
Purge(s) ==
    /\ s \in sources \cap Purgeable
    /\ RequestMayWrite
    /\ items' = [i \in Ids |-> IF i \in Gone(s) THEN Null ELSE items[i]]
    /\ judgments' = {j \in judgments : j.item \notin Gone(s)}
    /\ extractions' = {x \in extractions : x.item \notin Gone(s)}
    /\ sources' = sources \ {s}
    /\ enabled' = enabled \ {s}
    /\ astray' = astray \cup InFlight(Gone(s))
    /\ UNCHANGED <<prompt, runs, local, pc, tx, pend, page, edits, crashes>>

\* The process dies with every run in it; sqlite rolls back what they had not
\* committed.  Nothing revisits their rows at the next start.
Crash ==
    /\ crashes < MaxCrashes
    /\ crashes' = crashes + 1
    /\ pc' = [r \in Runs |-> IF Live(r) THEN "done" ELSE pc[r]]
    /\ todo' = [r \in Runs |-> {}]
    /\ cur' = [r \in Runs |-> NoCur]
    /\ draft' = [r \in Runs |-> {}]
    /\ tx' = [r \in Runs |-> "none"]
    /\ pend' = [r \in Runs |-> NoPend]
    /\ UNCHANGED <<tables, verdicts, prompt, runs, kind, failed, count, page, edits,
                   astray>>

\* What moves a run that has started.
Step(r) ==
    \/ Zone(r) \/ ZoneRefused(r)
    \/ \E a \in Articles : Land(r, a) \/ LandRefused(r, a)
    \/ PollRefused(r) \/ Select(r) \/ ReadRefused(r)
    \/ Take(r) \/ TakePurged(r) \/ Pay(r) \/ PayRefused(r) \/ Skip(r)
    \/ \E ok \in BOOLEAN : Judge(r, ok) \/ JudgeRefused(r, ok)
    \/ \E body \in Bodies :
          Extract(r, body) \/ ExtractRefused(r, body) \/ ExtractBreaks(r, body)
    \/ InsertOrphan(r) \/ List(r)
    \/ \E c \in draft[r] : ReadVerdict(r, c) \/ ReadBody(r, c)
    \/ Write(r) \/ WriteFails(r) \/ Prune(r) \/ Close(r) \/ CloseRefused(r)

Next ==
    \/ \E r \in Runs : Step(r) \/ \E k \in Kinds : Start(r, k)
    \/ SavePrompt
    \/ \E s \in Sources : SetEnabled(s) \/ Purge(s)
    \/ Crash

Spec == Init /\ [][Next]_vars

\* Threads are scheduled, LLM calls time out after 120 seconds and waits for a
\* lock after five, so a run that can move does.
FairSpec == Spec /\ \A r \in Runs : WF_vars(Step(r))

(***************************************************************************)
(* Properties.                                                             *)
(***************************************************************************)
Labels == {"idle", "zone", "poll", "next", "triage", "verdict", "extract", "store",
           "cards", "prune", "close", "done"}

JudgmentRow ==
    [id : Nat, item : Ids, run : Runs, prompt : Nat, passed : BOOLEAN,
     article : Articles]
ExtractionRow ==
    [id : Nat, item : Ids, run : Runs, body : {"full", "hole"}, article : Articles,
     raised : BOOLEAN]
RunRow ==
    [status : {"none", "running", "ok", "failed"}, judged : Nat, passed : Nat,
     calls : Nat]
Pend ==
    [judgments : SUBSET JudgmentRow, extractions : SUBSET ExtractionRow, calls : Nat,
     landed : Articles \cup {Null}]
CardShape ==
    [item : Ids, article : Articles,
     verdict : {"unread", "unjudged", "passed", "rejected"}, run : Runs \cup {0},
     body : {"unread", "none", "full", "hole"}, extraction_failed : BOOLEAN]

\* Every variable keeps the shape the schema and the code give it.
TypeOK ==
    /\ enabled \subseteq sources
    /\ sources \subseteq Sources
    /\ items \in [Ids -> Articles \cup {Null}]
    /\ judgments \subseteq JudgmentRow
    /\ extractions \subseteq ExtractionRow
    /\ prompt \in Nat
    /\ runs \in [Runs -> RunRow]
    /\ kind \in [Runs -> Kinds \cup {"none"}]
    /\ pc \in [Runs -> Labels]
    /\ todo \in [Runs -> SUBSET Ids]
    /\ cur \in [Runs -> [item : Ids \cup {0}, article : Articles \cup {Null}, prompt : Nat]]
    /\ failed \in [Runs -> BOOLEAN]
    /\ count \in [Runs -> [judged : Nat, passed : Nat]]
    /\ tx \in [Runs -> {"none", "open", "shared", "reserved", "pending"}]
    /\ pend \in [Runs -> Pend]
    /\ draft \in [Runs -> SUBSET CardShape]
    /\ page \subseteq CardShape
    /\ \A c \in page : ~Unread(c)
    /\ edits \in 0 .. MaxEdits
    /\ crashes \in 0 .. MaxCrashes
    /\ astray \subseteq Runs \X Ids

\* Scheduled and manual runs store one verdict per item row: across all of them,
\* with reprocesses, crashes, refused commits and purges in between, an item has at
\* most one verdict that is not a reprocess's.  It does not bound what is paid for:
\* a call whose reply is of no use, or whose verdict is lost before its commit, is
\* paid for again by the next normal run.
NormalJudgesOnce ==
    \A j, k \in judgments :
        j.item = k.item /\ kind[j.run] \in Normal /\ kind[k.run] \in Normal => j = k

\* A run's rows about an item that was purged while its call was in flight.
Astray(row) == <<row.run, row.item>> \in astray

\* Every extraction stands on a passing verdict of the same run about the same
\* article: a rejection is never summarised, and no summary outlives, or comes
\* to stand under, the verdict of another run.  The exception is one whose item was
\* purged while its run was at it: it may come back under the next article's id.
ExtractionFollowsPass ==
    \A x \in extractions :
        \/ Astray(x)
        \/ \E j \in judgments : /\ j.item = x.item /\ j.run = x.run
                                /\ j.article = x.article
                                /\ j.passed

\* What the tables hold under an item's id was said of the article that has the
\* id: verdicts and summaries go with the item they were about, although the id
\* of a purged last row is given out again.  The exception is what a call returns
\* that was in flight about an item when it was purged, and nothing else: no
\* selection made before the purge and no row a refused commit left is misfiled.
RowsOfTheirArticle ==
    \A row \in judgments \cup extractions :
        items[row.item] = row.article \/ Astray(row)

\* The ledger of a run covers what the run stored: each verdict and each
\* extraction was paid for in runs.token_usage, even when commits are refused
\* and rolled back.
LedgerCovers ==
    \A r \in Runs :
        Cardinality({j \in judgments : j.run = r})
            + Cardinality({x \in extractions : x.run = r}) <= runs[r].calls

\* items_judged and items_passed never claim more than the run made durable
\* (no purge).
CountsDurable ==
    \A r \in Runs :
        /\ count[r].judged <= Cardinality({j \in judgments : j.run = r})
        /\ count[r].passed <= Cardinality({j \in judgments : j.run = r /\ j.passed})

\* A card whose article no purge has taken since: a file is not written again when
\* a source is purged.
Stands(c) == items[c.item] = c.article

\* A judged card repeats a stored verdict about its article, and its body an
\* extraction of that verdict's run, although a page is composed from reads that
\* other runs overtake and from rows a refused commit may yet lose.  The
\* exceptions are a run whose row was never closed and an item purged under its
\* call.
Backed(c) ==
    /\ \E j \in judgments : /\ j.item = c.item /\ j.run = c.run
                            /\ j.article = c.article
                            /\ j.passed = (c.verdict = "passed")
    /\ c.body # "none" =>
          \E x \in extractions : x.item = c.item /\ x.run = c.run /\ x.body = c.body
PageBacked ==
    \A c \in page :
        c.verdict # "unjudged" /\ Stands(c) =>
            runs[c.run].status = "running" \/ Astray(c) \/ Backed(c)

\* Once every run has ended well, the dashboard shows what the tables say: each
\* item that has not been purged with its latest verdict and that verdict's body.
Settled ==
    /\ \A r \in Runs : pc[r] = "idle" \/ (pc[r] = "done" /\ runs[r].status = "ok")
    /\ \E r \in Runs : pc[r] = "done"
DashboardSettles == Settled => {c \in page : Stands(c)} = Sections(1)

\* A run that has started ends, whatever locks the others hold ...
RunsEnd == \A r \in Runs : Live(r) ~> pc[r] = "done"

\* ... and a write lock it took is not kept for ever.
LocksFreed == \A r \in Runs : Writes(tx[r]) ~> ~Writes(tx[r])

(***************************************************************************)
(* What comments and tests say of the code, and the code does not do.      *)
(***************************************************************************)

\* judge.py: an extraction that raises is logged and skipped, not stored.
SkippedIsNotStored == \A x \in extractions : ~x.raised
=============================================================================
