# tattoo, specified

tattoo polls web feeds and YouTube channels once a day, fetches what is new, has
an LLM judge each item against the operator's criteria, summarises what passes,
and publishes a page and a push message. This directory holds TLA+ models of
that program, the TLC configurations that check them on small instances, and
proofs that TLAPS checks for every instance. Everything is translated from the
code under `src/src/tattoo` (written `pipeline.py:172` below) and from the
schema and its migrations under `src/migrations`.

- [The system](#the-system)
- [The modules](#the-modules)
- [What the runs show](#what-the-runs-show)
- [Fairness](#fairness)
- [What is proved](#what-is-proved)
- [Where code and comments disagree](#where-code-and-comments-disagree)
- [What is not modelled](#what-is-not-modelled)
- [Plan](#plan)

## The system

One process, one sqlite file, one web server, one scheduler thread.

| part | state it keeps | operations | what makes it correct |
|---|---|---|---|
| scheduler thread (`scheduler.py`) | `_wake`, `_stop`, the thread; `last_run_date`, `schedule_time`, `timezone` in `settings` | loop, `trigger`, `stop`, restart | one scheduled run a day; no slot and no trigger missed; no run on shutdown |
| pipeline run (`pipeline.py:37`) | its row in `runs`, its own connection | six stages in order, each failure contained as its contract says | it ends, its row says what happened, it leaves no lock behind |
| poll and ingest (`:96-283`) | `sources` (cutoff, validators), `items` | conditional GET, diff, first-run window, daily cap | an item stored once, archives kept out, nothing hidden behind a 304 |
| acquire (`:289-358`) | `content` | fetch what has no content, for three days | what is fetched is judged; what never is, is told |
| judge and extract (`:364-436`, `judge.py`) | `judgments`, `extractions`, `findings`, `runs.token_usage` | triage, extraction, ledger | one verdict of a normal run an item; ledger and counts never short; summaries under their own verdict |
| page and digest (`:446-601`, `render.py`, `notifier.py`) | files under `output`, one push | sections by date, write, push | the page says what the tables say, and misses nothing |
| retention (`:622-647`) | `content`, `findings` | delete by age, scheduled runs only | old content does not bring old items back |
| prompts (`judge.py:109-186`) | `prompt_history` and a pointer in `settings` | seed, save, roll back | a version in force at all times; none put there by a restart |
| routes (`routers/*.py`) | the tables above | sources, settings, run, reprocess, export and import | a request between any two steps of a run does no harm; one that is alone does exactly what it says |
| migrations, backup (`database.py`, `backup.py`, `migrations/`) | the schema, `sources.backfill_cutoff`, snapshot files | at the start of the server and of the command line tool | whoever serves has the whole schema; the old database is kept; the server comes up |
| resolver, URL normalisation, templates, configuration, logging | none | pure or plumbing | outside the scope of a model checker |

How they meet:

- The scheduler thread calls `pipeline.run("scheduled")` or `run("manual")`, so
  those never overlap. `POST /api/reprocess` starts a thread of its own for each
  request (`actions.py:30-44`), and a reprocess overlaps anything.
- Every run and every request has its own sqlite connection. Python's sqlite3
  opens a transaction at the first write; the code commits often and never rolls
  back, so an exception between a write and its commit leaves the transaction,
  and the write lock, open until the next commit of that connection.
- Settings, prompts and sources may change while a run is inside a fetch or an
  LLM call of up to two minutes. What the run read before the call, it uses after.
- The process may die anywhere. The database rolls back what was not committed;
  nothing at the next start revisits the runs that were cut off. Schema changes
  commit one by one, so a start that dies leaves half an upgrade behind.
- `add_source.py` is a second process on the same file, and runs the same
  snapshot and migrations the server runs. So does `python -m tattoo.pipeline`
  (`pipeline.py:698`), which then runs the pipeline once, outside the scheduler.

The behaviours that are hard are therefore: which lock a connection holds after
an exception; two runs over one table; rows copied and used minutes later; two
commits where one would be atomic; windows measured from the start of a run
against stamps taken in its course; and a wait of up to an hour whose result is
used with settings read before it. `PROJECT.json` lists each at its line.

## The modules

| module | models | state and its origin |
|---|---|---|
| `Scheduler` | the loop of `scheduler.py`, line by line | `wake`, `stop`: the events; `thread`: the program counter; `plan`: the locals of one pass; `lastRun`, `schedule`, `zone`: `settings`; `started`, `cut`, `owed`, `settled`, `slipped`: history |
| `Gate` | runs that judge and extract, several at once, on sqlite | the tables; `pc`, `todo`, `cur`, `count`, `draft`: the locals of each run; `tx`, `pend`: what its connection holds and has not committed; `page`: the dashboard; `astray`: history |
| `Ingest` | one polling run against edits, feeds and the clock | `rows`: `sources`; `items`; `src`, `got`, `validator`, `queue`: the copies the run works from; `catalogue`, `capped`, `letgo`, `born`: history |
| `Briefing` | an item's life over days: windows, page, digest, retention | `seen`, `fetched`, `verdict`: the three timestamps; `now`: the start of the run; `page`, `push`; `brought`, `tried`, `passed`, `dropped`, `told`: history |
| `ItemLife` | what `Briefing` promises about an item, without runs, windows or clocks | `stage`, `passed`; `Briefing` says how they follow from its state |
| `Startup` | from an old database to a serving process, for the server and the command line tool at once | `objs`: the tables and columns there are; `cutoff`: what each source has as its date; `snaps`: the snapshot files; `pc`, `unit`, `missing`, `file`: the locals of each process; `origin`, `old`, `polled`, ...: history |
| `Config` | prompts, public settings, the columns of a source, import; requests at once | `history`, `pointer`: `prompt_history` and the settings rows that name a version; `setting`, `row`; `req`: the locals of each request; `want`, `mixed`: history |
| `MC*` | constants for TLC, nothing else | |
| `*_proofs` | theorems about the module they extend | |
| `Extrema` | lemmas about least and greatest elements of finite sets of integers, for `Min` and `Max` | |

One action stands for one step between two points where something else can
happen. Where a whole handler runs in one transaction (`Ingest`, `Purge`), it is
one action; where it makes an LLM call, it is split at the call (`Take`, `Pay`,
`Judge`). The main correspondences:

- `Scheduler`: `Read` is the loop down to the wait (`scheduler.py:84-107`) and
  `ReadRefused` its reads against a locked database, `WaitWoken` and `WaitTimesOut`
  the two outcomes of the wait, `Clear` the clearing of the event and the look for
  `stop` (`:108-110`), `Decide` the comparison with the target and the start of the
  run (`:112-118`), `RunEnds` and `Record` the `finally` clause (`:123-132`),
  `RecordRefused` the same write against a locked database. Both refusals end the
  thread.
- `Gate`: `Start` to `Close` are `run()`; every later action that reads or writes has a
  twin in which the database refuses (`JudgeRefused`, `PayRefused`, ...), because the
  code treats that exception differently in each place. `Zone` is the read of the
  time zone outside the `try` (`pipeline.py:48`): refused, the run's row stays
  'running'. `Land` and `LandRefused` are an article's rows and their commit, whose
  refusal leaves them pending, `PollRefused` a source's bookkeeping. `List`,
  `ReadVerdict` and `ReadBody` are the reads the page is composed from, with whatever
  others commit in between; `WriteFails` is an exception in the page writer, before or
  after the dashboard was copied. `Stored`, `Refused` and `Broken` say what a write, a
  refused one and a failing statement do to the connection; the five lock states
  follow sqlite's rollback journal. `Purge` gives row ids out again, as INTEGER
  PRIMARY KEY does, and notes in `astray` the calls it finds in flight.
- `Ingest`: `Poll` is the conditional GET with both answers, `Ingest` the whole
  of `_ingest` in its one transaction, `SaveValidator` the second transaction
  after it. A run holds copies of the source rows from its start on; `born` notes
  which run was polling when a row was made.
- `Briefing`: `Pending`, `Wanted` and `OnPage` are the three queries whose windows
  must fit together (`pipeline.py:293-306`, `:373-392`, `:446-482`), `Digest` and
  `Notify` what is made of the page, `Outdated` what retention takes.
- `Startup`: `Boot`, `Copied`, `CopyFails` and `Prune` are `backup_database`
  (`backup.py:20-64`); `Create`, `Look`, `Alter`, `NextUnit`, `Stamp` and `Clean`
  the four migrations, statement by statement: a look at the columns and the ALTER
  that follows from it are two steps, and each ALTER is durable when it returns.
  `Die` ends a process anywhere. `FirstPoll`, `CreateSource` and `CliInserts` are
  what a serving process does to the column migration 003 fills.
- `Config`: one commit is one action. `Begin` takes a request in, with the read
  an edit does before its transaction; `PutKey` is `set_setting`; `Insert` and
  `Point` are the two commits of `save_prompt`; `Seed` and `Ensured` are
  `ensure_prompts`, which the lifespan and every prompt route go through;
  `Rollback`, `ImportPrompt` and `WriteRow` the rest. `Refused` ends a request at a
  locked database, `Crash` everything.

The models overlap on purpose, and each reduces what another has whole. In
`Gate` fetching is an item arriving with its content and all happens in one
local day; in `Briefing` runs come one after the other and commits succeed;
`Ingest` ends where an item is stored; `Startup` knows of a poll only that it dates
a source, and `Config` has no runs at all.

### Abstractions

- Texts, prompts, scores and reasons are gone. A score is a choice between pass
  and reject, which covers every threshold and every edit of one.
- An LLM reply is a choice among those the code tells apart: refused, of no use,
  a verdict, an extraction, one with nothing in it, one whose findings are not
  objects.
- Time is a count of instants and `DayLen` of them make a day. A run's `now` is
  kept apart from the instants at which rows are stamped.
- A feed's validator is the set of entries it was sent with, so "the server would
  answer 304" is equality of sets.
- A write and the commit right after it are one action in `Gate`: another
  connection that meets the lock in between waits, up to five seconds.
- An api key is configured: without one the gate does nothing at all.
- A timezone is an offset. Two zones may be far apart, but a zone's own offset does
  not change, so there is no daylight saving time.
- `Config` has one source and small sets of texts and values; timestamps are left
  out. An exported file is a record of settings, prompts and columns.
- In `Startup` a snapshot is what the schema was when the copy was made, the
  pruning of old ones is one step, and stamps are all different (they carry
  microseconds).
- In `Ingest` all sources have one cap. The code has one a source and no step
  compares them.

## What the runs show

| run | what happens in it | holds |
|---|---|---|
| `scheduler_day` | two days of five ticks; a wait of at most two, so a day needs several; one trigger, one edit of `schedule_time` or `timezone`, one process death, an orderly stop between any two lines, any number of refused reads and records; a timezone either side of the first | `TypeOK`, `NoDoubleFire`, `HeldIsRemembered`, `DatesAdvance`, `StopStartsNothing`, `SlotServed`, `HeldTriggerServed` |
| `gate_alone` | two scheduled runs one after the other over two sources of an article each in shadow mode; one edit (prompt or source), one crash, every refusal and failure, and a source purged anywhere, so that its item's id may go to the other article | `TypeOK`, `DashboardSettles`, `RowsOfTheirArticle` |
| `gate_race` | three runs over two articles of one source, reprocesses at once with each other and with a scheduled run, with every refusal, useless reply and failing statement, also between the reads of a page; a poll brings in one article, and the other comes only as a row whose commit was refused and which a later one stores | `ExtractionFollowsPass`, `CountsDurable`, `PageBacked`, `NormalJudgesOnce`, `LedgerCovers` |
| `gate_live` | two runs at once, the source purged under them, one crash | `RunsEnd`, `LocksFreed` |
| `ingest_polls` | a feed of three entries dated 0, 1 and 2 that come and go over two days; two runs, any crossing midnight; two edits (create, purge, enable, disable) anywhere in between, with a second feed that may be given the id of the first; a premiere that may air, one crash; window of one, cap of one | `TypeOK`, `CapPerDay`, `StoredOnce`, `NothingOlder`, `ValidatorCovers`, `CatalogueStaysOut`, `ItemsOfTheirFeed` |
| `briefing_days` | two videos, three runs of any kind at any time of two and a half days, one cut short; retry window one day, retention two | `TypeOK`, `JudgedIsShown`, `FetchedIsTried`, `NothingLost`, `VerdictOfTheDay`, `ImplementsItemLife` |
| `startup_upgrade` | from no database or any of the four schemas the releases left, with or without sources in it: the server and the command line tool start against one file, a death, a refused statement or a failed snapshot anywhere, sources added and polled meanwhile | `TypeOK`, `ServesComplete`, `OriginalKept`, `BackfillWhole`, `NewSourceWaits`, `Recovers` |
| `config_edits` | three requests, two of them at once, of every kind that changes the configuration, over two prompts, a setting, two columns and two files; a death or a refused write between any two commits | `TypeOK`, `PointersStand`, `RestartKeepsPrompts`, `AloneIsExact` |

Four more runs, `scheduler_trigger`, `gate_partial`, `ingest_capped` and
`config_roundtrip`, are told of under
[Where code and comments disagree](#where-code-and-comments-disagree).

What the properties mean for the operator:

- `NoDoubleFire`, `DatesAdvance`: whatever is edited, triggered, crashed or slow,
  a date's scheduled run happens again only if the first was never recorded, or
  because the timezone was moved west and the date came round again: at most one
  more run for each such move. A move east repeats nothing.
- `SlotServed`: no date's slot is slept through. Time never passes an idle thread by
  while the slot of the date on the wall is due and nothing has run for that date.
  It says this of every date, last tick included, and names its exceptions: a thread
  that has ended, is in the middle of a run or a record, or has a wait that is over
  and has yet to be scheduled, and an edit that is younger than the longest wait.
- `StopStartsNothing`: a shutdown is never taken for a trigger. The loop looks for
  `stop` once after its wait (`scheduler.py:109`); a stop that comes after that look
  does not keep that pass from its run (`slipped`), and no other run starts.
- `HeldTriggerServed`: a trigger during a run, or during a wait, gets its run;
  `HeldIsRemembered`: until then the event, or a wait it has ended, holds it. Only
  the trigger between the return of a wait and the clearing of the event is lost.
- `NormalJudgesOnce`: normal runs store one verdict an item row and no second one.
  It is not a bound on tokens: a paid call whose reply is of no use, or whose verdict
  is lost before its commit, is paid for again by the next normal run.
- `LedgerCovers`, `CountsDurable`: the ledger is never short of what was stored,
  and the counts never ahead of it, although both cross refused commits.
- `ExtractionFollowsPass`: a summary stands under the passing verdict of its own
  run, also when two runs judge the same item at the same time.
- `RowsOfTheirArticle`: what was said of an article comes to stand under another one
  in one case only, although a purge frees ids that later items are given: when the
  item is purged while the call about it is in flight (`astray`). The code does not
  prevent that; what the property rules out is any other way, a selection made
  before the purge, a row a refused commit left behind, rows a purge forgot.
- `DashboardSettles`: what the dashboard shows at rest is what the tables say, when
  every run so far has ended well (after a failed or cut-off run the page is the last
  one written, and nothing is claimed). The
  file is not written again when a source is purged, so cards of purged items are
  left out of account (`Stands`).
- `PageBacked`: a page that another run has overtaken may be old, but each judged
  card on it stands on a stored verdict about its article, with that verdict's
  own body, unless the run's row was never closed or the item was purged under its
  call.
- `CapPerDay`: no combination of runs, crashes and midnights gives a source more
  than its cap in one local day. This holds because the budget counts from the
  midnight before the *start* of the run: later stamps only make it stricter.
- `NothingOlder`, `CatalogueStaysOut`, `StoredOnce`, `ValidatorCovers`: a crash
  between the two transactions of a poll neither lets an archive in, nor stores an
  item twice, nor hides an entry behind a 304.
- `ItemsOfTheirFeed`: purging and creating sources under a poll files items under
  the wrong source in one case only: a row made while a run polls may be given the id
  of a purged one that the run still works from, and inherits what that run stores
  there (`Inherited`). No later run adds to it. `NothingOlder`, `ValidatorCovers` and
  `CatalogueStaysOut` except the same and nothing more.
- `JudgedIsShown`, `FetchedIsTried`, `NothingLost`: the windows of the three queries
  leave no gap an item could fall through.
- `VerdictOfTheDay`: the page does not resurrect what retention emptied, provided
  retention outlasts the retry window by a day. The defaults are 90 and 3 days.
- `ImplementsItemLife`: with all its windows, days and failures the pipeline gives
  an item a life that only goes forward: fetched once, judged while its text is
  there, never brought back after its time is over.
- `ServesComplete`, `Recovers`: no death in the middle of a migration, and no second
  process between its look and its ALTER, lets anybody serve on half a schema or
  keeps the server from coming up.
- `OriginalKept`: a whole copy of the database before the upgrade is there to go
  back to for as many starts as snapshots are kept.
- `BackfillWhole`, `NewSourceWaits`: sources from before the upgrade are dated, so
  their archive stays out; those added since are not, so their first poll is one.
  Each has an exception that the code has: a migration that died between the ALTER and
  the UPDATE of 003 leaves the old sources without a date (`cutShort`), and a source
  that one process adds while another stands there is dated (`overtaken`). What they
  catch is a backfill that ran to its end and was wrong, and any restart that dates.
- `PointersStand`, `RestartKeepsPrompts`: whatever overlaps or dies between a
  version and its pointer, each prompt has a version of its own in force, and a
  start never puts a file's text over what the operator saved.
- `AloneIsExact`: a request nobody overlapped changes what it named and nothing
  else, whatever half-done requests came before it. An import is measured against its
  file (`Asked`), with one exception spelt out (`Granted`): a threshold or cap the file
  gives as 0 becomes the default. `ImportIsExact`, without it, is violated.

### Bounds

Every bound is a constant of the module (`Max...`) or the size of a set.

- Two runs, or two articles, are the fewest at which overlap and order matter.
  `gate_race` needs a third run: one connection holds a read lock, the second's
  commit is refused and leaves a pending lock, and the third then cannot even
  read. `MaxItems` keeps the polls to one article, and the second comes only by way
  of a refused commit; that what an item leaves uncommitted is paid for when the
  next item's commit stores it is proved for any number (`LedgerCoversHolds`). The
  two articles differ in nothing, so they may be exchanged (`SYMMETRY Alikes`), and
  all its properties are invariants.
  A third run in `briefing_days` lets a run, a repetition on the same day and one on
  the next fall into one behaviour.
- A day of five ticks with waits of two keeps what matters of a day and an hour:
  several re-reads before a slot, a slot that is neither first nor last, a
  schedule that can move both ways. `MaxClock` leaves two whole days.
- `Scheduler` allows no edit in the last `MaxWait` ticks explored: the re-read
  that notices it would lie beyond the bound, and `SlotServed` would fail at the
  edge of the model and not of the code.
- In `ingest_polls` every entry has a date of its own, so a cutoff lies between
  entries and something is older than it: the window keeps one of up to three.
  Entries with equal dates at the cutoff may all pass, which the code accepts. Two
  edits are what it takes to purge a row and give its id to another; two runs, one to
  hold the old row and one to come after it. The run is long enough for a second
  day: instants 2 to 4 are a midnight, a run across it and the day after.
  `ingest_capped` has a window of two and a cap of one, so that the cap bites on a
  first poll.
- In `briefing_days` both items are videos: content() of an article does nothing
  that content() of a video may not, and only a second video is skipped for the
  block met by the first. A retry window of one day with days of two instants
  puts a run before, at and after each edge.
- In `startup_upgrade` one source has a dated item and one has not, which are the
  two ways 003 finds a date. The server may start seven times and the command
  line tool once, more often than one failure and one lost race can make them;
  three snapshots are kept, so later starts prune. One failure is enough: after
  it a start differs from a first one only by the schema it finds, and it may
  find any that a release or a cut-off start has left.
- In `config_edits` the third request meets what two overlapping ones, or one that
  was refused half way, have left. Two prompts make a pointer to the wrong one
  possible, two columns a lost update; one file has the 0 that an export writes of a
  count set to 0, and the other differs from the seeds in one prompt only.
- `scheduler_day` has a zone to the east of the first and one to the west, each far
  enough for a move to change the date, and one edit; with two the two moves
  west cost two runs and no more, as the theorem says.
- In `gate_alone` an id is given out again between two runs. That this happens under a
  call in flight takes three (normal runs do not overlap and a reprocess polls
  nothing: one run brings the item in, a reprocess is at work on it during the
  purge, another normal run polls what is given its id); the state space is then
  beyond a run of minutes, and the case is left to the theorems.

Deadlock is not checked: all models stop when their bounds are used up.

## Fairness

Safety needs no fairness, and `SlotServed` is stated as safety. Three runs state
liveness:

- `Scheduler!FairSpec`: weak fairness of the thread's steps and of the clock. The
  operating system runs the thread; the pipeline returns because every network
  call has a timeout. No operator action, crash or restart is fair.
- `Gate!FairSpec`: weak fairness of each run's next step. A thread is scheduled, an
  LLM call ends after 120 seconds at most (`judge.py:211-273`), and a wait for a
  lock after five: then the refused twin of the step is taken. `RunsEnd` and
  `LocksFreed` rest on nothing else, in particular not on another run giving way.
- `Startup!FairSpec`: weak fairness of the server's start. It is run with
  `--restart unless-stopped` (`deploy.md:40`), so it starts whenever it is down, and a
  start that is under way goes on. Nobody has to run the command line tool.

## What is proved

All proofs are checked to the last leaf, with no bounds assumed on the
constants but what the ASSUMEs of the modules name.

| theorem | says |
|---|---|
| `TypeCorrect` in each proof module | `Spec => []TypeOK` |
| `Scheduler_proofs!NoDoubleFireHolds`, `HeldIsRememberedHolds` | `Spec => []...` |
| `Scheduler_proofs!DatesAdvanceHolds`, `StopStartsNothingHolds`, `SlotServedHolds` | `Spec => ...` |
| `Gate_proofs!NormalJudgesOnceHolds` | `Spec => []NormalJudgesOnce` |
| `GateStore_proofs!LedgerCoversHolds`, `ExtractionFollowsPassHolds`, `RowsOfTheirArticleHolds`, `PageBackedHolds` | `Spec => []...` |
| `GateStore_proofs!CountsDurableHolds` | `Spec /\ ItemsStay => []CountsDurable` |
| `GateStore_proofs!DashboardSettlesHolds` | `Spec /\ []Alone => []DashboardSettles` |
| `GateStore_proofs!ScheduledDashboardSettles` | `Kinds \subseteq Normal`: `Spec => []DashboardSettles` |
| `Ingest_proofs!StoredOnceHolds`, `CapPerDayHolds`, `ItemsOfTheirFeedHolds`, `NothingOlderHolds`, `ValidatorCoversHolds` | `Spec => []...` |
| `Ingest_proofs!CatalogueStaysOutHolds` | `DistinctDates => (Spec => []CatalogueStaysOut)` |
| `Briefing_proofs!JudgedIsShownHolds`, `NothingLostHolds` | `Spec => []...` |
| `Briefing_proofs!FetchedIsTriedHolds` | `LastsWindow`: `Spec => []FetchedIsTried` |
| `Briefing_proofs!VerdictOfTheDayHolds` | `OutlastsWindow`: `Spec => []VerdictOfTheDay` |
| `Briefing_proofs!ImplementsItemLifeHolds` | `LastsWindow`: `Spec => ImplementsItemLife` |
| `Startup_proofs!ServesCompleteHolds`, `BackfillWholeHolds`, `NewSourceWaitsHolds`, `OriginalKeptHolds` | `Spec => []...` |
| `Startup_proofs!RestartsDateNothing` | `MaxBoots["cli"] = 0`: `Spec => [](NewSourceWaits /\ overtaken = {})` |
| `Config_proofs!PointersStandHolds` | `Spec => []PointersStand` |
| `Config_proofs!RestartKeepsPromptsHolds`, `AloneIsExactHolds` | `Spec => ...` |
| `Config_proofs!ImportIsExactWithoutZeros` | no file gives a count as 0: `Spec => ImportIsExact` |

**The scheduler.** `NoDoubleFire` counts runs by date and is not inductive: between
the computation of a target and the run there is a wait, and nothing in the
counts says that the date is still free when it ends. The invariant adds what
the loop knows meanwhile. `RecordedPast`: the recorded date is not in the
future. `PlanSound`: it is no later than the date the target was computed on, and
if it *is* that date the target lies in tomorrow. `FiringSound`: a scheduled run
in progress is for a later date than the recorded one. `LaterDatesFree`: no
later date has a run to its name, save those cut off and the one in progress.
`DatesAdvance` then reads off `PlanSound` at the one step that starts a run.

A move of the timezone west breaks all of these: yesterday is current again,
`last_run_date` lies in the future, and the date runs twice. What carries the
bound over it is that a move is not felt until the loop reads the settings.
`Noticed` counts the moves west but for one made since that reading: a pass in
progress still goes by the clock of the zone it planned in. So `RecordedPast`,
`PlanSound` and `FiringSound` have a second side, `Again`: every date not running
now has at least one more run to its allowance. The reading that notices a move raises `Noticed` and so gives
`Again`; the run that starts under it uses the allowance up, and by recording its
date restores the first side. `DatesAdvance` needs only that `Again` implies a
move. Nothing is assumed of the zones, and `schedule_time` may change freely.

`HeldIsRemembered` needs to know of the one step that looks past the event: a wait
that has timed out with a trigger held is one whose target is reached (`Timely`), so
the loop does not go round without a run.

`SlotServed` rests on what a wait knows of the settings. `StartsKnown`: a recorded
date, and the date of a run in progress, has a run to its name. `WaitSound`: a wait in
progress either is for the slot that the settings now ask for (`Agreed`), or was
entered before the last edit and will be over when that edit is as old as the longest
wait. So a thread that idles with an older edit waits for a slot computed from the
settings in force, and if that slot is due although the wait goes on, the day's run
is in the record (`IdleServed`).

**The gate.** `NormalJudgesOnce` speaks of committed rows, but a row that a
refused commit left behind becomes durable with any later commit of its run. So
the invariant speaks of `Rows`, the committed and the pending. `OneNormal`: one
normal run is live at a time. `OwnRows`: pending rows belong to live runs.
`RowsStarted`: rows come from runs whose kind is settled. `OneVerdict`: the
property, over `Rows`. `Selected`: what a normal run has selected and not reached,
or is triaging, no normal run has judged. The proof reduces the thirty actions
to three cases: a step adds at most one verdict and that is of an item its run
held (`AddedRow`, `StepAdds`), it takes items off a selection, or it ends a run and
drops its rows. Purges only remove rows, although they free ids: a freed id is
unspent because its verdicts went with it.

What becomes of the rows is in `GateStore_proofs`. Its first part says, once for all
these actions, what a step of a run may do to the store (`StepLeaves`): commit
what is pending with some rows of its own (`Commits`), keep them pending (`Holds`), or
drop everything (`Drops`). Each property is then proved over these three and not
over the actions. `Locks` is what makes the cases few: only one connection
writes, and nothing is pending without the lock.

- `LedgerCovers` is about committed rows and a committed ledger; between the call
  that costs and the row that it yields, the ledger is one ahead. `Ledger` states
  the bound with that slack, for what is committed and for what would be if
  the pending were, since any later commit of the run may make it so.
- `ExtractionFollowsPass` needs `Foundation`: the extractions that are pending, and
  the item that is at the model just now, have their passing verdict too. A purge
  of that item takes the verdict from under the call, and an article that is given
  the id next gets the summary: that step, and no other, puts the call into `astray`,
  and `Strayed` carries the exception until the row is stored.
- `RowsOfTheirArticle` needs the same of everything on its way (`Faithful`): what is
  committed, what is pending and what is in flight is about the article that has the
  id, or is in `astray`. A new article gets an id that no row and no pending row
  uses, unless that row has strayed.
- `CountsDurable` compares counts with rows that any purge takes away, and the counts
  are not looked at again: it supposes `ItemsStay`, that no item is purged.
- `PageBacked` is about a file that nobody writes again, so it is about the cards that
  still stand. `Abiding` says that a card which does not stand never will again: a
  purged source stays away and its articles with it. `CardsHeld` is about all cards
  composed, whole or half, written or not: what a run saw when it looked them up is
  committed, or is pending in the run the row belongs to, and is lost only with a run
  whose row was never closed.
- `DashboardSettles` is false of overlapping runs, where the older page may be
  written last. It is proved of runs that are live one at a time, `[]Alone`, and
  `ScheduledDashboardSettles` shows that this is what the scheduler's own thread
  gives: where nobody asks for a reprocess, the hypothesis is a theorem. `Kept`
  says that the cards in hand, each of them looked up or still to be, are, but for what
  was purged since, what would be composed now (`InHand`), and the page that run has
  written too until it is done.

`Typed`, the type invariant of the gate in inductive form, adds that the tables
are finite. `NewId` takes a maximum, and a maximum of an infinite set is
nothing.

**Ingest.** That an entry is stored once follows from the dedupe alone
(`StoredOnceNext`). The cap is arithmetic over finite sets: `BudgetFits` shows that
what the budget leaves fits into the local day of the *ingest*, whatever day the
run began on, because the budget has counted everything stored since the
midnight before the run, a superset of that day's; `Capped` carries it, with
`Clocked`, which says a run began in the past.

The other four are about the copies a run works from, while sqlite gives the id of a
purged newest row out again. `born` says which run was polling when a row was made. A
copy is `Tied` to the row with its id: the row was made during this run, or says what
the copy says (`Current`) until its ingest. `Own` states that of every copy, and
`Rooted` that no item is older than its row and no item's run younger than the run
counter, so an item stored by a run other than `born` was stored from a current copy.
On these stand `Filed` (what is stored, served and fetched is of the row's feed, or
was inherited), `NothingOlder` (a copy without a cutoff then means a source without
items) and `Covered` (for rows made between runs, also the validator about to be saved
covers only what was stored or let go; a crash just leaves the older one). `Fits` adds that the
catalogue has at most a window of entries above the cutoff; that needs
`DistinctDates`: ties at the cutoff and undated entries do pass later, in the
code as in the model.

**The briefing.** `Inv` collects what the steps of a run rely on. `Stamped`: an item is
seen before it is fetched, and nothing is stamped later than the clock. `Held`: what
was selected fits its selection until its turn comes. `Emptied`: a judged item without
a text was old enough for retention to take it. `Shown`: the tables do not change
between composing the page and pushing it. `Told`: a text nobody judged was told
of, or its run is not over, or was cut short. The properties are then arithmetic over
the windows. `LastsWindow` (retention is off or at least the retry window) and
`OutlastsWindow` (a day longer) are needed: the settings route accepts any number
of days, and with fewer a text goes while its item may be fetched again. The
refinement maps an item's stamps to its stage (`Stage`), measured from the start of the
run in progress or of one that would start now; so a tick between runs, and the
end of a run, may be an `Expire` of the items whose window has closed, the retention step
is `Archive`, and every other step one of the others or a stutter.

**Startup.** `Progressed` says, at each place of a start, which columns are there
for good and that what a process found missing covers what still is: the schema
only grows, so a look is never wrong about what is there. `Waits` follows the
dates: only one process can ever be between 003's ALTER and its UPDATE, for only
one adds the column. `Saved` holds while there have been no more starts than
snapshots are kept: every process past its copy has left a whole file of the old
schema. `NothingPruned` says that nothing has gone until then.

**Config.** `Inv` is `TypeOK` with `Pointed` (each pointer names a version of its own
prompt, also before requests are served), `Seeding` (until then only the lifespan is
at work) and `Holds` (where a request may stand with which body). `AloneIsExact` is an
action property; `Alones` carries, for a request nobody overlapped, the
configuration it will leave if it goes on, as a function of where it stands: each
commit of its own keeps that value and the last one makes it the fact. What was asked
for is taken from the request when it comes in, an import's from its file; `Granted`
replaces the counts the file gives as 0 and `GrantedFacts` shows that it changes nothing
else, so that without such a count `ImportIsExact` follows.

Only model-checked is liveness, which the prover does not do under fairness:
`HeldTriggerServed`, `RunsEnd`, `LocksFreed` and `Recovers`. Every safety
property of a passing run is a theorem.

## Where code and comments disagree

Each of these has a run whose only property is the comment, and TLC's trace is
the disagreement.

| run | the comment | what happens |
|---|---|---|
| `scheduler_trigger` | a trigger wakes the loop (`scheduler.py:77`) | one that lands between a wait's timeout and `_wake.clear()` is wiped by it |
| `gate_partial` | a bad extraction is skipped, not stored (`judge.py:352`) | when building a finding raises, the extraction row is already inserted and the next commit of the run keeps it |
| `ingest_capped` | what the cap dropped from a first poll is not deferred (`pipeline.py:234`) | it is inside the cutoff stamped with that poll, and comes in the next day |
| `config_roundtrip` | an import is an upsert of an exported snapshot, the way to restore it, and round-trips (`actions.py:90`, `deploy.md:284`, `test_actions_api.py:2`) | a threshold or cap of 0, which the export writes, is taken for missing (`actions.py:134-135`) and the default stored |

More were met that have no run of their own. Each is a behaviour of the model, and
most are hazards in `PROJECT.json` with a note or a property that draws its edge.

- Reprocess judges against the current prompts (`pipeline.py:88`), but of two
  overlapping runs the one with the older prompt may answer last, and its verdict
  stands.
- NSTR means a quiet day or everything rejected (`pipeline.py:593`), but in shadow
  mode one rejected card silences a page that also has cards nobody judged.
- An item never fetched is to be shown once (`pipeline.py:465`); depending on the
  times of the runs it may be shown on two days or on none.
- A run that fails between gate and page leaves what it passed to no page at all, if
  the next run comes a day later.
- Migration 003 is to leave no existing source without a date (its docstring,
  `migrate_003_backfill_cutoff.py:11-16`). A death between its ALTER and its UPDATE
  does, for good: the next start finds the column. `BackfillWhole` excepts it.
- The snapshot before every migration (`deploy.md:75-76`) is pushed out by the starts
  of a crash loop, each of which writes one. `OriginalKept` says from when on.
- Of two edits of one source at once the later undoes the earlier one's column
  (`sources.py:115`).
- Purging a source whose item is at the model lets the article that is given the
  item's id next inherit the verdict or the summary. The properties except exactly
  the calls in flight (`astray`).
- A stop between the loop's look for it and the start of the run does not keep that
  run from starting (`scheduler.py:109-118`).
- A time zone that cannot be read, a locked database at `pipeline.py:48`, leaves the
  run's row 'running' for good: the read is outside the `try`.
- Moving the timezone west runs a date again that has run (`scheduler.py:47`), once a
  move.
- Purging the newest source lets the one created next inherit what a poll in progress
  writes to its id. The properties except exactly that (`Inherited`).

## What is not modelled

- The resolver, URL normalisation, JSON scanning, model limits, prompt rendering and
  templates: functions of their input without state.
- `config.py`, logging, the archive index, static files.
- The retry loop inside one `fetch`: it ends in a 200, a 304 or an exception, and
  those are in `Ingest`. Of the web and youtube adapters only what their polls and
  their `content()` can come out as.
- Secrets: settings rows that no export, import or order of a run touches.
- The page writer and the notifier beyond what they are given and whether they
  ran; a failed notification changes no state of the program.
- Runs in two processes. `python -m tattoo.pipeline` (`pipeline.py:698`) runs a manual
  pipeline in a process of its own, which nothing keeps from overlapping the server's:
  `Gate` has at most one scheduled or manual run live at a time, as the scheduler
  thread has, and `NormalJudgesOnce`, `DashboardSettles` and the properties of `Ingest`
  are said of that. `add_source` starts no runs.
- What becomes of the push message: `Briefing` has which digest is sent, and no
  property is about it.

## Plan

Done, in the order of what would hurt most: the schedule, the gate, ingest, the
briefing, the start and the configuration, with a proof module for each. What
would come next:

1. `BackfillWhole` and `OriginalKept` name what they except; how long an exception
   lasts, and what ends it, is not stated.
2. A composition of `Scheduler` with an abstract run that takes time and may fail,
   so that "a page every day" can be stated across the two.
3. A manual pipeline in a second process: two normal runs live at once in `Gate`, and what
   is left of one verdict an item.
