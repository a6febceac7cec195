-------------------------------- MODULE Ingest --------------------------------
(***************************************************************************)
(* Polling, the diff against what is stored, and the limits on what is     *)
(* taken: _poll_stage, _ingest and the helpers of src/tattoo/pipeline.py,   *)
(* the conditional GET of sources/base.py, and the source routes that may  *)
(* run between any two of its steps.                                       *)
(*                                                                         *)
(* One run polls at a time (the scheduler thread's).  It reads every       *)
(* enabled source at its start and works from those copies; each source is *)
(* fetched, then ingested in one transaction, then its validators are      *)
(* saved in another.                                                       *)
(*                                                                         *)
(* Time is a count of instants, DayLen to a local day; the first day is    *)
(* past at the start and dates the back catalogue.  A feed's validator     *)
(* (ETag, Last-Modified) stands for the entries it serves, so that a 304   *)
(* means nothing has changed since.                                        *)
(***************************************************************************)
EXTENDS Integers, FiniteSets, FiniteSetsExt

CONSTANTS
    Entries,     \* what the feeds may carry, by external_id
    Feeds,       \* feed urls
    FeedOf,      \* the feed an entry appears in
    Pub,         \* its published_at, or Undated
    Upcoming,    \* entries that are unaired premieres until they air
    Initial,     \* the sources table at the start: row id -> feed
    Creatable,   \* feeds the operator may add, and those it may purge
    Purgeable,
    FirstRunItemLimit,  \* FIRST_RUN_ITEM_LIMIT
    DailyItemCap,       \* sources.daily_item_cap, the same for every source
    DayLen,
    MaxClock,    \* bounds: instants, ...
    MaxRuns,     \* ... runs, ...
    MaxEdits,    \* ... creates, purges and enable/disable edits, ...
    MaxCrashes   \* ... and process deaths

Undated  == -1
NoCutoff == -1
NoFeed   == "no feed"

ASSUME FeedAssumption ==
    /\ FeedOf \in [Entries -> Feeds]
    /\ Pub \in [Entries -> Nat \cup {Undated}]
    /\ Upcoming \subseteq Entries
    /\ NoFeed \notin Feeds
    /\ IsFiniteSet(Entries)

\* Rows are numbered from 1.
ASSUME InitialAssumption ==
    LET n == Cardinality(DOMAIN Initial)
    IN  n \in Nat /\ Initial \in [1 .. n -> Feeds]

ASSUME LimitAssumption ==
    /\ FirstRunItemLimit \in Nat
    /\ DailyItemCap \in Nat
    /\ DayLen \in Nat \ {0}
    /\ MaxClock \in Nat /\ DayLen <= MaxClock
    /\ MaxRuns \in Nat /\ MaxEdits \in Nat /\ MaxCrashes \in Nat

Ids == 1 .. Cardinality(DOMAIN Initial) + MaxEdits

VARIABLES
    clock,
    served,      \* the entries each feed serves now
    aired,       \* the premieres that have aired
    rows,        \* sources: row id -> feed, enabled, backfill_cutoff, validator
    items,       \* items: their source id, entry, first_seen_at and, history, run
    pc,          \* where the run is
    now,         \* the run's start
    queue,       \* copies of the source rows it has still to poll
    src,         \* the copy it is polling from
    got,         \* the fetched and enriched entries
    validator,   \* the validator that came with them
    catalogue,   \* history, by source id: what its first poll was served, ...
    capped,      \* ... what the cap took from that first poll, ...
    letgo,       \* ... all it was ever served and did not take, ...
    born,        \* ... and the run that was polling when the row was made, or 0
    polls, edits, crashes

feeds   == <<served, aired>>
run     == <<now, queue, src, got, validator>>
history == <<catalogue, capped, letgo, born>>
used    == <<polls, edits, crashes>>
vars    == <<clock, feeds, rows, items, pc, run, history, used>>

NoRow == [feed |-> NoFeed, enabled |-> FALSE, cutoff |-> NoCutoff, validator |-> {}]
NoSrc == [id |-> 0, feed |-> NoFeed, cutoff |-> NoCutoff, validator |-> {}]

Fresh(f) == [feed |-> f, enabled |-> TRUE, cutoff |-> NoCutoff, validator |-> {}]
Exists(i) == rows[i].feed # NoFeed

Init ==
    /\ clock = DayLen
    /\ served = [f \in Feeds |-> {}]
    /\ aired = {}
    /\ rows = [i \in Ids |-> IF i \in DOMAIN Initial THEN Fresh(Initial[i]) ELSE NoRow]
    /\ items = {}
    /\ pc = "idle"
    /\ now = 0
    /\ queue = {}
    /\ src = NoSrc
    /\ got = {}
    /\ validator = {}
    /\ catalogue = [i \in Ids |-> {}]
    /\ capped = [i \in Ids |-> {}]
    /\ letgo = [i \in Ids |-> {}]
    /\ born = [i \in Ids |-> 0]
    /\ polls = 0 /\ edits = 0 /\ crashes = 0

(***************************************************************************)
(* A run.                                                                  *)
(***************************************************************************)

\* The enabled sources are read once, at the start.
StartRun ==
    /\ pc = "idle"
    /\ polls < MaxRuns
    /\ polls' = polls + 1
    /\ now' = clock
    /\ queue' = {[id |-> i, feed |-> rows[i].feed, cutoff |-> rows[i].cutoff,
                  validator |-> rows[i].validator] :
                    i \in {i \in Ids : Exists(i) /\ rows[i].enabled}}
    /\ pc' = "poll"
    /\ UNCHANGED <<clock, feeds, rows, items, src, got, validator, history, edits,
                   crashes>>

\* ORDER BY id.
NextSource == CHOOSE s \in queue : \A t \in queue : s.id <= t.id

\* safe() turns whatever the adapter raises into a line on the source's row.
PollFails ==
    /\ pc = "poll"
    /\ queue # {}
    /\ queue' = queue \ {NextSource}
    /\ UNCHANGED <<clock, feeds, rows, items, pc, now, src, got, validator, history,
                   used>>

\* Enrich drops the premieres still to air; without an api key, or when the
\* lookup fails, entries pass unfiltered.
Enriched(entries) == {entries, entries \ (Upcoming \ aired)}

\* A 304 repeats the validator sent; a 200 brings the entries served now and
\* their validator, if the server sends one.
Poll ==
    /\ pc = "poll"
    /\ queue # {}
    /\ src' = NextSource
    /\ queue' = queue \ {NextSource}
    /\ LET current  == served[NextSource.feed]
           known    == NextSource.validator
       IN  IF known # {} /\ known = current
           THEN got' = {} /\ validator' = known
           ELSE got' \in Enriched(current) /\ validator' \in {current, {}}
    /\ pc' = "ingest"
    /\ UNCHANGED <<clock, feeds, rows, items, now, history, used>>

DayOf(t)    == t \div DayLen
DayStart(t) == DayOf(t) * DayLen

\* The n newest of a set of entries: a prefix of the sort by published_at, in
\* which undated entries come last and ties stay in the order of the feed.
Newest(n, entries) ==
    {top \in SUBSET entries :
        /\ Cardinality(top) = IF n < Cardinality(entries) THEN n ELSE Cardinality(entries)
        /\ \A e \in top, f \in entries \ top : Pub[e] >= Pub[f]}

\* Mutants: no dedupe against the table, no cutoff, no first-run limit, a cap
\* on each run, a cutoff a day too early.
NewToBatch(id, fetched)  == fetched
WindowOpen(s, fresh)     == IF s.cutoff = NoCutoff THEN Newest(FirstRunItemLimit, fresh)
                            ELSE {fresh}
BudgetPerRun(id)         == DailyItemCap
CutoffDayEarly(window)  == Min({Pub[e] : e \in window}) - DayLen

\* The entries that are new to the source ...
NewTo(id, fetched) == fetched \ {it.entry : it \in {it \in items : it.source = id}}

\* ... and inside its window, which for a first poll is its newest few.
Window(s, fresh) ==
    IF s.cutoff = NoCutoff THEN Newest(FirstRunItemLimit, fresh)
    ELSE {{e \in fresh : Pub[e] = Undated \/ Pub[e] >= s.cutoff}}

\* The cap counts what was stored since the local midnight before the run began.
Budget(id) ==
    LET today == {it \in items : it.source = id /\ it.seen >= DayStart(now)}
    IN  IF Cardinality(today) < DailyItemCap THEN DailyItemCap - Cardinality(today) ELSE 0

\* _backfill_cutoff: the oldest date in the window, or else the poll time.
Cutoff(window) ==
    LET dated == {Pub[e] : e \in window} \ {Undated}
    IN  IF dated = {} THEN clock ELSE Min(dated)

\* What was fetched is local to the poll of one source.
Forget == src' = NoSrc /\ got' = {} /\ validator' = {}

\* _ingest: one transaction for the items and for the cutoff of a first poll.
\* It trusts the copy of the row: a source that has gone meanwhile refuses the
\* first INSERT on its foreign key, and the whole run fails.
Ingest ==
    /\ pc = "ingest"
    /\ \E window \in Window(src, NewTo(src.id, got)) :
       \E taken \in Newest(Budget(src.id), window) :
          IF ~Exists(src.id) /\ taken # {}
          THEN /\ pc' = "idle"
               /\ now' = 0
               /\ queue' = {}
               /\ Forget
               /\ UNCHANGED <<rows, items, catalogue, capped, letgo>>
          ELSE /\ pc' = "save"
               /\ items' = items \cup
                     {[source |-> src.id, entry |-> e, seen |-> clock, run |-> polls] :
                         e \in taken}
               /\ IF src.cutoff = NoCutoff /\ window # {} /\ Exists(src.id)
                  THEN /\ rows' = [rows EXCEPT ![src.id].cutoff = Cutoff(window)]
                       /\ catalogue' = [catalogue EXCEPT ![src.id] = got]
                       /\ capped' = [capped EXCEPT ![src.id] = window \ taken]
                  ELSE UNCHANGED <<rows, catalogue, capped>>
               /\ letgo' = [letgo EXCEPT ![src.id] =
                               @ \cup (got \ taken) \cup
                               IF validator = src.validator THEN {} ELSE validator \ got]
               /\ UNCHANGED run
    /\ UNCHANGED <<clock, feeds, born, used>>

\* Mutant of SaveValidator: it asks the feed again for its validator.
SaveLatestValidator ==
    /\ pc = "save"
    /\ rows' = IF Exists(src.id) THEN [rows EXCEPT ![src.id].validator = served[src.feed]]
               ELSE rows
    /\ pc' = "poll"
    /\ Forget
    /\ UNCHANGED <<clock, feeds, items, now, queue, history, used>>

\* The validators go to the row that now has the id.
SaveValidator ==
    /\ pc = "save"
    /\ rows' = IF Exists(src.id) THEN [rows EXCEPT ![src.id].validator = validator]
               ELSE rows
    /\ pc' = "poll"
    /\ Forget
    /\ UNCHANGED <<clock, feeds, items, now, queue, history, used>>

EndRun ==
    /\ pc = "poll"
    /\ queue = {}
    /\ pc' = "idle"
    /\ now' = 0
    /\ UNCHANGED <<clock, feeds, rows, items, queue, src, got, validator, history, used>>

\* The process dies between two transactions; the next start begins afresh.
Crash ==
    /\ pc # "idle"
    /\ crashes < MaxCrashes
    /\ crashes' = crashes + 1
    /\ pc' = "idle"
    /\ now' = 0
    /\ queue' = {}
    /\ Forget
    /\ UNCHANGED <<clock, feeds, rows, items, history, polls, edits>>

(***************************************************************************)
(* The operator, the feeds and the clock.                                  *)
(***************************************************************************)

\* create_source, or import_config with a feed_url not in the table: the new
\* row's id is the largest in use plus one.
Create(f) ==
    /\ edits < MaxEdits
    /\ f \in Creatable
    /\ \A i \in Ids : rows[i].feed # f
    /\ edits' = edits + 1
    /\ LET new == 1 + Max({i \in Ids : Exists(i)} \cup {0})
       IN  /\ rows' = [rows EXCEPT ![new] = Fresh(f)]
           /\ catalogue' = [catalogue EXCEPT ![new] = {}]
           /\ capped' = [capped EXCEPT ![new] = {}]
           /\ letgo' = [letgo EXCEPT ![new] = {}]
           /\ born' = [born EXCEPT ![new] = IF pc = "idle" THEN 0 ELSE polls]
    /\ UNCHANGED <<clock, feeds, items, pc, run, polls, crashes>>

\* Mutant of Purge: foreign keys are off, as sqlite has them by default.
PurgeRowOnly(i) ==
    /\ edits < MaxEdits
    /\ rows[i].feed \in Purgeable
    /\ edits' = edits + 1
    /\ rows' = [rows EXCEPT ![i] = NoRow]
    /\ UNCHANGED <<clock, feeds, items, pc, run, history, polls, crashes>>

\* purge_source, with the items that cascade.
Purge(i) ==
    /\ edits < MaxEdits
    /\ rows[i].feed \in Purgeable
    /\ edits' = edits + 1
    /\ rows' = [rows EXCEPT ![i] = NoRow]
    /\ items' = {it \in items : it.source # i}
    /\ UNCHANGED <<clock, feeds, pc, run, history, polls, crashes>>

\* update_source, or an import of a feed_url already there, with enabled alone
\* changed: cutoff and validators stay.
SetEnabled(i) ==
    /\ edits < MaxEdits
    /\ Exists(i)
    /\ edits' = edits + 1
    /\ rows' = [rows EXCEPT ![i].enabled = ~@]
    /\ UNCHANGED <<clock, feeds, items, pc, run, history, polls, crashes>>

\* An entry appears in its feed, at its date or later; entries drop off.
Publish(e) ==
    /\ e \notin served[FeedOf[e]]
    /\ Pub[e] <= clock
    /\ served' = [served EXCEPT ![FeedOf[e]] = @ \cup {e}]
    /\ UNCHANGED <<clock, aired, rows, items, pc, run, history, used>>

Withdraw(e) ==
    /\ e \in served[FeedOf[e]]
    /\ served' = [served EXCEPT ![FeedOf[e]] = @ \ {e}]
    /\ UNCHANGED <<clock, aired, rows, items, pc, run, history, used>>

Air(e) ==
    /\ e \in Upcoming \ aired
    /\ aired' = aired \cup {e}
    /\ UNCHANGED <<clock, served, rows, items, pc, run, history, used>>

Tick ==
    /\ clock < MaxClock
    /\ clock' = clock + 1
    /\ UNCHANGED <<feeds, rows, items, pc, run, history, used>>

Next ==
    \/ StartRun \/ PollFails \/ Poll \/ Ingest \/ SaveValidator \/ EndRun \/ Crash
    \/ \E f \in Feeds : Create(f)
    \/ \E i \in Ids : Purge(i) \/ SetEnabled(i)
    \/ \E e \in Entries : Publish(e) \/ Withdraw(e) \/ Air(e)
    \/ Tick

Spec == Init /\ [][Next]_vars

(***************************************************************************)
(* Properties.                                                             *)
(***************************************************************************)

Row     == [feed : Feeds \cup {NoFeed}, enabled : BOOLEAN, cutoff : Nat \cup {NoCutoff},
            validator : SUBSET Entries]
RowCopy == [id : Ids \cup {0}, feed : Feeds \cup {NoFeed}, cutoff : Nat \cup {NoCutoff},
            validator : SUBSET Entries]

\* Every variable keeps the shape the schema and the code give it.
TypeOK ==
    /\ clock \in 0 .. MaxClock
    /\ served \in [Feeds -> SUBSET Entries]
    /\ aired \subseteq Upcoming
    /\ rows \in [Ids -> Row]
    /\ items \subseteq
          [source : Ids, entry : Entries, seen : 0 .. MaxClock, run : 1 .. MaxRuns]
    /\ pc \in {"idle", "poll", "ingest", "save"}
    /\ now \in 0 .. MaxClock
    /\ queue \subseteq RowCopy
    /\ src \in RowCopy
    /\ got \subseteq Entries
    /\ validator \subseteq Entries
    /\ catalogue \in [Ids -> SUBSET Entries]
    /\ capped \in [Ids -> SUBSET Entries]
    /\ letgo \in [Ids -> SUBSET Entries]
    /\ born \in [Ids -> 0 .. MaxRuns]
    /\ polls \in 0 .. MaxRuns
    /\ edits \in 0 .. MaxEdits
    /\ crashes \in 0 .. MaxCrashes

ItemsOf(i) == {it \in items : it.source = i}

\* Stored by a run that was already polling when the row was made: the row has
\* been given an id that the run still works from.
Inherited(it) == it.run = born[it.source]

\* However many runs a day sees, and however late in the night they reach a
\* source, a source gains no more items in one local day than its cap.
CapPerDay ==
    \A i \in Ids, d \in 0 .. DayOf(MaxClock) :
        Cardinality({it \in ItemsOf(i) : DayOf(it.seen) = d}) <= DailyItemCap

\* An entry is stored once under a source: repeated polls, crashes between the
\* two transactions and lost validators never store it again.
StoredOnce == \A a, b \in items : a.source = b.source /\ a.entry = b.entry => a = b

\* Nothing dated before the cutoff is ever taken, and a source that has items
\* has its cutoff: the two are stored together.  The exception is what a row
\* inherits with its id.
NothingOlder ==
    \A it \in items :
        \/ Inherited(it)
        \/ /\ rows[it.source].cutoff # NoCutoff
           /\ Pub[it.entry] # Undated => Pub[it.entry] >= rows[it.source].cutoff

\* The saved validator makes the server answer 304, so what it covers is never
\* fetched again: all of it has been stored, or let go by a filter, the window
\* or the cap, whatever crash came between the two transactions.  The exception is
\* a row that was made while a run polled, which may inherit the validator of the
\* row before it.
ValidatorCovers ==
    \A i \in Ids : Exists(i) /\ born[i] = 0 =>
        rows[i].validator \subseteq {it.entry : it \in ItemsOf(i)} \cup letgo[i]

\* Of the back catalogue its first poll was served, a source contributes the
\* newest FIRST_RUN_ITEM_LIMIT entries at most, ever, next to what it inherits.
CatalogueStaysOut ==
    \A i \in Ids :
        Cardinality({it \in ItemsOf(i) : it.entry \in catalogue[i] /\ ~Inherited(it)})
            <= FirstRunItemLimit

\* What is stored under a row came from the feed of that row, whatever was purged
\* and added, and although the id of the newest row is given out again.  The
\* exception is a row made while a run polls, and what that one run stores under
\* it: no later run files an item under the wrong feed.
ItemsOfTheirFeed ==
    \A it \in items : FeedOf[it.entry] = rows[it.source].feed \/ Inherited(it)

(***************************************************************************)
(* What comments say of the code, and the code does not do.                *)
(***************************************************************************)

\* pipeline.py: an item the cap dropped from a first poll is dropped, not
\* deferred into tomorrow's budget.
CappedStaysOut ==
    \A i \in Ids : \A it \in ItemsOf(i) : it.entry \notin capped[i]
=============================================================================
