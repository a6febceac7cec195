------------------------------ MODULE Scheduler ------------------------------
(***************************************************************************)
(* The scheduler thread of src/tattoo/scheduler.py: one daemon thread that *)
(* re-reads its settings, waits on an Event for the next slot, runs the    *)
(* pipeline and records the date of a scheduled run in settings.           *)
(*                                                                         *)
(* Time is a count of ticks.  A wall clock is the tick count shifted by the *)
(* offset of the timezone in settings; a date is a wall clock divided by   *)
(* the length of a day.  The pipeline itself is a step that takes any      *)
(* number of ticks; what it does is the business of Gate and Ingest.       *)
(***************************************************************************)
EXTENDS Integers

CONSTANTS
    DayLen,       \* ticks in a day
    MaxWait,      \* _MAX_WAIT_S: the longest single wait, in ticks
    Schedules,    \* the values schedule_time may take, as ticks after midnight
    Zones,        \* the timezones an operator may choose
    Offset,       \* the wall clock of a zone is the tick count plus its offset
    StartZone,    \* timezone and schedule_time in settings at first start
    StartSchedule,
    MaxOffset,    \* no zone is further ahead than this
    MaxClock,     \* bounds: the ticks explored, ...
    MaxTriggers,  \* ... the POST /api/run requests,
    MaxEdits,     \* ... the settings edits
    MaxCrashes    \* ... and the process deaths

ASSUME ClockAssumption ==
    /\ DayLen \in Nat \ {0}
    /\ MaxWait \in Nat \ {0}
    /\ Schedules \subseteq 0 .. DayLen - 1
    /\ MaxOffset \in Nat
    /\ Offset \in [Zones -> 0 .. MaxOffset]
    /\ StartZone \in Zones
    /\ StartSchedule \in Schedules

ASSUME BoundAssumption ==
    /\ MaxClock \in Nat
    /\ MaxTriggers \in Nat
    /\ MaxEdits \in Nat
    /\ MaxCrashes \in Nat

VARIABLES
    clock,     \* ticks since the first start
    zone,      \* settings.timezone
    schedule,  \* settings.schedule_time
    lastRun,   \* settings.last_run_date
    wake,      \* Scheduler._wake
    stop,      \* Scheduler._stop
    thread,    \* where the thread is
    plan,      \* what one pass of the loop computed before it waited
    woke,      \* what Event.wait returned
    firing,    \* the reason and the date of the run in progress
    edits, triggers, crashes,  \* how much of each bound is used
    west,      \* history: the edits that moved the timezone west
    started,   \* history: scheduled runs started, by date
    cut,       \* history: those whose date was never recorded
    owed,      \* history: a trigger no run has started for yet
    settled,   \* history: ticks since the last settings edit, up to MaxWait
    slipped    \* history: stop() came when the pass had already looked for it

settings == <<zone, schedule, lastRun>>
events   == <<wake, stop>>
used     == <<edits, triggers, crashes, west>>
marks    == <<settled, slipped>>
history  == <<started, cut, owed, marks>>
vars     == <<clock, settings, events, thread, plan, woke, firing, used, history>>

NoDate == -1

Dates(w) == w \div DayLen                 \* the date shown by wall clock w
Wall(z)  == clock + Offset[z]
Days     == 0 .. MaxClock + MaxOffset     \* every date the bounds can reach

Loop    == {"read", "wait", "returned", "checked", "run", "record"}
Stopped == {"exited", "dead", "down"}

\* Mutants of NextRun: no look at the last run, and the wrong way round.
NextRunForgets(now, sched, last) ==
    LET candidate == Dates(now) * DayLen + sched
    IN  IF candidate <= now THEN now ELSE candidate
NextRunYesterday(now, sched, last) ==
    LET candidate == Dates(now) * DayLen + sched
    IN  IF last = Dates(now) THEN candidate - DayLen
        ELSE IF candidate <= now THEN now
        ELSE candidate

\* next_run: now if today's slot is due and today has not run.
NextRun(now, sched, last) ==
    LET candidate == Dates(now) * DayLen + sched
    IN  IF last = Dates(now) THEN candidate + DayLen
        ELSE IF candidate <= now THEN now
        ELSE candidate

NoPlan   == [zone |-> StartZone, at |-> 0, target |-> 0, timeout |-> 0]
NoFiring == [reason |-> "none", date |-> NoDate]

Init ==
    /\ clock = 0
    /\ zone = StartZone
    /\ schedule = StartSchedule
    /\ lastRun = NoDate
    /\ wake = FALSE
    /\ stop = FALSE
    /\ thread = "read"
    /\ plan = NoPlan
    /\ woke = FALSE
    /\ firing = NoFiring
    /\ edits = 0 /\ triggers = 0 /\ crashes = 0 /\ west = 0
    /\ started = [d \in Days |-> 0]
    /\ cut = [d \in Days |-> 0]
    /\ owed = "none"
    /\ settled = MaxWait
    /\ slipped = FALSE

(***************************************************************************)
(* The loop.                                                               *)
(***************************************************************************)

\* Mutant of WaitFor: no re-read before the target.
WaitThrough(now, target) == target - now

\* A wait never outlasts _MAX_WAIT_S.
WaitFor(now, target) == IF target - now < MaxWait THEN target - now ELSE MaxWait

\* Mutant of Exits: a wait that was woken is taken for a trigger.
ExitsUnlessWoken == stop /\ ~woke

\* self._stop.is_set(), at the top of the loop and after the wait.
Exits == stop

\* The top of the loop: settings are read, the target computed, and the wait
\* entered unless the target is already here.
Read ==
    /\ thread = "read"
    /\ IF Exits
       THEN thread' = "exited" /\ UNCHANGED <<plan, woke>>
       ELSE LET now    == Wall(zone)
                target == NextRun(now, schedule, lastRun)
                wait   == WaitFor(now, target)
            IN  /\ plan' = [zone |-> zone, at |-> now, target |-> target,
                            timeout |-> clock + wait]
                /\ thread' = IF wait > 0 THEN "wait" ELSE "returned"
                /\ woke' = FALSE
    /\ owed' = IF Exits THEN "none" ELSE owed
    /\ UNCHANGED <<clock, settings, events, firing, used, started, cut, marks>>

\* The settings cannot be read: nothing catches the error, and the thread ends.
ReadRefused ==
    /\ thread = "read"
    /\ ~Exits
    /\ thread' = "dead"
    /\ UNCHANGED <<clock, settings, events, plan, woke, firing, used, history>>

\* Event.wait returns because the event is set ...
WaitWoken ==
    /\ thread = "wait"
    /\ wake
    /\ thread' = "returned"
    /\ woke' = TRUE
    /\ UNCHANGED <<clock, settings, events, plan, firing, used, history>>

\* ... or because its timeout has passed.
WaitTimesOut ==
    /\ thread = "wait"
    /\ ~wake
    /\ clock >= plan.timeout
    /\ thread' = "returned"
    /\ woke' = FALSE
    /\ UNCHANGED <<clock, settings, events, plan, firing, used, history>>

\* The event is cleared and the loop looks whether it has to exit.
Clear ==
    /\ thread = "returned"
    /\ wake' = FALSE
    /\ thread' = IF Exits THEN "exited" ELSE "checked"
    /\ owed' = IF Exits THEN "none" ELSE owed
    /\ UNCHANGED <<clock, settings, stop, plan, woke, firing, used, started, cut,
                   marks>>

\* The loop goes round again or starts a run: it does not look at stop again.
Decide ==
    /\ thread = "checked"
    /\ LET now    == Wall(plan.zone)
           reason == IF woke THEN "manual" ELSE "scheduled"
           early  == ~woke /\ now < plan.target
       IN  IF early
           THEN /\ thread' = "read"
                /\ UNCHANGED <<firing, started, owed>>
           ELSE /\ thread' = "run"
                /\ firing' = [reason |-> reason, date |-> Dates(now)]
                /\ owed' = "none"
                /\ started' = IF reason = "scheduled"
                              THEN [started EXCEPT ![Dates(now)] = @ + 1]
                              ELSE started
    /\ slipped' = FALSE
    /\ UNCHANGED <<clock, settings, events, plan, woke, used, cut, settled>>

\* Mutant of RunEnds: the event is cleared after the run instead of before.
RunEndsClearing ==
    /\ thread = "run"
    /\ thread' = "record"
    /\ wake' = FALSE
    /\ UNCHANGED <<clock, settings, stop, plan, woke, firing, used, history>>

\* The pipeline returns or raises: either way the finally clause comes next.
RunEnds ==
    /\ thread = "run"
    /\ thread' = "record"
    /\ UNCHANGED <<clock, settings, events, plan, woke, firing, used, history>>

\* A scheduled run's date is recorded whatever its outcome; a manual run
\* leaves the daily slot alone.
Record ==
    /\ thread = "record"
    /\ lastRun' = IF firing.reason = "scheduled" THEN firing.date ELSE lastRun
    /\ thread' = "read"
    /\ firing' = NoFiring
    /\ UNCHANGED <<clock, zone, schedule, events, plan, woke, used, history>>

\* The write meets a lock another connection keeps longer than the busy
\* timeout: nothing catches the error, and the thread ends.
RecordRefused ==
    /\ thread = "record"
    /\ firing.reason = "scheduled"
    /\ thread' = "dead"
    /\ firing' = NoFiring
    /\ cut' = [cut EXCEPT ![firing.date] = @ + 1]
    /\ UNCHANGED <<clock, settings, events, plan, woke, used, started, owed, marks>>

(***************************************************************************)
(* The rest of the process, the operator and the clock.                    *)
(***************************************************************************)

\* POST /api/run.  The request is answered "triggered" in every state of the
\* thread.  owed says where the thread was: "late" when its wait had already
\* returned and the event not yet been cleared, "held" anywhere else.
Trigger ==
    /\ thread \in Loop
    /\ triggers < MaxTriggers
    /\ triggers' = triggers + 1
    /\ wake' = TRUE
    /\ owed' = IF owed = "none" /\ thread = "returned" THEN "late"
               ELSE IF thread = "returned" THEN owed ELSE "held"
    /\ UNCHANGED <<clock, settings, stop, thread, plan, woke, firing, edits,
                   crashes, west, started, cut, marks>>

\* PUT /api/settings.  BOUND: no edit in the last MaxWait ticks explored, so
\* that the re-read which picks an edit up is always explored too.
EditSettings ==
    /\ edits < MaxEdits
    /\ clock + MaxWait <= MaxClock
    /\ edits' = edits + 1
    /\ \/ /\ schedule' \in Schedules \ {schedule}
          /\ UNCHANGED <<zone, west>>
       \/ /\ zone' \in Zones \ {zone}
          /\ west' = IF Offset[zone'] < Offset[zone] THEN west + 1 ELSE west
          /\ UNCHANGED schedule
    /\ settled' = 0
    /\ UNCHANGED <<clock, lastRun, events, thread, plan, woke, firing, triggers,
                   crashes, started, cut, owed, slipped>>

\* Orderly shutdown: the lifespan handler calls Scheduler.stop.
Stop ==
    /\ crashes < MaxCrashes
    /\ thread \in Loop
    /\ ~stop
    /\ stop' = TRUE
    /\ wake' = TRUE
    /\ slipped' = (thread = "checked")
    /\ UNCHANGED <<clock, settings, thread, plan, woke, firing, used, started, cut,
                   owed, settled>>

\* The process ends, orderly or not, and takes the daemon thread with it.
Crash ==
    /\ crashes < MaxCrashes
    /\ thread # "down"
    /\ crashes' = crashes + 1
    /\ thread' = "down"
    /\ wake' = FALSE
    /\ stop' = FALSE
    /\ cut' = IF thread \in {"run", "record"} /\ firing.reason = "scheduled"
              THEN [cut EXCEPT ![firing.date] = @ + 1]
              ELSE cut
    /\ firing' = NoFiring
    /\ owed' = "none"
    /\ slipped' = FALSE
    /\ UNCHANGED <<clock, settings, plan, woke, edits, triggers, west, started,
                   settled>>

Restart ==
    /\ thread = "down"
    /\ thread' = "read"
    /\ UNCHANGED <<clock, settings, events, plan, woke, firing, used, history>>

Tick ==
    /\ clock < MaxClock
    /\ clock' = clock + 1
    /\ settled' = IF settled < MaxWait THEN settled + 1 ELSE settled
    /\ UNCHANGED <<settings, events, thread, plan, woke, firing, used, started, cut,
                   owed, slipped>>

ThreadStep ==
    \/ Read \/ ReadRefused \/ WaitWoken \/ WaitTimesOut \/ Clear \/ Decide
    \/ RunEnds \/ Record \/ RecordRefused

Next ==
    \/ ThreadStep
    \/ Trigger
    \/ EditSettings
    \/ Stop
    \/ Crash
    \/ Restart
    \/ Tick

Spec == Init /\ [][Next]_vars

\* The operating system runs the thread and time passes; a pipeline run ends
\* because every call it makes has a timeout.  Nothing obliges an operator.
FairSpec == Spec /\ WF_vars(ThreadStep) /\ WF_vars(Tick)

(***************************************************************************)
(* Properties.                                                             *)
(***************************************************************************)

\* Every variable keeps the shape the code gives it.
TypeOK ==
    /\ clock \in 0 .. MaxClock
    /\ zone \in Zones
    /\ schedule \in Schedules
    /\ lastRun \in Days \cup {NoDate}
    /\ wake \in BOOLEAN
    /\ stop \in BOOLEAN
    /\ thread \in Loop \cup Stopped
    /\ plan \in [zone : Zones, at : Nat, target : Nat, timeout : Nat]
    /\ woke \in BOOLEAN
    /\ firing \in [reason : {"none", "manual", "scheduled"}, date : Days \cup {NoDate}]
    /\ edits \in 0 .. MaxEdits
    /\ triggers \in 0 .. MaxTriggers
    /\ crashes \in 0 .. MaxCrashes
    /\ west \in 0 .. edits
    /\ started \in [Days -> Nat]
    /\ cut \in [Days -> Nat]
    /\ owed \in {"none", "held", "late"}
    /\ settled \in 0 .. MaxWait
    /\ slipped \in BOOLEAN

\* A date gets a second scheduled run only in place of one whose date was
\* never recorded, or because the operator moved the timezone west and it came
\* round again, once for each such move: whatever triggers, edits, restarts and
\* slow runs come in between.
NoDoubleFire == \A d \in Days : started[d] <= 1 + cut[d] + west

\* Until the timezone is moved west scheduled runs never go back in time: a
\* run starts for a date later than every date already recorded.
DatesAdvance ==
    [][\A d \in Days : started'[d] > started[d] => d > lastRun \/ west > 0]_vars

\* Once stop() has been called no run starts, although stop() wakes the wait
\* exactly as a trigger does: none but the one of a pass that had already looked
\* for stop when the call came, and which looks no second time.
StopStartsNothing ==
    [][stop /\ thread' = "run" /\ thread # "run" => slipped]_vars

\* The thread waits, and has no reason yet to return from the wait.
Idle == thread = "wait" /\ ~wake /\ clock < plan.timeout

\* No date's slot is slept through: time never passes an idle thread by while
\* the slot of the date on the wall is due and no scheduled run has started for
\* that date, whatever edits, triggers, slow runs and restarts came before; only
\* a settings edit younger than the longest wait may still be unnoticed.  The
\* last tick of every date is such a tick, its slot being due by then.
SlotServed ==
    [][LET now == Wall(zone)
       IN  clock' > clock /\ Idle /\ settled = MaxWait
             /\ now >= Dates(now) * DayLen + schedule
           => started[Dates(now)] > 0]_vars

\* A trigger that arrives while the thread is anywhere but between the return
\* of a wait and the clearing of the event gets a run that starts after it,
\* while the thread lives.
HeldTriggerServed == owed = "held" ~> owed = "none" \/ thread \in Stopped

\* What may remember a trigger: the event, a wait that has returned because of
\* it, or a pass that is about to start a run because the slot is here.
Remembered ==
    \/ wake
    \/ thread \in {"returned", "checked"} /\ woke
    \/ thread = "checked" /\ Wall(plan.zone) >= plan.target

\* Such a trigger is never forgotten on the way.
HeldIsRemembered == owed = "held" => Remembered

\* A trigger no run has started for is still remembered.  trigger() promises to
\* wake the loop for an immediate run, whenever it is called.
TriggerRemembered == owed # "none" => Remembered
=============================================================================
