--------------------------- MODULE Scheduler_proofs ---------------------------
(***************************************************************************)
(* What Scheduler promises for every length of day, cap on a wait, set of  *)
(* zones and schedules, and for every bound.                               *)
(***************************************************************************)
EXTENDS Scheduler, TLAPS

(***************************************************************************)
(* Dates.                                                                  *)
(***************************************************************************)

\* The date of a wall clock is no later than the clock counts ticks.
LEMMA DateType ==
    ASSUME NEW w \in Nat
    PROVE  Dates(w) \in 0 .. w
  BY ClockAssumption, SMT DEF Dates

\* A date's ticks: from its midnight up to the next.
LEMMA DateSpan ==
    ASSUME NEW w \in Nat
    PROVE  /\ Dates(w) * DayLen <= w
           /\ w < (Dates(w) + 1) * DayLen
  <1>1. DayLen \in Nat \ {0} /\ Dates(w) \in Int
    BY ClockAssumption, DateType
  <1>2. Dates(w) * DayLen <= w /\ w < Dates(w) * DayLen + DayLen
    BY <1>1, SMT DEF Dates
  <1>3. (Dates(w) + 1) * DayLen = Dates(w) * DayLen + DayLen
    BY <1>1, SMT
  <1> QED BY <1>2, <1>3

\* Dates never run backwards.
LEMMA DateMonotone ==
    ASSUME NEW v \in Nat, NEW w \in Nat, v <= w
    PROVE  Dates(v) <= Dates(w)
  BY ClockAssumption, SMT DEF Dates

\* From the midnight that begins day k on, the date is k or later.
LEMMA DateReached ==
    ASSUME NEW k \in Nat, NEW w \in Nat, k * DayLen <= w
    PROVE  k <= Dates(w)
  BY ClockAssumption, SMT DEF Dates

\* Every wall clock the bounds allow shows one of Days.
LEMMA WallType ==
    ASSUME clock \in 0 .. MaxClock, NEW z \in Zones
    PROVE  /\ Wall(z) \in 0 .. MaxClock + MaxOffset
           /\ Dates(Wall(z)) \in Days
  <1>1. Wall(z) \in 0 .. MaxClock + MaxOffset
    BY ClockAssumption, BoundAssumption DEF Wall
  <1>2. Dates(Wall(z)) \in 0 .. Wall(z)
    BY <1>1, DateType
  <1> QED BY <1>1, <1>2, ClockAssumption, BoundAssumption DEF Days

\* next_run never answers with the past, and once the day has run it answers
\* with a tick of the next day.
LEMMA NextRunIsAhead ==
    ASSUME NEW now \in Nat, NEW sched \in Schedules, NEW last \in Int
    PROVE  /\ NextRun(now, sched, last) \in Nat
           /\ now <= NextRun(now, sched, last)
           /\ last = Dates(now) =>
                 (Dates(now) + 1) * DayLen <= NextRun(now, sched, last)
  <1>1. /\ DayLen \in Nat \ {0}
        /\ sched \in Nat
        /\ Dates(now) \in Nat
    BY ClockAssumption, DateType
  <1>2. Dates(now) * DayLen \in Nat /\ (Dates(now) + 1) * DayLen \in Nat
    BY <1>1, SMT
  <1>3. (Dates(now) + 1) * DayLen = Dates(now) * DayLen + DayLen
    BY <1>1, SMT
  <1>4. now < (Dates(now) + 1) * DayLen
    BY DateSpan
  <1> QED BY <1>1, <1>2, <1>3, <1>4 DEF NextRun

\* A wait towards a target that is not past is never negative.
LEMMA WaitIsAhead ==
    ASSUME NEW now \in Nat, NEW target \in Nat, now <= target
    PROVE  WaitFor(now, target) \in Nat
  BY ClockAssumption DEF WaitFor

(***************************************************************************)
(* Types.                                                                  *)
(***************************************************************************)

\* Counting one more of anything keeps a table of counts.
LEMMA CountOneMore ==
    ASSUME NEW f \in [Days -> Nat], NEW d
    PROVE  [f EXCEPT ![d] = @ + 1] \in [Days -> Nat]
  <1>1. CASE d \in Days
    BY <1>1
  <1>2. CASE d \notin Days
    <2>1. [f EXCEPT ![d] = @ + 1] = f
      BY <1>2, Zenon
    <2> QED BY <2>1
  <1> QED BY <1>1, <1>2

LEMMA TypeInit == Init => TypeOK
  <1> SUFFICES ASSUME Init
               PROVE  TypeOK
    OBVIOUS
  <1>1. plan \in [zone : Zones, at : Nat, target : Nat, timeout : Nat]
    BY ClockAssumption DEF Init, NoPlan
  <1>2. firing \in [reason : {"none", "manual", "scheduled"},
                    date : Days \cup {NoDate}]
    BY DEF Init, NoFiring
  <1>3. started \in [Days -> Nat] /\ cut \in [Days -> Nat]
    BY DEF Init
  <1>4. wake \in BOOLEAN /\ stop \in BOOLEAN /\ woke \in BOOLEAN
    BY Zenon DEF Init
  <1>5. /\ clock \in 0 .. MaxClock
        /\ edits \in 0 .. MaxEdits
        /\ triggers \in 0 .. MaxTriggers
        /\ crashes \in 0 .. MaxCrashes
        /\ west \in 0 .. edits
    BY BoundAssumption DEF Init
  <1>6. /\ zone \in Zones /\ schedule \in Schedules
        /\ lastRun \in Days \cup {NoDate}
        /\ thread \in Loop \cup Stopped
        /\ owed \in {"none", "held", "late"}
    BY ClockAssumption, Zenon DEF Init, Loop
  <1>7. settled \in 0 .. MaxWait
    BY ClockAssumption DEF Init
  <1>8. slipped \in BOOLEAN
    BY Zenon DEF Init
  <1> QED BY <1>1, <1>2, <1>3, <1>4, <1>5, <1>6, <1>7, <1>8 DEF TypeOK

LEMMA TypeNext == TypeOK /\ [Next]_vars => TypeOK'
  <1> SUFFICES ASSUME TypeOK, [Next]_vars
               PROVE  TypeOK'
    OBVIOUS
  <1> USE ClockAssumption, BoundAssumption
  <1>1. CASE Read
    <2> DEFINE now    == Wall(zone)
               target == NextRun(now, schedule, lastRun)
               wait   == WaitFor(now, target)
    <2>1. now \in Nat
      BY WallType DEF TypeOK
    <2>2. lastRun \in Int
      BY DEF TypeOK, Days, NoDate
    <2>3. target \in Nat /\ now <= target
      BY <2>1, <2>2, NextRunIsAhead DEF TypeOK
    <2>4. wait \in Nat
      BY <2>1, <2>3, WaitIsAhead
    <2> HIDE DEF now, target, wait
    <2>5. plan' \in [zone : Zones, at : Nat, target : Nat, timeout : Nat]
      BY <1>1, <2>1, <2>3, <2>4 DEF Read, TypeOK, now, target, wait
    <2>6. owed' \in {"none", "held", "late"}
      BY <1>1 DEF Read, TypeOK
    <2>7. thread' \in Loop \cup Stopped
      BY <1>1 DEF Read, Loop, Stopped
    <2>8. woke' \in BOOLEAN
      BY <1>1 DEF Read, TypeOK
    <2> QED BY <1>1, <2>5, <2>6, <2>7, <2>8
            DEF Read, TypeOK, settings, events, used, marks
  <1>2. CASE WaitWoken
    BY <1>2 DEF WaitWoken, TypeOK, Loop, settings, events, used, history, marks
  <1>3. CASE WaitTimesOut
    BY <1>3 DEF WaitTimesOut, TypeOK, Loop, settings, events, used, history, marks
  <1>4. CASE Decide
    <2>1. Dates(Wall(plan.zone)) \in Days
      BY WallType DEF TypeOK
    <2>2. started' \in [Days -> Nat]
      BY <1>4, <2>1 DEF Decide, TypeOK
    <2>3. firing' \in [reason : {"none", "manual", "scheduled"},
                       date : Days \cup {NoDate}]
      BY <1>4, <2>1 DEF Decide, TypeOK
    <2>4. thread' \in Loop \cup Stopped
      BY <1>4 DEF Decide, Loop, Stopped
    <2>5. owed' \in {"none", "held", "late"}
      BY <1>4 DEF Decide, TypeOK
    <2>6. slipped' \in BOOLEAN
      BY <1>4 DEF Decide
    <2> QED BY <1>4, <2>2, <2>3, <2>4, <2>5, <2>6
            DEF Decide, TypeOK, settings, events, used
  <1>5. CASE RunEnds
    BY <1>5 DEF RunEnds, TypeOK, Loop, settings, events, used, history, marks
  <1>6. CASE Record
    BY <1>6 DEF Record, TypeOK, NoFiring, Loop, events, used, history, marks
  <1>7. CASE RecordRefused
    <2>1. cut' \in [Days -> Nat]
      BY <1>7, CountOneMore DEF RecordRefused, TypeOK
    <2>2. firing' \in [reason : {"none", "manual", "scheduled"},
                       date : Days \cup {NoDate}]
      BY <1>7 DEF RecordRefused, NoFiring
    <2> QED BY <1>7, <2>1, <2>2
            DEF RecordRefused, TypeOK, Stopped, settings, events, used, marks
  <1>8. CASE Trigger
    BY <1>8 DEF Trigger, TypeOK, settings, marks
  <1>9. CASE EditSettings
    BY <1>9 DEF EditSettings, TypeOK, events, history, marks
  <1>10. CASE Stop
    BY <1>10 DEF Stop, TypeOK, settings, used, history, marks
  <1>11. CASE Crash
    <2>1. cut' \in [Days -> Nat]
      BY <1>11, CountOneMore DEF Crash, TypeOK
    <2>2. firing' \in [reason : {"none", "manual", "scheduled"},
                       date : Days \cup {NoDate}]
      BY <1>11 DEF Crash, NoFiring
    <2>3. wake' \in BOOLEAN /\ stop' \in BOOLEAN /\ slipped' \in BOOLEAN
      BY <1>11, Zenon DEF Crash
    <2> QED BY <1>11, <2>1, <2>2, <2>3 DEF Crash, TypeOK, Stopped, settings
  <1>12. CASE Restart
    BY <1>12 DEF Restart, TypeOK, Loop, settings, events, used, history, marks
  <1>13. CASE Tick
    BY <1>13 DEF Tick, TypeOK, settings, events, used, history, marks
  <1>14. CASE ReadRefused
    BY <1>14 DEF ReadRefused, TypeOK, Stopped, settings, events, used, history,
                 marks
  <1>15. CASE Clear
    <2>1. thread' \in Loop \cup Stopped /\ owed' \in {"none", "held", "late"}
      BY <1>15 DEF Clear, TypeOK, Loop, Stopped
    <2>2. wake' \in BOOLEAN
      BY <1>15 DEF Clear
    <2> QED BY <1>15, <2>1, <2>2 DEF Clear, TypeOK, settings, used, marks
  <1>16. CASE UNCHANGED vars
    BY <1>16 DEF TypeOK, vars, settings, events, used, history, marks
  <1> QED BY <1>1, <1>2, <1>3, <1>4, <1>5, <1>6, <1>7, <1>8, <1>9, <1>10, <1>11,
             <1>12, <1>13, <1>14, <1>15, <1>16 DEF Next, ThreadStep

\* Type correctness of the scheduler thread, its settings and its events.
THEOREM TypeCorrect == Spec => []TypeOK
  <1>1. Init => TypeOK
    BY TypeInit
  <1>2. TypeOK /\ [Next]_vars => TypeOK'
    BY TypeNext
  <1> QED BY <1>1, <1>2, PTL DEF Spec

(***************************************************************************)
(* One scheduled run for a date, unless its date was never recorded or the *)
(* timezone was moved west.                                                *)
(*                                                                         *)
(* NoDoubleFire is not inductive.  What makes it so is what the loop knows *)
(* between computing a target and acting on it: no date after the last one *)
(* recorded has a run to its name, but for the one in progress, and a loop *)
(* that read today as already run waits for a tick of tomorrow.  A move    *)
(* west may make all of that wrong, but it also allows every date one more *)
(* run; the loop loses what it knew only by spending that allowance, and   *)
(* not before the pass that notices the move.                              *)
(***************************************************************************)

InPass == thread \in {"wait", "returned", "checked"}

Running(d) ==
    thread \in {"run", "record"} /\ firing.reason = "scheduled" /\ firing.date = d

\* The moves west, without one that the pass in progress has not noticed.
Noticed == IF Offset[zone] < Offset[plan.zone] THEN west - 1 ELSE west

\* The operator has moved west, and since then no date has used up what the
\* moves allow it.
Again ==
    /\ west > 0
    /\ \A d \in Days : ~Running(d) => started[d] <= cut[d] + Noticed

\* No date has used up more.
Counted == \A d \in Days : started[d] <= 1 + cut[d] + Noticed

\* A later date has no run that is neither cut off nor in progress.
LaterDatesFree ==
    \A d \in Days : lastRun < d /\ ~Running(d) => started[d] <= cut[d] + Noticed

\* The recorded date is today or earlier, where the loop takes itself to be ...
RecordedPast == Again \/ lastRun <= Dates(Wall(plan.zone))

\* ... as it was when the loop computed its target ...
PlanSound ==
    InPass => /\ plan.at <= Wall(plan.zone)
              /\ \/ Again
                 \/ /\ lastRun <= Dates(plan.at)
                    /\ lastRun = Dates(plan.at) =>
                          (Dates(plan.at) + 1) * DayLen <= plan.target

\* ... and earlier than the date of a scheduled run in progress.
FiringSound ==
    thread \in {"run", "record"} /\ firing.reason = "scheduled" =>
        /\ firing.date \in Days
        /\ firing.date <= Dates(Wall(plan.zone))
        /\ Again \/ lastRun < firing.date

Inv ==
    /\ TypeOK
    /\ Noticed >= 0
    /\ Counted
    /\ LaterDatesFree
    /\ RecordedPast
    /\ PlanSound
    /\ FiringSound

\* No step turns the wall clock of a zone back.
LEMMA ClockAhead ==
    ASSUME TypeOK, [Next]_vars, NEW z \in Zones
    PROVE  /\ clock + Offset[z] \in Nat /\ clock' + Offset[z] \in Nat
           /\ clock + Offset[z] <= clock' + Offset[z]
           /\ Dates(clock + Offset[z]) <= Dates(clock' + Offset[z])
  <1>1. clock' \in {clock, clock + 1}
    BY DEF Next, ThreadStep, Read, ReadRefused, WaitWoken, WaitTimesOut, Clear,
           Decide, RunEnds, Record, RecordRefused, Trigger, EditSettings, Stop,
           Crash, Restart, Tick, vars
  <1>2. clock \in Nat /\ Offset[z] \in Nat
    BY ClockAssumption, BoundAssumption DEF TypeOK
  <1>3. /\ clock + Offset[z] \in Nat /\ clock' + Offset[z] \in Nat
        /\ clock + Offset[z] <= clock' + Offset[z]
    BY <1>1, <1>2
  <1> QED BY <1>3, DateMonotone

LEMMA NoticedType ==
    ASSUME TypeOK
    PROVE  Noticed \in Int /\ Noticed <= west /\ west \in Nat
  BY BoundAssumption DEF TypeOK, Noticed

\* No step takes back a move west the loop has noticed, and a move it has not
\* noticed is noticed by the next pass.
LEMMA NoticedGrows ==
    ASSUME TypeOK, [Next]_vars
    PROVE  /\ Noticed' \in Int
           /\ Noticed <= Noticed'
           /\ west <= west'
           /\ Read /\ ~Exits => Noticed' = west
  <1>1. /\ zone \in Zones /\ plan.zone \in Zones /\ west \in Nat
        /\ TypeOK' /\ Offset \in [Zones -> Nat]
    BY TypeNext, ClockAssumption, BoundAssumption DEF TypeOK
  <1>2. CASE Read
    <2>1. zone' = zone /\ west' = west
      BY <1>2 DEF Read, settings, used
    <2>2. CASE Exits
      <3>1. plan' = plan
        BY <1>2, <2>2 DEF Read
      <3> QED BY <1>1, <2>1, <2>2, <3>1 DEF Noticed
    <2>3. CASE ~Exits
      <3>1. plan'.zone = zone
        BY <1>2, <2>3 DEF Read
      <3> QED BY <1>1, <2>1, <3>1 DEF Noticed
    <2> QED BY <2>2, <2>3
  <1>3. CASE EditSettings
    <2>1. plan' = plan
      BY <1>3 DEF EditSettings
    <2>2. CASE zone' = zone /\ west' = west
      BY <1>1, <2>1, <2>2, <1>3 DEF Noticed, EditSettings, Read
    <2>3. CASE /\ zone' \in Zones
               /\ west' = IF Offset[zone'] < Offset[zone] THEN west + 1 ELSE west
      <3>1. /\ Offset[zone] \in Nat /\ Offset[zone'] \in Nat
            /\ Offset[plan.zone] \in Nat
        BY <1>1, <2>3
      <3>2. ~Read
        BY <1>3 DEF EditSettings, Read, used
      <3> QED BY <1>1, <2>1, <2>3, <3>1, <3>2 DEF Noticed
    <2> QED BY <1>3, <2>2, <2>3 DEF EditSettings
  <1>4. CASE ~Read /\ ~EditSettings
    <2>1. zone' = zone /\ west' = west /\ plan' = plan
      BY <1>4 DEF Next, ThreadStep, ReadRefused, WaitWoken, WaitTimesOut, Clear,
                  Decide, RunEnds, Record, RecordRefused, Trigger, Stop, Crash,
                  Restart, Tick, vars, settings, used
    <2> QED BY <1>1, <1>4, <2>1 DEF Noticed
  <1> QED BY <1>2, <1>3, <1>4

\* What any step may do to the recorded date.
LEMMA OnlyRecordWrites ==
    ASSUME [Next]_vars
    PROVE  \/ lastRun' = lastRun
           \/ Record /\ firing.reason = "scheduled" /\ lastRun' = firing.date
  BY DEF Next, ThreadStep, Read, ReadRefused, WaitWoken, WaitTimesOut, Clear,
         Decide, RunEnds, Record, RecordRefused, Trigger, EditSettings, Stop, Crash,
         Restart, Tick, vars, settings

\* A pass of the loop begins with Read; nothing recomputes its plan before it
\* ends, and no run of this thread can end meanwhile.
LEMMA PassKept ==
    ASSUME [Next]_vars
    PROVE  /\ (Read /\ ~Exits) \/ plan' = plan
           /\ InPass' => \/ Read /\ ~Exits
                         \/ InPass /\ plan' = plan /\ lastRun' = lastRun
  BY DEF InPass, Next, ThreadStep, Read, ReadRefused, WaitWoken, WaitTimesOut,
         Clear, Decide, RunEnds, Record, RecordRefused, Trigger, EditSettings, Stop,
         Crash, Restart, Tick, vars, settings

\* What Read does when it begins a pass.
LEMMA ReadPlans ==
    ASSUME Read, ~Exits
    PROVE  /\ plan'.zone = zone
           /\ plan'.at = Wall(zone)
           /\ plan'.target = NextRun(Wall(zone), schedule, lastRun)
           /\ clock' = clock /\ lastRun' = lastRun /\ zone' = zone
           /\ started' = started /\ cut' = cut /\ west' = west
           /\ thread = "read" /\ thread' \in {"wait", "returned"}
  BY DEF Read, settings, used

\* A run begins with Decide, and until it ends nothing changes what it is for.
LEMMA FiringKept ==
    ASSUME [Next]_vars, thread' \in {"run", "record"}
    PROVE  \/ Decide /\ thread' = "run"
           \/ /\ thread \in {"run", "record"}
              /\ firing' = firing /\ lastRun' = lastRun /\ plan' = plan
              /\ started' = started /\ cut' = cut
  BY DEF Next, ThreadStep, Read, ReadRefused, WaitWoken, WaitTimesOut, Clear,
         Decide, RunEnds, Record, RecordRefused, Trigger, EditSettings, Stop, Crash,
         Restart, Tick, vars, settings, history

\* What Decide does when it starts a run.
LEMMA DecideStarts ==
    ASSUME TypeOK, Decide, thread' = "run"
    PROVE  /\ firing' = [reason |-> IF woke THEN "manual" ELSE "scheduled",
                         date   |-> Dates(Wall(plan.zone))]
           /\ ~woke => Wall(plan.zone) >= plan.target
           /\ started' = IF woke THEN started
                         ELSE [started EXCEPT ![Dates(Wall(plan.zone))] = @ + 1]
           /\ cut' = cut /\ lastRun' = lastRun /\ clock' = clock /\ zone' = zone
           /\ plan' = plan /\ thread = "checked"
  <1>1. ~(~woke /\ Wall(plan.zone) < plan.target)
    BY DEF Decide
  <1>2. Wall(plan.zone) \in Int /\ plan.target \in Int
    BY WallType DEF TypeOK
  <1> QED BY <1>1, <1>2 DEF Decide, settings

\* A scheduled run that is about to start is for a date not yet recorded.
LEMMA FiringIsNew ==
    ASSUME TypeOK, PlanSound, ~Again,
           thread = "checked", Wall(plan.zone) >= plan.target
    PROVE  lastRun < Dates(Wall(plan.zone))
  <1> DEFINE now == Wall(plan.zone)
  <1>1. now \in Nat /\ plan.at \in Nat /\ plan.target \in Nat
    BY WallType DEF TypeOK
  <1>2. /\ plan.at <= now
        /\ lastRun <= Dates(plan.at)
        /\ lastRun = Dates(plan.at) =>
              (Dates(plan.at) + 1) * DayLen <= plan.target
    BY DEF PlanSound, InPass
  <1>3. lastRun \in Int /\ Dates(plan.at) \in Nat /\ Dates(now) \in Nat
    BY <1>1, DateType, ClockAssumption, BoundAssumption DEF TypeOK, Days, NoDate
  <1>4. Dates(plan.at) <= Dates(now)
    BY <1>1, <1>2, DateMonotone
  <1>5. CASE lastRun = Dates(plan.at)
    <2>1. (Dates(plan.at) + 1) * DayLen <= now
      BY <1>1, <1>2, <1>3, <1>5, ClockAssumption, SMT
    <2>2. Dates(plan.at) + 1 <= Dates(now)
      BY <1>1, <1>3, <2>1, DateReached
    <2> QED BY <1>3, <1>5, <2>2
  <1>6. CASE lastRun # Dates(plan.at)
    BY <1>2, <1>3, <1>4, <1>6
  <1> QED BY <1>5, <1>6

\* How a step may change the counts: a scheduled run starts, one in progress is
\* cut off, or one is recorded.
LEMMA CountsChange ==
    ASSUME [Next]_vars
    PROVE  \/ Decide /\ thread' = "run"
           \/ RecordRefused \/ Crash
           \/ Record
           \/ /\ started' = started /\ cut' = cut /\ lastRun' = lastRun
              /\ \A d \in Days : Running(d) => Running(d)'
  BY DEF Next, ThreadStep, Read, ReadRefused, WaitWoken, WaitTimesOut, Clear,
         Decide, RunEnds, Record, RecordRefused, Trigger, EditSettings, Stop, Crash,
         Restart, Tick, vars, history, settings, Running

\* A run that is cut off is counted as such, and no other.
LEMMA CutsRunning ==
    ASSUME TypeOK, RecordRefused \/ Crash, NEW d \in Days
    PROVE  cut'[d] = IF Running(d) THEN cut[d] + 1 ELSE cut[d]
  <1>1. \/ cut' = [cut EXCEPT ![firing.date] = @ + 1]
             /\ thread \in {"run", "record"} /\ firing.reason = "scheduled"
        \/ cut' = cut
             /\ ~(thread \in {"run", "record"} /\ firing.reason = "scheduled")
    BY DEF RecordRefused, Crash
  <1>2. DOMAIN cut = Days
    BY DEF TypeOK
  <1> QED BY <1>1, <1>2 DEF Running

\* What the moves allow a date is spent by a run of that date alone, and given
\* back if the run is cut off.
LEMMA AllowanceKept ==
    ASSUME TypeOK, Counted, [Next]_vars, NEW d \in Days,
           ~Running(d) => started[d] <= cut[d] + Noticed,
           ~Running(d)'
    PROVE  Record \/ started'[d] <= cut'[d] + Noticed'
  <1>1. /\ started[d] \in Nat /\ cut[d] \in Nat /\ DOMAIN started = Days
        /\ Noticed \in Int /\ Noticed' \in Int /\ Noticed <= Noticed'
        /\ started[d] <= 1 + cut[d] + Noticed
    BY NoticedType, NoticedGrows DEF TypeOK, Counted
  <1>2. CASE Decide /\ thread' = "run"
    <2>1. ~Running(d)
      BY <1>2, DecideStarts DEF Running
    <2>2. started'[d] = started[d] /\ cut' = cut
      <3>1. CASE woke
        BY <1>2, <3>1, DecideStarts
      <3>2. CASE ~woke
        <4>1. /\ firing' = [reason |-> "scheduled",
                            date |-> Dates(Wall(plan.zone))]
              /\ started' = [started EXCEPT ![Dates(Wall(plan.zone))] = @ + 1]
              /\ cut' = cut
          BY <1>2, <3>2, DecideStarts
        <4>2. d # Dates(Wall(plan.zone))
          BY <1>2, <4>1 DEF Running
        <4> QED BY <1>1, <4>1, <4>2
      <3> QED BY <3>1, <3>2
    <2> QED BY <1>1, <2>1, <2>2
  <1>3. CASE RecordRefused \/ Crash
    <2>1. started' = started
      BY <1>3 DEF RecordRefused, Crash
    <2> QED BY <1>1, <1>3, <2>1, CutsRunning
  <1>4. CASE /\ started' = started /\ cut' = cut
             /\ \A e \in Days : Running(e) => Running(e)'
    BY <1>1, <1>4
  <1> QED BY <1>2, <1>3, <1>4, CountsChange

\* Until its run is recorded nothing loses what a move west allowed.
LEMMA AgainKept ==
    ASSUME TypeOK, Counted, Again, [Next]_vars, ~Record
    PROVE  Again'
  <1>1. west' > 0
    BY NoticedGrows, NoticedType, TypeNext, BoundAssumption DEF Again, TypeOK
  <1>2. ASSUME NEW d \in Days, ~Running(d)'
        PROVE  started'[d] <= cut'[d] + Noticed'
    BY <1>2, AllowanceKept DEF Again
  <1> QED BY <1>1, <1>2 DEF Again

LEMMA CountedNext ==
    ASSUME Inv, [Next]_vars
    PROVE  Counted'
  <1> USE DEF Inv
  <1> SUFFICES ASSUME NEW d \in Days
               PROVE  started'[d] <= 1 + cut'[d] + Noticed'
    BY DEF Counted
  <1>1. /\ started[d] \in Nat /\ cut[d] \in Nat /\ DOMAIN started = Days
        /\ Noticed \in Int /\ Noticed' \in Int /\ Noticed <= Noticed'
        /\ started[d] <= 1 + cut[d] + Noticed
    BY NoticedType, NoticedGrows DEF TypeOK, Counted
  <1>2. CASE Decide /\ thread' = "run"
    <2> DEFINE today == Dates(Wall(plan.zone))
    <2>1. ~Running(d) /\ cut' = cut
      BY <1>2, DecideStarts DEF Running
    <2>2. CASE woke
      BY <1>1, <1>2, <2>1, <2>2, DecideStarts
    <2>3. CASE ~woke
      <3>1. started' = [started EXCEPT ![today] = @ + 1]
        BY <1>2, <2>3, DecideStarts
      <3>2. CASE d = today
        <4>1. started'[d] = started[d] + 1
          BY <1>1, <3>1, <3>2
        <4>2. started[d] <= cut[d] + Noticed
          <5>1. CASE Again
            BY <2>1, <5>1 DEF Again
          <5>2. CASE ~Again
            <6>1. lastRun < d
              BY <1>2, <2>3, <3>2, <5>2, DecideStarts, FiringIsNew
            <6> QED BY <2>1, <6>1 DEF LaterDatesFree
          <5> QED BY <5>1, <5>2
        <4> QED BY <1>1, <2>1, <4>1, <4>2
      <3>3. CASE d # today
        <4>1. started'[d] = started[d]
          BY <1>1, <3>1, <3>3
        <4> QED BY <1>1, <2>1, <4>1
      <3> QED BY <3>2, <3>3
    <2> QED BY <2>2, <2>3
  <1>3. CASE RecordRefused \/ Crash
    <2>1. started' = started
      BY <1>3 DEF RecordRefused, Crash
    <2> QED BY <1>1, <1>3, <2>1, CutsRunning
  <1>4. CASE Record
    <2>1. started' = started /\ cut' = cut
      BY <1>4 DEF Record, history
    <2> QED BY <1>1, <2>1
  <1>5. CASE started' = started /\ cut' = cut
    BY <1>1, <1>5
  <1> QED BY <1>2, <1>3, <1>4, <1>5, CountsChange

LEMMA LaterDatesFreeNext ==
    ASSUME Inv, [Next]_vars
    PROVE  LaterDatesFree'
  <1> USE DEF Inv
  <1> SUFFICES ASSUME NEW d \in Days, lastRun' < d, ~Running(d)'
               PROVE  started'[d] <= cut'[d] + Noticed'
    BY DEF LaterDatesFree
  <1>1. /\ d \in Int /\ lastRun \in Int
        /\ started[d] \in Nat /\ cut[d] \in Nat
        /\ Noticed \in Int /\ Noticed' \in Int /\ Noticed <= Noticed'
    BY NoticedType, NoticedGrows DEF TypeOK, Days, NoDate
  <1>2. CASE ~Record
    <2>1. lastRun' = lastRun
      BY <1>2, OnlyRecordWrites
    <2>2. ~Running(d) => started[d] <= cut[d] + Noticed
      BY <2>1 DEF LaterDatesFree
    <2> QED BY <1>2, <2>2, AllowanceKept
  <1>3. CASE Record
    <2>1. started' = started /\ cut' = cut
      BY <1>3 DEF Record, history
    <2>2. started[d] <= cut[d] + Noticed
      <3>1. CASE firing.reason = "scheduled"
        <4>1. /\ lastRun' = firing.date /\ firing.date \in Int
              /\ Again \/ lastRun < firing.date
          BY <1>3, <3>1 DEF Record, FiringSound, Days
        <4>2. ~Running(d)
          BY <1>1, <4>1 DEF Running
        <4>3. CASE Again
          BY <4>2, <4>3 DEF Again
        <4>4. CASE lastRun < firing.date
          <5>1. lastRun < d
            BY <1>1, <4>1, <4>4
          <5> QED BY <4>2, <5>1 DEF LaterDatesFree
        <4> QED BY <4>1, <4>3, <4>4
      <3>2. CASE firing.reason # "scheduled"
        <4>1. lastRun' = lastRun /\ ~Running(d)
          BY <1>3, <3>2 DEF Record, Running
        <4> QED BY <4>1 DEF LaterDatesFree
      <3> QED BY <3>1, <3>2
    <2> QED BY <1>1, <2>1, <2>2
  <1> QED BY <1>2, <1>3

LEMMA RecordedPastNext ==
    ASSUME Inv, [Next]_vars
    PROVE  RecordedPast'
  <1> USE DEF Inv
  <1>1. /\ plan.zone \in Zones /\ zone \in Zones /\ lastRun \in Int
        /\ west \in Nat /\ Noticed \in Int
    BY NoticedType DEF TypeOK, Days, NoDate
  <1>2. /\ Dates(clock + Offset[plan.zone]) <= Dates(clock' + Offset[plan.zone])
        /\ Dates(clock + Offset[plan.zone]) \in Int
        /\ Dates(clock' + Offset[plan.zone]) \in Int
    BY <1>1, ClockAhead, DateType
  <1>3. CASE Record
    <2>1. plan' = plan /\ clock' = clock
      BY <1>3 DEF Record
    <2>2. CASE firing.reason = "scheduled"
      <3>1. lastRun' = firing.date /\ firing.date <= Dates(Wall(plan.zone))
        BY <1>3, <2>2 DEF Record, FiringSound
      <3> QED BY <2>1, <3>1 DEF RecordedPast, Wall, Dates
    <2>3. CASE firing.reason # "scheduled"
      <3>1. /\ lastRun' = lastRun /\ started' = started /\ cut' = cut
            /\ zone' = zone /\ west' = west
            /\ \A d \in Days : ~Running(d)
        BY <1>3, <2>3 DEF Record, history, used, Running
      <3>2. Again => Again'
        BY <2>1, <3>1 DEF Again, Noticed
      <3> QED BY <2>1, <3>1, <3>2 DEF RecordedPast, Wall, Dates
    <2> QED BY <2>2, <2>3
  <1>4. CASE Read /\ ~Exits
    <2>1. CASE Offset[zone] < Offset[plan.zone]
      <3>1. west > 0
        BY <1>1, <2>1 DEF Noticed
      <3>2. Noticed' = Noticed + 1 /\ west' = west
        BY <1>1, <1>4, <2>1, NoticedGrows, ReadPlans DEF Noticed
      <3>3. ASSUME NEW d \in Days
            PROVE  started'[d] <= cut'[d] + Noticed'
        <4>1. started[d] <= 1 + cut[d] + Noticed
          BY DEF Counted
        <4>2. started[d] \in Nat /\ cut[d] \in Nat
          BY DEF TypeOK
        <4> QED BY <1>1, <1>4, <3>2, <4>1, <4>2, ReadPlans
      <3> QED BY <3>1, <3>2, <3>3 DEF RecordedPast, Again
    <2>2. CASE ~(Offset[zone] < Offset[plan.zone])
      <3>1. CASE Again
        <4>1. ~Record
          BY <1>4 DEF Read, Record
        <4> QED BY <3>1, <4>1, AgainKept DEF RecordedPast
      <3>2. CASE lastRun <= Dates(Wall(plan.zone))
        <4>1. /\ Wall(plan.zone) \in Nat /\ Wall(zone) \in Nat
              /\ Wall(plan.zone) <= Wall(zone)
          BY <1>1, <2>2, WallType, ClockAssumption, BoundAssumption
          DEF Wall, TypeOK
        <4>2. /\ Dates(Wall(plan.zone)) <= Dates(Wall(zone))
              /\ Dates(Wall(plan.zone)) \in Int /\ Dates(Wall(zone)) \in Int
          BY <4>1, DateMonotone, DateType
        <4>3. lastRun <= Dates(Wall(zone))
          BY <1>1, <3>2, <4>2
        <4>4. /\ plan'.zone = zone /\ clock' = clock /\ lastRun' = lastRun
          BY <1>4, ReadPlans
        <4> QED BY <4>3, <4>4 DEF RecordedPast, Wall, Dates
      <3> QED BY <3>1, <3>2 DEF RecordedPast
    <2> QED BY <2>1, <2>2
  <1>5. CASE ~Record /\ ~(Read /\ ~Exits)
    <2>1. plan' = plan /\ lastRun' = lastRun
      BY <1>5, PassKept, OnlyRecordWrites
    <2>2. CASE Again
      BY <1>5, <2>2, AgainKept DEF RecordedPast
    <2>3. CASE lastRun <= Dates(Wall(plan.zone))
      BY <1>1, <1>2, <2>1, <2>3 DEF RecordedPast, Wall, Dates
    <2> QED BY <2>2, <2>3 DEF RecordedPast
  <1> QED BY <1>3, <1>4, <1>5

LEMMA PlanSoundNext ==
    ASSUME Inv, [Next]_vars, RecordedPast'
    PROVE  PlanSound'
  <1> SUFFICES ASSUME InPass'
               PROVE  /\ plan'.at <= Wall(plan.zone)'
                      /\ \/ Again'
                         \/ /\ lastRun' <= Dates(plan'.at)
                            /\ lastRun' = Dates(plan'.at) =>
                                  (Dates(plan'.at) + 1) * DayLen <= plan'.target
    BY DEF PlanSound, Dates
  <1>1. CASE Read /\ ~Exits
    <2> DEFINE now == Wall(zone)
    <2>1. now \in Nat /\ lastRun \in Int /\ schedule \in Schedules
      BY WallType DEF Inv, TypeOK, Days, NoDate
    <2>2. /\ plan'.zone = zone
          /\ plan'.at = now
          /\ plan'.target = NextRun(now, schedule, lastRun)
          /\ clock' = clock /\ lastRun' = lastRun
      BY <1>1, ReadPlans
    <2>3. Wall(plan.zone)' = now
      BY <2>2 DEF Wall
    <2>4. Again' \/ lastRun <= Dates(now)
      BY <2>2, <2>3 DEF RecordedPast, Dates
    <2>5. lastRun = Dates(now) => (Dates(now) + 1) * DayLen <= plan'.target
      BY <2>1, <2>2, NextRunIsAhead
    <2> HIDE DEF now
    <2> QED BY <2>1, <2>2, <2>3, <2>4, <2>5
  <1>2. CASE InPass /\ plan' = plan /\ lastRun' = lastRun
    <2>1. /\ plan.at <= Wall(plan.zone)
          /\ \/ Again
             \/ /\ lastRun <= Dates(plan.at)
                /\ lastRun = Dates(plan.at) =>
                      (Dates(plan.at) + 1) * DayLen <= plan.target
      BY <1>2 DEF Inv, PlanSound
    <2>2. /\ plan.at \in Nat
          /\ clock + Offset[plan.zone] \in Nat /\ clock' + Offset[plan.zone] \in Nat
          /\ clock + Offset[plan.zone] <= clock' + Offset[plan.zone]
      BY ClockAhead DEF Inv, TypeOK
    <2>3. plan'.at <= Wall(plan.zone)'
      BY <1>2, <2>1, <2>2 DEF Wall
    <2>4. ~Record
      BY <1>2 DEF InPass, Record
    <2>5. Again => Again'
      BY <2>4, AgainKept DEF Inv
    <2> QED BY <1>2, <2>1, <2>3, <2>5
  <1> QED BY <1>1, <1>2, PassKept

LEMMA FiringSoundNext ==
    ASSUME Inv, [Next]_vars
    PROVE  FiringSound'
  <1> USE DEF Inv
  <1> SUFFICES ASSUME thread' \in {"run", "record"}, firing'.reason = "scheduled"
               PROVE  /\ firing'.date \in Days
                      /\ firing'.date <= Dates(Wall(plan.zone)')
                      /\ Again' \/ lastRun' < firing'.date
    BY DEF FiringSound, Dates
  <1>1. ~Record
    BY DEF Record
  <1>2. Again => Again'
    BY <1>1, AgainKept
  <1>3. CASE Decide /\ thread' = "run"
    <2>1. ~woke /\ firing'.date = Dates(Wall(plan.zone))
      BY <1>3, DecideStarts
    <2>2. Again \/ lastRun < Dates(Wall(plan.zone))
      BY <1>3, <2>1, DecideStarts, FiringIsNew
    <2>3. Dates(Wall(plan.zone)) \in Days
      BY WallType DEF TypeOK
    <2>4. Wall(plan.zone)' = Wall(plan.zone) /\ lastRun' = lastRun
      BY <1>3, DecideStarts DEF Wall
    <2>5. Dates(Wall(plan.zone)) <= Dates(Wall(plan.zone)')
      BY <2>3, <2>4 DEF Days
    <2> QED BY <1>2, <2>1, <2>2, <2>3, <2>4, <2>5
  <1>4. CASE /\ thread \in {"run", "record"} /\ plan' = plan
             /\ firing' = firing /\ lastRun' = lastRun
    <2>1. /\ firing.date \in Days
          /\ firing.date <= Dates(Wall(plan.zone))
          /\ Again \/ lastRun < firing.date
      BY <1>4 DEF FiringSound
    <2>2. /\ Dates(clock + Offset[plan.zone]) <= Dates(clock' + Offset[plan.zone])
          /\ Dates(clock + Offset[plan.zone]) \in Int
          /\ Dates(clock' + Offset[plan.zone]) \in Int
      BY ClockAhead, DateType DEF TypeOK
    <2>3. firing.date <= Dates(Wall(plan.zone)')
      BY <1>4, <2>1, <2>2 DEF Days, Wall
    <2> QED BY <1>2, <1>4, <2>1, <2>3
  <1> QED BY <1>3, <1>4, FiringKept

LEMMA InvInit == Init => Inv
  <1> SUFFICES ASSUME Init
               PROVE  Inv
    OBVIOUS
  <1>1. TypeOK
    BY TypeInit
  <1>2. Dates(Wall(plan.zone)) \in Nat
    BY <1>1, WallType DEF TypeOK, Days
  <1>3. Noticed = 0
    <2>1. Offset[zone] \in Nat /\ plan.zone = zone /\ west = 0
      BY <1>1, ClockAssumption DEF Init, NoPlan, TypeOK
    <2> QED BY <2>1 DEF Noticed
  <1>4. RecordedPast
    BY <1>2 DEF Init, RecordedPast, NoDate
  <1>5. PlanSound /\ FiringSound
    BY DEF Init, PlanSound, FiringSound, InPass
  <1>6. LaterDatesFree /\ Counted
    BY <1>3 DEF Init, LaterDatesFree, Counted
  <1> QED BY <1>1, <1>3, <1>4, <1>5, <1>6 DEF Inv

LEMMA InvNext == Inv /\ [Next]_vars => Inv'
  <1> SUFFICES ASSUME Inv, [Next]_vars
               PROVE  Inv'
    OBVIOUS
  <1>1. TypeOK'
    BY TypeNext DEF Inv
  <1>2. (Noticed >= 0)'
    BY NoticedType, NoticedGrows DEF Inv
  <1>3. Counted' /\ LaterDatesFree' /\ RecordedPast'
    BY CountedNext, LaterDatesFreeNext, RecordedPastNext
  <1>4. PlanSound' /\ FiringSound'
    BY <1>3, PlanSoundNext, FiringSoundNext
  <1> QED BY <1>1, <1>2, <1>3, <1>4 DEF Inv

\* A date gets a second scheduled run only in place of one whose date was never
\* recorded, or once for each time the operator moved the timezone west.
THEOREM NoDoubleFireHolds == Spec => []NoDoubleFire
  <1>1. Init => Inv
    BY InvInit
  <1>2. Inv /\ [Next]_vars => Inv'
    BY InvNext
  <1>3. Inv => NoDoubleFire
    <2> SUFFICES ASSUME Inv, NEW d \in Days
                 PROVE  started[d] <= 1 + cut[d] + west
      BY DEF NoDoubleFire
    <2>1. started[d] <= 1 + cut[d] + Noticed
      BY DEF Inv, Counted
    <2>2. Noticed \in Int /\ Noticed <= west /\ west \in Nat
      BY NoticedType DEF Inv
    <2>3. started[d] \in Nat /\ cut[d] \in Nat
      BY DEF Inv, TypeOK
    <2> QED BY <2>1, <2>2, <2>3
  <1> QED BY <1>1, <1>2, <1>3, PTL DEF Spec

\* Until the timezone is moved west, a scheduled run starts only for a date later
\* than every date already recorded.
THEOREM DatesAdvanceHolds == Spec => DatesAdvance
  <1>1. Init => Inv
    BY InvInit
  <1>2. Inv /\ [Next]_vars => Inv'
    BY InvNext
  <1>3. Inv /\ [Next]_vars
            => [\A d \in Days : started'[d] > started[d] => d > lastRun \/ west > 0]_vars
    <2> SUFFICES ASSUME Inv, [Next]_vars, NEW d \in Days,
                        started'[d] > started[d], ~(west > 0)
                 PROVE  d > lastRun
      OBVIOUS
    <2>1. started[d] \in Nat
      BY DEF Inv, TypeOK
    <2>2. started' # started
      BY <2>1
    <2>3. Decide /\ thread' = "run"
      BY <2>2, CountsChange DEF RecordRefused, Crash, Record, history
    <2>4. ~woke /\ started' = [started EXCEPT ![Dates(Wall(plan.zone))] = @ + 1]
      BY <2>2, <2>3, DecideStarts DEF Inv
    <2>5. d = Dates(Wall(plan.zone))
      BY <2>1, <2>4 DEF Inv, TypeOK
    <2>6. ~Again
      BY DEF Again
    <2>7. lastRun < d
      BY <2>3, <2>4, <2>5, <2>6, DecideStarts, FiringIsNew DEF Inv
    <2> QED BY <2>7
  <1> QED BY <1>1, <1>2, <1>3, PTL DEF Spec, DatesAdvance

\* stop() lands either before a pass looks for it or is marked as having slipped
\* through.
SlipMarked == stop /\ thread = "checked" => slipped

LEMMA SlipMarkedNext ==
    ASSUME SlipMarked, [Next]_vars
    PROVE  SlipMarked'
  <1> SUFFICES ASSUME stop', thread' = "checked"
               PROVE  slipped'
    BY DEF SlipMarked
  <1>1. CASE Stop
    BY <1>1 DEF Stop
  <1>2. CASE Clear
    BY <1>2 DEF Clear, Exits
  <1>3. CASE ~Stop /\ ~Clear
    <2>1. stop' = stop /\ thread = "checked" /\ slipped' = slipped
      BY <1>3 DEF Next, ThreadStep, Read, ReadRefused, WaitWoken, WaitTimesOut, Decide,
                  RunEnds, Record, RecordRefused, Trigger, EditSettings, Crash,
                  Restart, Tick, vars, events, history, marks
    <2> QED BY <2>1 DEF SlipMarked
  <1> QED BY <1>1, <1>2, <1>3

\* Once stop is set no run starts, whichever event returned the wait, but the one
\* of a pass that had already looked.
THEOREM StopStartsNothingHolds == Spec => StopStartsNothing
  <1>1. Init => SlipMarked
    BY DEF Init, SlipMarked
  <1>2. SlipMarked /\ [Next]_vars => SlipMarked'
    BY SlipMarkedNext
  <1>3. SlipMarked /\ [Next]_vars
            => [stop /\ thread' = "run" /\ thread # "run" => slipped]_vars
    <2> SUFFICES ASSUME SlipMarked, [Next]_vars, stop, thread' = "run", thread # "run"
                 PROVE  slipped
      OBVIOUS
    <2>1. thread = "checked"
      BY DEF Next, ThreadStep, Read, ReadRefused, WaitWoken, WaitTimesOut, Clear,
             Decide, RunEnds, Record, RecordRefused, Trigger, EditSettings, Stop,
             Crash, Restart, Tick, vars
    <2> QED BY <2>1 DEF SlipMarked
  <1> QED BY <1>1, <1>2, <1>3, PTL DEF Spec, StopStartsNothing

(***************************************************************************)
(* No slot is slept through.                                               *)
(*                                                                         *)
(* What an idle thread waits for is either the slot the settings now ask   *)
(* for, or the end of a wait that began before the last edit, and that end *)
(* is no further off than the longest wait lasts.                          *)
(***************************************************************************)

\* A recorded date and a date whose run is in progress have a run started.
StartsKnown ==
    /\ lastRun # NoDate => started[lastRun] > 0
    /\ thread \in {"run", "record"} /\ firing.reason = "scheduled" =>
           started[firing.date] > 0

\* The slot a pass that began at wall clock w waits for.
SlotAfter(w) ==
    IF lastRun = Dates(w) THEN Dates(w) * DayLen + schedule + DayLen
    ELSE Dates(w) * DayLen + schedule

\* The wait in progress is for what settings now ask for.
Agreed ==
    /\ plan.zone = zone
    /\ plan.timeout + Offset[zone] <= SlotAfter(plan.at)

WaitSound ==
    thread = "wait" =>
        /\ plan.timeout <= clock + MaxWait
        /\ Agreed \/ plan.timeout + settled <= clock + MaxWait

\* No step takes back a start.
LEMMA StartsKept ==
    ASSUME TypeOK, [Next]_vars, NEW d \in Days
    PROVE  started'[d] >= started[d]
  <1>1. started[d] \in Nat /\ DOMAIN started = Days
    BY DEF TypeOK
  <1>2. CASE Decide /\ thread' = "run"
    <2>1. \/ started' = started
          \/ started' = [started EXCEPT ![Dates(Wall(plan.zone))] = @ + 1]
      BY <1>2, DecideStarts
    <2> QED BY <1>1, <2>1
  <1>3. CASE started' = started
    BY <1>1, <1>3
  <1> QED BY <1>2, <1>3, CountsChange DEF RecordRefused, Crash, Record, history

LEMMA StartsKnownNext ==
    ASSUME Inv, StartsKnown, [Next]_vars
    PROVE  StartsKnown'
  <1> USE DEF Inv
  <1>1. ASSUME NEW d \in Days, started[d] > 0
        PROVE  started'[d] > 0
    <2>1. started[d] \in Nat /\ started'[d] \in Nat
      BY TypeNext DEF TypeOK
    <2> QED BY <1>1, <2>1, StartsKept
  <1>2. ASSUME lastRun' # NoDate
        PROVE  started'[lastRun'] > 0
    <2>1. CASE lastRun' = lastRun
      BY <1>1, <1>2, <2>1 DEF StartsKnown, TypeOK
    <2>2. CASE Record /\ firing.reason = "scheduled" /\ lastRun' = firing.date
      BY <1>1, <2>2 DEF StartsKnown, FiringSound, Record
    <2> QED BY <2>1, <2>2, OnlyRecordWrites
  <1>3. ASSUME thread' \in {"run", "record"}, firing'.reason = "scheduled"
        PROVE  started'[firing'.date] > 0
    <2>1. CASE Decide /\ thread' = "run"
      <3> DEFINE today == Dates(Wall(plan.zone))
      <3>1. ~woke /\ firing'.date = today
        BY <1>3, <2>1, DecideStarts
      <3>2. started' = [started EXCEPT ![today] = @ + 1]
        BY <2>1, <3>1, DecideStarts
      <3>3. today \in Days
        BY WallType DEF TypeOK
      <3> HIDE DEF today
      <3>4. started'[today] = started[today] + 1 /\ started[today] \in Nat
        BY <3>2, <3>3 DEF TypeOK
      <3> QED BY <3>1, <3>4
    <2>2. CASE thread \in {"run", "record"} /\ firing' = firing
      BY <1>1, <1>3, <2>2 DEF StartsKnown, FiringSound
    <2> QED BY <1>3, <2>1, <2>2, FiringKept
  <1> QED BY <1>2, <1>3 DEF StartsKnown

LEMMA WaitSoundNext ==
    ASSUME Inv, WaitSound, [Next]_vars
    PROVE  WaitSound'
  <1> USE DEF Inv
  <1>1. /\ clock \in Nat /\ settled \in 0 .. MaxWait /\ MaxWait \in Nat \ {0}
        /\ zone \in Zones /\ Offset[zone] \in Nat
        /\ plan.timeout \in Nat /\ plan.at \in Nat
    BY ClockAssumption, BoundAssumption DEF TypeOK
  <1> SUFFICES ASSUME thread' = "wait"
               PROVE  /\ plan'.timeout <= clock' + MaxWait
                      /\ Agreed' \/ plan'.timeout + settled' <= clock' + MaxWait
    BY DEF WaitSound
  <1>2. CASE Read
    <2> DEFINE now    == Wall(zone)
               target == NextRun(now, schedule, lastRun)
               wait   == WaitFor(now, target)
    <2>1. ~Exits /\ wait > 0
      BY <1>2 DEF Read
    <2>2. /\ plan'.zone = zone /\ plan'.at = now /\ plan'.timeout = clock + wait
          /\ clock' = clock /\ zone' = zone /\ lastRun' = lastRun
          /\ schedule' = schedule
      BY <1>2, <2>1 DEF Read, settings
    <2>3. now \in Nat /\ now = clock + Offset[zone]
      BY WallType DEF TypeOK, Wall
    <2>4. lastRun \in Int /\ schedule \in Schedules
      BY DEF TypeOK, Days, NoDate
    <2>5. target \in Nat
      BY <2>3, <2>4, NextRunIsAhead
    <2>6. wait \in Int /\ wait <= MaxWait /\ wait <= target - now
      <3> HIDE DEF now, target
      <3> QED BY <1>1, <2>3, <2>5 DEF WaitFor
    <2>7. target = SlotAfter(now)
      <3>1. now < target
        BY <2>1, <2>3, <2>5, <2>6
      <3>2. /\ Dates(now) * DayLen \in Int /\ schedule \in Int /\ DayLen \in Int
        <4>1. Dates(now) \in Nat /\ DayLen \in Nat /\ schedule \in Nat
          BY <2>3, <2>4, DateType, ClockAssumption
        <4> HIDE DEF now
        <4> QED BY <4>1, SMT
      <3> HIDE DEF now
      <3> QED BY <2>3, <3>1, <3>2 DEF NextRun, SlotAfter
    <2>8. SlotAfter(plan.at)' = SlotAfter(now)
      BY <2>2 DEF SlotAfter, Dates
    <2> HIDE DEF now, target, wait
    <2>9. plan'.timeout + Offset[zone] <= SlotAfter(now)
      BY <1>1, <2>2, <2>3, <2>5, <2>6, <2>7
    <2>10. Agreed'
      BY <2>2, <2>8, <2>9 DEF Agreed
    <2> QED BY <1>1, <2>2, <2>6, <2>10
  <1>3. CASE EditSettings
    <2>1. /\ thread = "wait" /\ plan' = plan /\ clock' = clock /\ settled' = 0
      BY <1>3 DEF EditSettings
    <2> QED BY <1>1, <2>1 DEF WaitSound
  <1>4. CASE Tick
    <2>1. /\ thread = "wait" /\ plan' = plan /\ clock' = clock + 1
          /\ zone' = zone /\ schedule' = schedule /\ lastRun' = lastRun
          /\ settled' = IF settled < MaxWait THEN settled + 1 ELSE settled
      BY <1>4 DEF Tick, settings
    <2>2. Agreed => Agreed'
      BY <2>1 DEF Agreed, SlotAfter, Dates
    <2> QED BY <1>1, <2>1, <2>2 DEF WaitSound
  <1>5. CASE ~Read /\ ~EditSettings /\ ~Tick
    <2>1. /\ thread = "wait" /\ plan' = plan /\ clock' = clock
          /\ zone' = zone /\ schedule' = schedule /\ lastRun' = lastRun
          /\ settled' = settled
      BY <1>5 DEF Next, ThreadStep, ReadRefused, WaitWoken, WaitTimesOut, Clear,
                  Decide, RunEnds, Record, RecordRefused, Trigger, Stop, Crash,
                  Restart, vars, settings, history, marks
    <2>2. Agreed => Agreed'
      BY <2>1 DEF Agreed, SlotAfter, Dates
    <2> QED BY <2>1, <2>2 DEF WaitSound
  <1> QED BY <1>2, <1>3, <1>4, <1>5

\* A thread that idles while the slot of the day is due, with no edit left to
\* notice, has started the run of that day.
LEMMA IdleServed ==
    ASSUME Inv, StartsKnown, WaitSound, Idle, settled = MaxWait,
           Wall(zone) >= Dates(Wall(zone)) * DayLen + schedule
    PROVE  started[Dates(Wall(zone))] > 0
  <1> USE DEF Inv
  <1> DEFINE now   == Wall(zone)
             today == Dates(now)
             begun == Dates(plan.at)
  <1>1. /\ now \in Nat /\ now = clock + Offset[zone] /\ today \in Days
        /\ plan.at \in Nat /\ plan.timeout \in Nat
        /\ clock \in Nat /\ Offset[zone] \in Nat /\ MaxWait \in Nat
    BY WallType, ClockAssumption, BoundAssumption DEF TypeOK, Wall
  <1>2. /\ today \in Nat /\ begun \in Nat /\ DayLen \in Nat \ {0} /\ schedule \in Nat
        /\ schedule < DayLen
    BY <1>1, DateType, ClockAssumption DEF TypeOK
  <1>3. Agreed
    BY <1>1 DEF WaitSound, Idle
  <1>4. now < SlotAfter(plan.at)
    <2>1. SlotAfter(plan.at) \in Int
      <3>1. begun * DayLen \in Int
        <4> HIDE DEF begun
        <4> QED BY <1>2, SMT
      <3> QED BY <1>2, <3>1 DEF SlotAfter
    <2>2. plan.timeout + Offset[zone] <= SlotAfter(plan.at)
      BY <1>3 DEF Agreed
    <2>3. clock < plan.timeout
      BY DEF Idle
    <2> QED BY <1>1, <2>1, <2>2, <2>3
  <1>5. begun <= today
    <2>1. plan.at <= now
      BY <1>3 DEF PlanSound, InPass, Idle, Agreed
    <2> QED BY <1>1, <2>1, DateMonotone
  <1>6. today * DayLen + schedule < SlotAfter(plan.at)
    <2>1. today * DayLen + schedule \in Int /\ SlotAfter(plan.at) \in Int
      <3>1. begun * DayLen \in Int /\ today * DayLen \in Int
        <4> HIDE DEF begun, today
        <4> QED BY <1>2, SMT
      <3> QED BY <1>2, <3>1 DEF SlotAfter
    <2> QED BY <1>1, <1>4, <2>1
  <1>7. lastRun = begun /\ today = begun
    <2> HIDE DEF now, today, begun
    <2>1. CASE lastRun = begun
      <3>1. today * DayLen + schedule < begun * DayLen + schedule + DayLen
        BY <1>6, <2>1 DEF SlotAfter, begun
      <3>2. today < begun + 1
        BY <1>2, <3>1, SMT
      <3> QED BY <1>2, <1>5, <2>1, <3>2
    <2>2. CASE lastRun # begun
      <3>1. today * DayLen + schedule < begun * DayLen + schedule
        BY <1>6, <2>2 DEF SlotAfter, begun
      <3>2. today < begun
        BY <1>2, <3>1, SMT
      <3> QED BY <1>2, <1>5, <3>2
    <2> QED BY <2>1, <2>2
  <1>8. lastRun # NoDate
    BY <1>2, <1>7 DEF NoDate
  <1> QED BY <1>7, <1>8 DEF StartsKnown

\* Time never passes an idle thread by while the slot of the date is due and no
\* scheduled run has started for it.
THEOREM SlotServedHolds == Spec => SlotServed
  <1> DEFINE I == Inv /\ StartsKnown /\ WaitSound
  <1>1. Init => I
    BY InvInit DEF Init, StartsKnown, WaitSound
  <1>2. I /\ [Next]_vars => I'
    BY InvNext, StartsKnownNext, WaitSoundNext
  <1>3. I /\ [Next]_vars
            => [LET now == Wall(zone)
                IN  clock' > clock /\ Idle /\ settled = MaxWait
                      /\ now >= Dates(now) * DayLen + schedule
                    => started[Dates(now)] > 0]_vars
    BY IdleServed
  <1> HIDE DEF I
  <1> QED BY <1>1, <1>2, <1>3, PTL DEF Spec, SlotServed

(***************************************************************************)
(* A trigger that is held is not forgotten.                                *)
(***************************************************************************)

\* A pass that did not wait for its target, or waited it out, is not early.
Timely ==
    thread = "returned" /\ ~woke /\ owed = "held" => plan.target <= Wall(plan.zone)

LEMMA TimelyNext ==
    ASSUME TypeOK, HeldIsRemembered, Timely, [Next]_vars
    PROVE  Timely'
  <1> SUFFICES ASSUME thread' = "returned", ~woke', owed' = "held"
               PROVE  plan'.target <= Wall(plan.zone)'
    BY DEF Timely
  <1>1. CASE Read
    <2> DEFINE now    == Wall(zone)
               target == NextRun(now, schedule, lastRun)
    <2>1. ~Exits /\ ~(WaitFor(now, target) > 0)
      BY <1>1 DEF Read
    <2>2. /\ plan'.zone = zone /\ plan'.target = target /\ clock' = clock
      BY <1>1, <2>1, ReadPlans
    <2>3. now \in Nat /\ lastRun \in Int /\ schedule \in Schedules
      BY WallType DEF TypeOK, Days, NoDate
    <2>4. target \in Nat /\ now <= target
      BY <2>3, NextRunIsAhead
    <2>5. target <= now
      <3> HIDE DEF now, target
      <3> QED BY <2>1, <2>3, <2>4, ClockAssumption DEF WaitFor
    <2> QED BY <2>2, <2>5 DEF Wall
  <1>2. CASE WaitTimesOut
    BY <1>2 DEF WaitTimesOut, HeldIsRemembered, Remembered, history
  <1>3. CASE ~Read /\ ~WaitTimesOut
    <2>1. /\ thread = "returned" /\ woke' = woke /\ owed = "held"
          /\ plan' = plan
      BY <1>3 DEF Next, ThreadStep, ReadRefused, WaitWoken, Clear, Decide, RunEnds,
                  Record, RecordRefused, Trigger, EditSettings, Stop, Crash,
                  Restart, Tick, vars, history
    <2>2. plan.target \in Nat /\ plan.target <= clock + Offset[plan.zone]
      BY <2>1 DEF Timely, Wall, TypeOK
    <2>3. /\ clock + Offset[plan.zone] \in Nat /\ clock' + Offset[plan.zone] \in Nat
          /\ clock + Offset[plan.zone] <= clock' + Offset[plan.zone]
      BY ClockAhead DEF TypeOK
    <2> QED BY <2>1, <2>2, <2>3 DEF Wall
  <1> QED BY <1>1, <1>2, <1>3

LEMMA HeldNext ==
    ASSUME TypeOK, HeldIsRemembered, Timely, [Next]_vars
    PROVE  HeldIsRemembered'
  <1> SUFFICES ASSUME owed' = "held"
               PROVE  Remembered'
    BY DEF HeldIsRemembered
  <1> USE DEF Remembered
  <1>1. CASE Trigger
    BY <1>1 DEF Trigger
  <1>2. CASE Clear
    <2>1. /\ owed = "held" /\ thread = "returned" /\ thread' = "checked"
          /\ woke' = woke /\ plan' = plan /\ clock' = clock
      BY <1>2 DEF Clear
    <2>2. Wall(plan.zone)' = Wall(plan.zone)
      BY <2>1 DEF Wall
    <2>3. CASE woke
      BY <2>1, <2>3
    <2>4. CASE ~woke
      <3>1. plan.target <= Wall(plan.zone)
        BY <2>1, <2>4 DEF Timely
      <3>2. Wall(plan.zone) \in Int /\ plan.target \in Int
        BY WallType DEF TypeOK
      <3> QED BY <2>1, <2>2, <3>1, <3>2
    <2> QED BY <2>3, <2>4
  <1>8. CASE Decide
    <2>1. /\ owed = "held" /\ thread = "checked" /\ wake' = wake
          /\ ~woke /\ Wall(plan.zone) < plan.target
      BY <1>8 DEF Decide, events
    <2>2. Wall(plan.zone) \in Int /\ plan.target \in Int
      BY WallType DEF TypeOK
    <2> QED BY <2>1, <2>2 DEF HeldIsRemembered
  <1>3. CASE Read
    <2>1. owed = "held" /\ thread = "read" /\ wake' = wake
      BY <1>3 DEF Read, events
    <2> QED BY <2>1 DEF HeldIsRemembered
  <1>4. CASE WaitTimesOut
    BY <1>4 DEF WaitTimesOut, HeldIsRemembered, history
  <1>5. CASE WaitWoken
    BY <1>5 DEF WaitWoken, events
  <1>6. CASE RunEnds \/ Record \/ RecordRefused \/ Crash \/ Restart \/ ReadRefused
    BY <1>6 DEF RunEnds, Record, RecordRefused, Crash, Restart, ReadRefused, events,
         history, HeldIsRemembered
  <1>7. CASE Stop
    BY <1>7 DEF Stop
  <1>9. CASE EditSettings \/ Tick \/ UNCHANGED vars
    <2>1. /\ owed = "held" /\ wake' = wake /\ woke' = woke /\ thread' = thread
          /\ plan' = plan
      BY <1>9 DEF EditSettings, Tick, vars, events, history
    <2>2. plan.target \in Nat /\ plan.zone \in Zones
      BY DEF TypeOK
    <2>3. /\ clock + Offset[plan.zone] \in Nat /\ clock' + Offset[plan.zone] \in Nat
          /\ clock + Offset[plan.zone] <= clock' + Offset[plan.zone]
      BY <2>2, ClockAhead
    <2> QED BY <2>1, <2>2, <2>3 DEF HeldIsRemembered, Wall
  <1> QED BY <1>1, <1>2, <1>3, <1>4, <1>5, <1>6, <1>7, <1>8, <1>9
            DEF Next, ThreadStep

\* A trigger that arrives anywhere but between the return of a wait and the
\* clearing of the event is remembered until a run has started for it.
THEOREM HeldIsRememberedHolds == Spec => []HeldIsRemembered
  <1> DEFINE I == TypeOK /\ HeldIsRemembered /\ Timely
  <1>1. Init => I
    BY TypeInit DEF Init, HeldIsRemembered, Timely
  <1>2. I /\ [Next]_vars => I'
    BY TypeNext, TimelyNext, HeldNext
  <1>3. I => HeldIsRemembered
    OBVIOUS
  <1> HIDE DEF I
  <1> QED BY <1>1, <1>2, <1>3, PTL DEF Spec
=============================================================================
