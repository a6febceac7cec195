----------------------------- MODULE MCScheduler -----------------------------
(* Constants for model checking Scheduler. *)
EXTENDS Scheduler

\* A zone to the east and one to the west of the first: a move to either puts
\* another date on the wall for part of the day.
ThreeZones  == {"home", "east", "west"}
ThreeOffset == [z \in ThreeZones |->
    IF z = "home" THEN 2 ELSE IF z = "east" THEN 4 ELSE 0]
=============================================================================
