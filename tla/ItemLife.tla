------------------------------- MODULE ItemLife -------------------------------
(***************************************************************************)
(* What the pipeline promises about an item, told without runs, windows,    *)
(* clocks or tables: a life that only goes forward.                        *)
(*                                                                         *)
(*    unseen -> waiting -> readable -> judged -> archived                  *)
(*                  \---------\----> over                                  *)
(*                                                                         *)
(* A text is fetched once, for an item still waiting.  An item gets its     *)
(* first verdict while its text is there, may get another until the text    *)
(* is deleted, and none afterwards.  What was not judged in time is over:   *)
(* no later run, however late, fetches or judges it.                       *)
(***************************************************************************)
CONSTANT Items

VARIABLES
    stage,
    passed      \* the items whose standing verdict lets them pass

Stages == {"unseen", "waiting", "readable", "judged", "archived", "over"}

Init ==
    /\ stage = [i \in Items |-> "unseen"]
    /\ passed = {}

Arrive(i) ==
    /\ stage[i] = "unseen"
    /\ stage' = [stage EXCEPT ![i] = "waiting"]
    /\ UNCHANGED passed

Bring(i) ==
    /\ stage[i] = "waiting"
    /\ stage' = [stage EXCEPT ![i] = "readable"]
    /\ UNCHANGED passed

\* A first verdict, or another one on the same text.
Judge(i) ==
    /\ stage[i] \in {"readable", "judged"}
    /\ stage' = [stage EXCEPT ![i] = "judged"]
    /\ passed' \in {passed \cup {i}, passed \ {i}}

\* Time runs out on some items at once, ...
Expire(S) ==
    /\ \A i \in S : stage[i] \in {"waiting", "readable"}
    /\ stage' = [i \in Items |-> IF i \in S THEN "over" ELSE stage[i]]
    /\ UNCHANGED passed

\* ... and retention takes some texts.
Archive(S) ==
    /\ \A i \in S : stage[i] = "judged"
    /\ stage' = [i \in Items |-> IF i \in S THEN "archived" ELSE stage[i]]
    /\ UNCHANGED passed

Next ==
    \/ \E i \in Items : Arrive(i) \/ Bring(i) \/ Judge(i)
    \/ \E S \in SUBSET Items : Expire(S) \/ Archive(S)

Spec == Init /\ [][Next]_<<stage, passed>>
=============================================================================
