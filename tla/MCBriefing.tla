----------------------------- MODULE MCBriefing -----------------------------
(* Constants for model checking Briefing. *)
EXTENDS Briefing

\* Two videos, so that the block met by one ends the fetch of the other.
Both == {1, 2}
=============================================================================
