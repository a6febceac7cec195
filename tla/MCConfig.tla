------------------------------- MODULE MCConfig -------------------------------
(* Constants for model checking Config. *)
EXTENDS Config, TLC

\* Two files that differ in everything.  The zero is what the export writes of a
\* threshold or cap that an edit has set to 0.
SomeFiles ==
    {[setting |-> [k \in Keys |-> Default], prompt |-> [n \in Prompts |-> "b"],
      row |-> [f \in Exported |-> Zero]],
     [setting |-> [k \in Keys |-> Zero], prompt |-> ("triage" :> "b") @@ ("extract" :> "a"),
      row |-> [f \in Exported |-> Default]]}
=============================================================================
