------------------------------ MODULE MCIngest ------------------------------
(* Constants for model checking Ingest. *)
EXTENDS Ingest, TLC

\* One feed, every entry dated, no two at the same instant.
Dated       == {"e0", "e1", "e2"}
DatedFeedOf == [e \in Dated |-> "f1"]
DatedPub    == ("e0" :> 0) @@ ("e1" :> 1) @@ ("e2" :> 2)
OneFeed     == {"f1"}
OneRow      == <<"f1">>

\* A second feed, empty so far, that may be added under the id of the first.
TwoFeeds    == {"f1", "f2"}
=============================================================================
