------------------------------- MODULE MCGate -------------------------------
(* Constants for model checking Gate. *)
EXTENDS Gate, TLC

CONSTANTS a1, a2, s1, s2

OneArticle    == {a1}
TwoArticles   == {a1, a2}
OneSource     == {s1}
TwoSources    == {s1, s2}
SameSourceOf  == [a \in {a1, a2} |-> s1]
LoneSourceOf  == [a \in {a1} |-> s1]
ApartSourceOf == [a \in {a1, a2} |-> IF a = a1 THEN s1 ELSE s2]

\* Two articles of one source differ in nothing.
Alikes == Permutations(TwoArticles)
=============================================================================
