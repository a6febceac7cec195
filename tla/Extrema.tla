------------------------------- MODULE Extrema -------------------------------
(***************************************************************************)
(* Least and greatest elements of finite sets of integers: what Min and    *)
(* Max of the community modules return, for the modules that choose rows   *)
(* and row ids with them.                                                  *)
(***************************************************************************)
EXTENDS FiniteSetsExt, FiniteSetTheorems, WellFoundedInduction, TLAPS

NatLess == OpToRel(<, Nat)

LEMMA NatLessIs == NatLess = {p \in Nat \X Nat : p[1] < p[2]}
  BY DEF NatLess, OpToRel

LEMMA NatLessOf ==
    ASSUME NEW x \in Nat, NEW y \in Nat, y < x
    PROVE  <<y, x>> \in NatLess
  BY NatLessIs

\* A non-empty set of naturals has a least element, and Min finds it.
LEMMA MinIsLeast ==
    ASSUME NEW S \in SUBSET Nat, S # {}
    PROVE  Min(S) \in S /\ \A y \in S : Min(S) <= y
  <1>1. IsWellFoundedOn(NatLess, Nat)
    BY NatLessThanWellFounded DEF NatLess
  <1>2. PICK x \in S : \A y \in S : ~(<<y, x>> \in NatLess)
    BY <1>1, WFMin
  <1>3. \A y \in S : x <= y
    <2> SUFFICES ASSUME NEW y \in S, y < x
                 PROVE  FALSE
      OBVIOUS
    <2> QED BY <1>2, NatLessOf
  <1> QED BY <1>3 DEF Min

\* A finite, non-empty set of integers has a greatest element.  One that had
\* none would have a smallest subset without one; taking any element away
\* leaves a set whose greatest element, or the one taken, is its greatest.
LEMMA GreatestExists ==
    ASSUME NEW S \in SUBSET Int, IsFiniteSet(S), S # {}
    PROVE  \E x \in S : \A y \in S : y <= x
  <1> DEFINE Greatest(T) == \E x \in T : \A y \in T : y <= x
             Bad == {T \in FiniteSubsetsOf(S) : T # {} /\ ~Greatest(T)}
  <1> SUFFICES ASSUME ~Greatest(S)
               PROVE  FALSE
    OBVIOUS
  <1>1. S \in Bad
    BY DEF FiniteSubsetsOf
  <1>2. PICK T \in Bad : \A U \in Bad : ~(<<U, T>> \in StrictSubsetOrdering(S))
    <2>1. IsWellFoundedOn(StrictSubsetOrdering(S), FiniteSubsetsOf(S))
      BY FS_StrictSubsetOrderingWellFounded
    <2>2. Bad \subseteq FiniteSubsetsOf(S) /\ Bad # {}
      BY <1>1
    <2> HIDE DEF Bad
    <2> QED BY <2>1, <2>2, WFMin
  <1>3. T \in SUBSET S /\ IsFiniteSet(T) /\ T # {} /\ ~Greatest(T)
    BY <1>2 DEF FiniteSubsetsOf
  <1>4. PICK x \in T : TRUE
    BY <1>3
  <1> DEFINE U == T \ {x}
  <1>5. U \in SUBSET S /\ IsFiniteSet(U)
    BY <1>3, FS_RemoveElement
  <1>6. <<U, T>> \in StrictSubsetOrdering(S)
    BY <1>3, <1>4, <1>5 DEF StrictSubsetOrdering
  <1>7. U \notin Bad
    BY <1>2, <1>6
  <1>8. CASE U = {}
    <2>1. T = {x} /\ x \in Int
      BY <1>3, <1>4, <1>8
    <2> QED BY <1>3, <2>1
  <1>9. CASE U # {}
    <2>1. PICK m \in U : \A y \in U : y <= m
      BY <1>5, <1>7, <1>9 DEF FiniteSubsetsOf
    <2>2. m \in Int /\ x \in Int /\ \A y \in T : y \in Int /\ (y = x \/ y \in U)
      BY <1>3, <1>4
    <2>3. CASE x <= m
      BY <1>3, <2>1, <2>2, <2>3
    <2>4. CASE m < x
      BY <1>3, <1>4, <2>1, <2>2, <2>4
    <2> QED BY <2>2, <2>3, <2>4
  <1> QED BY <1>8, <1>9

\* Max finds it.
LEMMA MaxIsGreatest ==
    ASSUME NEW S \in SUBSET Int, IsFiniteSet(S), S # {}
    PROVE  Max(S) \in S /\ \A y \in S : y <= Max(S)
  <1>1. PICK x \in S : \A y \in S : y <= x
    BY GreatestExists
  <1>2. \A y \in S : x >= y
    BY <1>1
  <1>3. Max(S) \in S /\ \A y \in S : Max(S) >= y
    BY <1>2 DEF Max
  <1> QED BY <1>3
=============================================================================
