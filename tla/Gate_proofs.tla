----------------------------- MODULE Gate_proofs -----------------------------
(***************************************************************************)
(* What Gate promises for every set of articles and sources, every mix of  *)
(* runs and every bound.                                                   *)
(***************************************************************************)
EXTENDS Gate, Extrema

(***************************************************************************)
(* Types, by what the variables are about.                                 *)
(***************************************************************************)

TablesOK ==
    /\ enabled \subseteq sources
    /\ sources \subseteq Sources
    /\ items \in [Ids -> Articles \cup {Null}]

\* Rows, and that there are finitely many: a new row's id is one more than the
\* largest in use.
StoreOK ==
    /\ judgments \subseteq JudgmentRow
    /\ IsFiniteSet(judgments)
    /\ extractions \subseteq ExtractionRow
    /\ IsFiniteSet(extractions)
    /\ runs \in [Runs -> RunRow]
    /\ pend \in [Runs -> Pend]
    /\ \A r \in Runs : /\ IsFiniteSet(pend[r].judgments)
                       /\ IsFiniteSet(pend[r].extractions)
    /\ tx \in [Runs -> {"none", "open", "shared", "reserved", "pending"}]

\* Where a run holds an item, it read a real one.
LocalOK ==
    /\ kind \in [Runs -> Kinds \cup {"none"}]
    /\ pc \in [Runs -> Labels]
    /\ todo \in [Runs -> SUBSET Ids]
    /\ cur \in [Runs -> [item : Ids \cup {0}, article : Articles \cup {Null}, prompt : Nat]]
    /\ failed \in [Runs -> BOOLEAN]
    /\ count \in [Runs -> [judged : Nat, passed : Nat]]
    /\ \A r \in Runs : pc[r] \in Holding =>
          cur[r].item \in Ids /\ cur[r].article \in Articles

PageOK ==
    /\ draft \in [Runs -> SUBSET CardShape]
    /\ page \subseteq CardShape
    /\ \A c \in page : ~Unread(c)

BoundsOK ==
    /\ prompt \in Nat
    /\ edits \in 0 .. MaxEdits
    /\ crashes \in 0 .. MaxCrashes
    /\ astray \subseteq Runs \X Ids

Typed == TablesOK /\ StoreOK /\ LocalOK /\ PageOK /\ BoundsOK

LEMMA TypedIsTypeOK == Typed => TypeOK
  BY DEF Typed, TablesOK, StoreOK, LocalOK, PageOK, BoundsOK, TypeOK

LEMMA IdsType == Ids \subseteq Nat \ {0} /\ IsFiniteSet(Ids) /\ 0 \notin Ids
  <1>1. Cardinality(Articles) \in Nat
    BY GateAssumption, FS_CardinalityType
  <1>2. IsFiniteSet(1 .. Cardinality(Articles))
    BY <1>1, FS_Interval
  <1>3. 1 .. Cardinality(Articles) \subseteq Nat \ {0}
    BY <1>1
  <1> QED BY <1>2, <1>3 DEF Ids

\* A row id is a natural number, and greater than every one in use.
LEMMA NewIdIsNew ==
    ASSUME NEW used \in SUBSET Nat, IsFiniteSet(used)
    PROVE  /\ NewId(used) \in Nat \ {0}
           /\ \A i \in used : i < NewId(used)
  <1>1. used \cup {0} \in SUBSET Int /\ used \cup {0} # {}
    OBVIOUS
  <1>2. IsFiniteSet(used \cup {0})
    BY FS_AddElement
  <1>3. /\ Max(used \cup {0}) \in used \cup {0}
        /\ \A i \in used \cup {0} : i <= Max(used \cup {0})
    BY <1>1, <1>2, MaxIsGreatest
  <1> DEFINE m == Max(used \cup {0})
  <1>4. m \in Int /\ 0 <= m /\ \A i \in used : i \in Int /\ i <= m
    BY <1>1, <1>3
  <1>5. NewId(used) = 1 + m
    BY DEF NewId
  <1> HIDE DEF m
  <1> QED BY <1>4, <1>5

\* The ids of finitely many rows are finitely many.
LEMMA FiniteJudgmentIds ==
    ASSUME NEW J \in SUBSET JudgmentRow, IsFiniteSet(J)
    PROVE  {j.id : j \in J} \in SUBSET Nat /\ IsFiniteSet({j.id : j \in J})
  <1> DEFINE f == [j \in J |-> j.id]
             T == {j.id : j \in J}
  <1>1. f \in Surjection(J, T)
    BY DEF Surjection
  <1>2. IsFiniteSet(T)
    <2> HIDE DEF f, T
    <2> QED BY <1>1, FS_Surjection
  <1>3. T \in SUBSET Nat
    BY DEF JudgmentRow
  <1> QED BY <1>2, <1>3

LEMMA FiniteExtractionIds ==
    ASSUME NEW X \in SUBSET ExtractionRow, IsFiniteSet(X)
    PROVE  {x.id : x \in X} \in SUBSET Nat /\ IsFiniteSet({x.id : x \in X})
  <1> DEFINE f == [x \in X |-> x.id]
             T == {x.id : x \in X}
  <1>1. f \in Surjection(X, T)
    BY DEF Surjection
  <1>2. IsFiniteSet(T)
    <2> HIDE DEF f, T
    <2> QED BY <1>1, FS_Surjection
  <1>3. T \in SUBSET Nat
    BY DEF ExtractionRow
  <1> QED BY <1>2, <1>3

\* What a run reads of the verdicts.
LEMMA SeenType ==
    ASSUME StoreOK, NEW r \in Runs
    PROVE  /\ SeenJudgments(r) \in SUBSET JudgmentRow
           /\ IsFiniteSet(SeenJudgments(r))
           /\ SeenExtractions(r) \in SUBSET ExtractionRow
           /\ IsFiniteSet(SeenExtractions(r))
  <1>1. pend[r] \in Pend
    BY DEF StoreOK
  <1>2. IsFiniteSet(judgments \cup pend[r].judgments)
    BY FS_Union DEF StoreOK
  <1>3. IsFiniteSet(extractions \cup pend[r].extractions)
    BY FS_Union DEF StoreOK
  <1> QED BY <1>1, <1>2, <1>3 DEF StoreOK, Pend, SeenJudgments, SeenExtractions

LEMMA JudgmentType ==
    ASSUME Typed, NEW r \in Runs, pc[r] = "verdict", NEW ok \in BOOLEAN
    PROVE  Judgment(r, ok) \in JudgmentRow
  <1>1. NewId({j.id : j \in SeenJudgments(r)}) \in Nat
    BY SeenType, FiniteJudgmentIds, NewIdIsNew DEF Typed
  <1>2. cur[r].item \in Ids /\ cur[r].article \in Articles /\ cur[r].prompt \in Nat
    BY DEF Typed, LocalOK, Holding
  <1> QED BY <1>1, <1>2 DEF Judgment, JudgmentRow

LEMMA ExtractionType ==
    ASSUME Typed, NEW r \in Runs, pc[r] = "store", NEW body \in {"full", "hole"},
           NEW raised \in BOOLEAN
    PROVE  Extraction(r, body, raised) \in ExtractionRow
  <1>1. NewId({x.id : x \in SeenExtractions(r)}) \in Nat
    BY SeenType, FiniteExtractionIds, NewIdIsNew DEF Typed
  <1>2. cur[r].item \in Ids /\ cur[r].article \in Articles
    BY DEF Typed, LocalOK, Holding
  <1> QED BY <1>1, <1>2 DEF Extraction, ExtractionRow

(***************************************************************************)
(* What the three outcomes of a write leave behind.                        *)
(***************************************************************************)

LEMMA PendType ==
    ASSUME StoreOK, NEW r \in Runs
    PROVE  /\ pend[r].judgments \in SUBSET JudgmentRow
           /\ pend[r].extractions \in SUBSET ExtractionRow
           /\ pend[r].calls \in Nat
           /\ pend[r].landed \in Articles \cup {Null}
           /\ IsFiniteSet(pend[r].judgments)
           /\ IsFiniteSet(pend[r].extractions)
  <1>1. pend[r] \in Pend
    BY DEF StoreOK
  <1> QED BY <1>1 DEF StoreOK, Pend

LEMMA NoPendType ==
    /\ NoPend \in Pend
    /\ NoPend.judgments = {} /\ NoPend.extractions = {}
    /\ IsFiniteSet(NoPend.judgments) /\ IsFiniteSet(NoPend.extractions)
  BY FS_EmptySet DEF NoPend, Pend

\* A table of finite batches stays one when a run's batch is replaced by one.
LEMMA PendReplaced ==
    ASSUME StoreOK, NEW r \in Runs, NEW p \in Pend,
           IsFiniteSet(p.judgments), IsFiniteSet(p.extractions),
           pend' = [pend EXCEPT ![r] = p]
    PROVE  /\ pend' \in [Runs -> Pend]
           /\ \A q \in Runs : /\ IsFiniteSet(pend'[q].judgments)
                              /\ IsFiniteSet(pend'[q].extractions)
  <1>1. pend \in [Runs -> Pend]
    BY DEF StoreOK
  <1>2. pend' \in [Runs -> Pend]
    BY <1>1
  <1>3. ASSUME NEW q \in Runs
        PROVE  IsFiniteSet(pend'[q].judgments) /\ IsFiniteSet(pend'[q].extractions)
    <2>1. CASE q = r
      BY <1>1, <2>1
    <2>2. CASE q # r
      BY <1>1, <2>2 DEF StoreOK
    <2> QED BY <2>1, <2>2
  <1> QED BY <1>2, <1>3

LEMMA StoredKeeps ==
    ASSUME StoreOK, NEW r \in Runs,
           NEW js \in SUBSET JudgmentRow, IsFiniteSet(js),
           NEW xs \in SUBSET ExtractionRow, IsFiniteSet(xs),
           NEW n \in Nat, Stored(r, js, xs, n)
    PROVE  StoreOK'
  <1>1. judgments' \subseteq JudgmentRow /\ IsFiniteSet(judgments')
    <2>1. judgments' = (judgments \cup pend[r].judgments) \cup js
      BY DEF Stored
    <2>2. IsFiniteSet(judgments \cup pend[r].judgments)
      BY PendType, FS_Union DEF StoreOK
    <2>3. IsFiniteSet(judgments')
      BY <2>1, <2>2, FS_Union
    <2> QED BY <2>1, <2>3, PendType DEF StoreOK
  <1>2. extractions' \subseteq ExtractionRow /\ IsFiniteSet(extractions')
    <2>1. extractions' = (extractions \cup pend[r].extractions) \cup xs
      BY DEF Stored
    <2>2. IsFiniteSet(extractions \cup pend[r].extractions)
      BY PendType, FS_Union DEF StoreOK
    <2>3. IsFiniteSet(extractions')
      BY <2>1, <2>2, FS_Union
    <2> QED BY <2>1, <2>3, PendType DEF StoreOK
  <1>3. runs' \in [Runs -> RunRow]
    <2>1. runs \in [Runs -> RunRow] /\ pend[r].calls \in Nat
      BY PendType DEF StoreOK
    <2>2. runs' = [runs EXCEPT ![r].calls = @ + pend[r].calls + n]
      BY DEF Stored
    <2> QED BY <2>1, <2>2 DEF RunRow
  <1>4. /\ pend' \in [Runs -> Pend]
        /\ \A q \in Runs : /\ IsFiniteSet(pend'[q].judgments)
                           /\ IsFiniteSet(pend'[q].extractions)
    BY NoPendType, PendReplaced DEF Stored
  <1>5. tx' \in [Runs -> {"none", "open", "shared", "reserved", "pending"}]
    BY DEF Stored, StoreOK
  <1> QED BY <1>1, <1>2, <1>3, <1>4, <1>5 DEF StoreOK

\* A batch with the rows and calls of one more write.
With(p, js, xs, n) == [judgments   |-> p.judgments \cup js,
                       extractions |-> p.extractions \cup xs,
                       calls       |-> p.calls + n,
                       landed      |-> p.landed]

LEMMA WithIs ==
    ASSUME NEW p \in Pend, NEW js \in SUBSET JudgmentRow,
           NEW xs \in SUBSET ExtractionRow, NEW n \in Nat
    PROVE  /\ With(p, js, xs, n) \in Pend
           /\ With(p, js, xs, n).judgments = p.judgments \cup js
           /\ With(p, js, xs, n).extractions = p.extractions \cup xs
           /\ With(p, js, xs, n).calls = p.calls + n
           /\ With(p, js, xs, n).landed = p.landed
  BY DEF With, Pend

LEMMA RefusedKeeps ==
    ASSUME StoreOK, NEW r \in Runs,
           NEW js \in SUBSET JudgmentRow, IsFiniteSet(js),
           NEW xs \in SUBSET ExtractionRow, IsFiniteSet(xs),
           NEW n \in Nat, Refused(r, js, xs, n)
    PROVE  StoreOK'
  <1>1. UNCHANGED <<judgments, extractions, runs>>
    BY DEF Refused, verdicts
  <1>2. tx' \in [Runs -> {"none", "open", "shared", "reserved", "pending"}]
    BY DEF Refused, AfterRefusedWrite, StoreOK
  <1>3. /\ pend' \in [Runs -> Pend]
        /\ \A q \in Runs : /\ IsFiniteSet(pend'[q].judgments)
                           /\ IsFiniteSet(pend'[q].extractions)
    <2>1. CASE pend' = pend
      BY <2>1 DEF StoreOK
    <2>2. CASE pend' = [pend EXCEPT ![r] = With(@, js, xs, n)]
      <3> DEFINE p == With(pend[r], js, xs, n)
      <3>0. pend[r] \in Pend
        BY DEF StoreOK
      <3>1. p \in Pend
        BY <3>0, WithIs
      <3>2. IsFiniteSet(pend[r].judgments \cup js)
        BY PendType, FS_Union
      <3>3. IsFiniteSet(pend[r].extractions \cup xs)
        BY PendType, FS_Union
      <3>4. pend' = [pend EXCEPT ![r] = p]
        BY <2>2 DEF StoreOK
      <3>5. IsFiniteSet(p.judgments) /\ IsFiniteSet(p.extractions)
        BY <3>2, <3>3 DEF With
      <3> HIDE DEF p
      <3> QED BY <3>1, <3>4, <3>5, PendReplaced
    <2> QED BY <2>1, <2>2 DEF Refused, With
  <1> QED BY <1>1, <1>2, <1>3 DEF StoreOK

LEMMA BrokenKeeps ==
    ASSUME StoreOK, NEW r \in Runs,
           NEW xs \in SUBSET ExtractionRow, IsFiniteSet(xs), Broken(r, xs)
    PROVE  StoreOK'
  <1>1. UNCHANGED <<judgments, extractions, runs>>
    BY DEF Broken, verdicts
  <1>2. tx' \in [Runs -> {"none", "open", "shared", "reserved", "pending"}]
    BY DEF Broken, StoreOK
  <1>3. /\ pend' \in [Runs -> Pend]
        /\ \A q \in Runs : /\ IsFiniteSet(pend'[q].judgments)
                           /\ IsFiniteSet(pend'[q].extractions)
    <2> DEFINE p == [pend[r] EXCEPT !.extractions = @ \cup xs]
    <2>0. pend[r] \in Pend
      BY DEF StoreOK
    <2>1. /\ p.judgments = pend[r].judgments
          /\ p.extractions = pend[r].extractions \cup xs
      BY <2>0 DEF Pend
    <2>2. p \in Pend
      BY <2>0 DEF Pend
    <2>3. IsFiniteSet(pend[r].judgments) /\ IsFiniteSet(pend[r].extractions \cup xs)
      BY PendType, FS_Union
    <2>4. pend' = [pend EXCEPT ![r] = p]
      BY DEF Broken, StoreOK
    <2> HIDE DEF p
    <2>5. IsFiniteSet(p.judgments) /\ IsFiniteSet(p.extractions)
      BY <2>1, <2>3
    <2> QED BY <2>2, <2>4, <2>5, PendReplaced
  <1> QED BY <1>1, <1>2, <1>3 DEF StoreOK

\* A read changes only what the connection holds.
LEMMA ReadKeeps ==
    ASSUME StoreOK, NEW r \in Runs, tx' = [tx EXCEPT ![r] = AfterRead(r)],
           UNCHANGED <<verdicts, runs, pend>>
    PROVE  StoreOK'
  BY DEF StoreOK, AfterRead, verdicts

\* A run that ends leaves an empty batch and no lock.
LEMMA EndKeeps ==
    ASSUME StoreOK, NEW r \in Runs,
           pend' = [pend EXCEPT ![r] = NoPend], tx' = [tx EXCEPT ![r] = "none"],
           UNCHANGED <<verdicts, runs>>
    PROVE  StoreOK'
  <1>1. /\ pend' \in [Runs -> Pend]
        /\ \A q \in Runs : /\ IsFiniteSet(pend'[q].judgments)
                           /\ IsFiniteSet(pend'[q].extractions)
    BY NoPendType, PendReplaced
  <1> QED BY <1>1 DEF StoreOK, verdicts

LEMMA OneRowIsFinite ==
    ASSUME NEW S, NEW x \in S
    PROVE  {x} \in SUBSET S /\ IsFiniteSet({x})
  BY FS_Singleton

LEMMA NoRowIsFinite ==
    ASSUME NEW S
    PROVE  {} \in SUBSET S /\ IsFiniteSet({})
  BY FS_EmptySet

\* A refused commit of an article's rows.
LEMMA LandRefusedKeeps ==
    ASSUME StoreOK, NEW r \in Runs, NEW a \in Articles, LandRefused(r, a)
    PROVE  StoreOK'
  <1> DEFINE p == [pend[r] EXCEPT !.landed = a]
  <1>1. /\ pend[r] \in Pend
        /\ p.judgments = pend[r].judgments /\ p.extractions = pend[r].extractions
    BY DEF StoreOK, Pend
  <1>2. p \in Pend
    BY <1>1 DEF Pend
  <1>3. IsFiniteSet(p.judgments) /\ IsFiniteSet(p.extractions)
    BY <1>1, PendType
  <1>4. pend' = [pend EXCEPT ![r] = p]
    BY DEF LandRefused, StoreOK
  <1>5. /\ pend' \in [Runs -> Pend]
        /\ \A q \in Runs : /\ IsFiniteSet(pend'[q].judgments)
                           /\ IsFiniteSet(pend'[q].extractions)
    <2> HIDE DEF p
    <2> QED BY <1>2, <1>3, <1>4, PendReplaced
  <1>6. /\ UNCHANGED <<judgments, extractions, runs>>
        /\ tx' = [tx EXCEPT ![r] = "pending"]
    BY DEF LandRefused, verdicts
  <1> QED BY <1>5, <1>6 DEF StoreOK

LEMMA CloseKeeps ==
    ASSUME StoreOK, LocalOK, NEW r \in Runs, Close(r)
    PROVE  StoreOK'
  <1>1. /\ judgments' = judgments \cup pend[r].judgments
        /\ extractions' = extractions \cup pend[r].extractions
        /\ pend' = [pend EXCEPT ![r] = NoPend]
        /\ tx' = [tx EXCEPT ![r] = "none"]
    BY DEF Close
  <1>2. IsFiniteSet(judgments') /\ IsFiniteSet(extractions')
    BY <1>1, PendType, FS_Union DEF StoreOK
  <1>3. runs' \in [Runs -> RunRow]
    <2>1. runs[r].calls \in Nat /\ pend[r].calls \in Nat
      BY PendType DEF StoreOK, RunRow
    <2>2. count[r].judged \in Nat /\ count[r].passed \in Nat
      BY DEF LocalOK
    <2>3. [status |-> IF failed[r] THEN "failed" ELSE "ok",
           judged |-> count[r].judged, passed |-> count[r].passed,
           calls  |-> runs[r].calls + pend[r].calls] \in RunRow
      BY <2>1, <2>2 DEF RunRow
    <2> QED BY <2>3 DEF Close, StoreOK
  <1>4. /\ pend' \in [Runs -> Pend]
        /\ \A q \in Runs : /\ IsFiniteSet(pend'[q].judgments)
                           /\ IsFiniteSet(pend'[q].extractions)
    BY <1>1, NoPendType, PendReplaced
  <1> QED BY <1>1, <1>2, <1>3, <1>4, PendType DEF StoreOK

LEMMA PurgeKeeps ==
    ASSUME StoreOK, NEW s \in Sources, Purge(s)
    PROVE  StoreOK'
  <1>1. judgments' \subseteq judgments /\ extractions' \subseteq extractions
    BY DEF Purge
  <1>2. IsFiniteSet(judgments') /\ IsFiniteSet(extractions')
    BY <1>1, FS_Subset DEF StoreOK
  <1> QED BY <1>1, <1>2 DEF Purge, StoreOK

LEMMA CrashKeeps == StoreOK /\ Crash => StoreOK'
  BY NoPendType DEF Crash, StoreOK, verdicts

LEMMA StoreStep ==
    ASSUME Typed, NEW r \in Runs, Step(r)
    PROVE  StoreOK'
  <1> USE DEF Typed
  <1>1. CASE \/ \E a \in Articles : Land(r, a)
             \/ ReadRefused(r) \/ Skip(r) \/ Write(r) \/ WriteFails(r)
    BY <1>1 DEF Land, ReadRefused, Skip, Write, WriteFails, StoreOK, verdicts
  <1>2. CASE \/ Zone(r) \/ Select(r) \/ Take(r) \/ TakePurged(r) \/ List(r)
             \/ \E c \in draft[r] : ReadVerdict(r, c) \/ ReadBody(r, c)
    BY <1>2, ReadKeeps DEF Zone, Select, Take, TakePurged, List, ReadVerdict, ReadBody
  <1>3. CASE PollRefused(r)
    BY <1>3, NoRowIsFinite, RefusedKeeps DEF PollRefused
  <1>4. CASE Pay(r)
    BY <1>4, NoRowIsFinite, StoredKeeps DEF Pay
  <1>5. CASE PayRefused(r)
    <2>1. CASE MayRead(r)
      BY <1>5, <2>1, NoRowIsFinite, RefusedKeeps DEF PayRefused
    <2>2. CASE ~MayRead(r)
      BY <1>5, <2>2 DEF PayRefused, StoreOK, verdicts
    <2> QED BY <2>1, <2>2
  <1>6. ASSUME NEW ok \in BOOLEAN, Judge(r, ok) \/ JudgeRefused(r, ok)
        PROVE  StoreOK'
    <2>1. pc[r] = "verdict"
      BY <1>6 DEF Judge, JudgeRefused
    <2>2. {Judgment(r, ok)} \in SUBSET JudgmentRow /\ IsFiniteSet({Judgment(r, ok)})
      BY <2>1, JudgmentType, OneRowIsFinite
    <2>3. CASE Judge(r, ok)
      BY <2>2, <2>3, NoRowIsFinite, StoredKeeps DEF Judge
    <2>4. CASE JudgeRefused(r, ok)
      BY <2>2, <2>4, NoRowIsFinite, RefusedKeeps DEF JudgeRefused
    <2> QED BY <1>6, <2>3, <2>4
  <1>7. ASSUME NEW body \in Bodies,
               Extract(r, body) \/ ExtractRefused(r, body) \/ ExtractBreaks(r, body)
        PROVE  StoreOK'
    <2>0. body \in {"full", "hole"}
      BY GateAssumption
    <2>1. pc[r] = "store"
      BY <1>7 DEF Extract, ExtractRefused, ExtractBreaks
    <2>2. ASSUME NEW raised \in BOOLEAN
          PROVE  /\ {Extraction(r, body, raised)} \in SUBSET ExtractionRow
                 /\ IsFiniteSet({Extraction(r, body, raised)})
      BY <2>0, <2>1, ExtractionType, OneRowIsFinite
    <2>3. CASE Extract(r, body)
      BY <2>2, <2>3, NoRowIsFinite, StoredKeeps DEF Extract
    <2>4. CASE ExtractRefused(r, body)
      BY <2>2, <2>4, NoRowIsFinite, RefusedKeeps DEF ExtractRefused
    <2>5. CASE ExtractBreaks(r, body)
      BY <2>2, <2>5, BrokenKeeps DEF ExtractBreaks
    <2> QED BY <1>7, <2>3, <2>4, <2>5
  <1>8. CASE InsertOrphan(r)
    BY <1>8, NoRowIsFinite, BrokenKeeps DEF InsertOrphan
  <1>9. CASE Prune(r)
    BY <1>9, NoRowIsFinite, StoredKeeps, RefusedKeeps DEF Prune
  <1>10. CASE Close(r)
    BY <1>10, CloseKeeps
  <1>11. CASE CloseRefused(r) \/ ZoneRefused(r)
    BY <1>11, EndKeeps DEF CloseRefused, ZoneRefused, Dropped
  <1>12. ASSUME NEW a \in Articles, LandRefused(r, a)
         PROVE  StoreOK'
    BY <1>12, LandRefusedKeeps
  <1> QED BY <1>1, <1>2, <1>3, <1>4, <1>5, <1>6, <1>7, <1>8, <1>9, <1>10, <1>11, <1>12
          DEF Step

LEMMA StoreNext ==
    ASSUME Typed, [Next]_vars
    PROVE  StoreOK'
  <1> USE DEF Typed
  <1>1. ASSUME NEW r \in Runs, Step(r)
        PROVE  StoreOK'
    BY <1>1, StoreStep
  <1>2. ASSUME NEW r \in Runs, NEW k \in Kinds, Start(r, k)
        PROVE  StoreOK'
    <2>1. runs' \in [Runs -> RunRow]
      BY <1>2 DEF Start, StoreOK, RunRow
    <2> QED BY <1>2, <2>1 DEF Start, StoreOK, verdicts
  <1>3. CASE SavePrompt
    BY <1>3 DEF SavePrompt, StoreOK, verdicts
  <1>4. ASSUME NEW s \in Sources, SetEnabled(s)
        PROVE  StoreOK'
    BY <1>4 DEF SetEnabled, StoreOK, verdicts
  <1>5. ASSUME NEW s \in Sources, Purge(s)
        PROVE  StoreOK'
    BY <1>5, PurgeKeeps
  <1>6. CASE Crash
    BY <1>6, CrashKeeps
  <1>7. CASE UNCHANGED vars
    BY <1>7 DEF StoreOK, vars, verdicts
  <1> QED BY <1>1, <1>2, <1>3, <1>4, <1>5, <1>6, <1>7 DEF Next

(***************************************************************************)
(* What a run keeps to itself.                                             *)
(***************************************************************************)

\* A step that only moves on, and takes up no item it has not got.
LEMMA GotoKeeps ==
    ASSUME LocalOK, NEW r \in Runs, NEW label \in Labels, Goto(r, label),
           label \in Holding => pc[r] \in Holding,
           UNCHANGED <<kind, todo, cur, failed, count>>
    PROVE  LocalOK'
  BY DEF LocalOK, Goto

LEMMA FailKeeps ==
    ASSUME LocalOK, NEW r \in Runs, Fail(r), UNCHANGED <<kind, count>>
    PROVE  LocalOK'
  <1>1. "close" \in Labels /\ "close" \notin Holding
    BY DEF Labels, Holding
  <1>2. /\ pc' = [pc EXCEPT ![r] = "close"] /\ failed' = [failed EXCEPT ![r] = TRUE]
        /\ todo' = [todo EXCEPT ![r] = {}] /\ cur' = [cur EXCEPT ![r] = NoCur]
    BY DEF Fail, Goto
  <1>3. failed' \in [Runs -> BOOLEAN]
    BY <1>2, Zenon DEF LocalOK
  <1>4. NoCur \in [item : Ids \cup {0}, article : Articles \cup {Null}, prompt : Nat]
    BY DEF NoCur
  <1>5. /\ todo' \in [Runs -> SUBSET Ids]
        /\ cur' \in [Runs -> [item : Ids \cup {0}, article : Articles \cup {Null},
                              prompt : Nat]]
    BY <1>2, <1>4 DEF LocalOK
  <1>6. ASSUME NEW q \in Runs, pc'[q] \in Holding
        PROVE  cur'[q].item \in Ids /\ cur'[q].article \in Articles
    <2>1. q # r /\ cur'[q] = cur[q] /\ pc'[q] = pc[q]
      BY <1>1, <1>2, <1>6 DEF LocalOK
    <2> QED BY <1>6, <2>1 DEF LocalOK
  <1> QED BY <1>1, <1>2, <1>3, <1>5, <1>6 DEF LocalOK

\* The item taken is the least selected, and it is there.
LEMMA TakeKeeps ==
    ASSUME LocalOK, TablesOK, BoundsOK, NEW r \in Runs, Take(r)
    PROVE  LocalOK'
  <1> DEFINE i == Min(todo[r])
             c == [item |-> i, article |-> items[i], prompt |-> prompt]
  <1>1. todo[r] \in SUBSET Ids /\ todo[r] # {} /\ items[i] # Null
    BY DEF Take, LocalOK
  <1>2. i \in Ids
    BY <1>1, IdsType, MinIsLeast
  <1>3. items[i] \in Articles
    BY <1>1, <1>2 DEF TablesOK
  <1>4. c \in [item : Ids \cup {0}, article : Articles \cup {Null}, prompt : Nat]
    BY <1>2, <1>3 DEF BoundsOK
  <1>5. /\ todo' = [todo EXCEPT ![r] = @ \ {i}]
        /\ cur' = [cur EXCEPT ![r] = c]
        /\ pc' = [pc EXCEPT ![r] = "triage"]
        /\ UNCHANGED <<kind, failed, count>>
    BY DEF Take, Goto
  <1>6. c.item \in Ids /\ c.article \in Articles /\ "triage" \in Labels
    BY <1>2, <1>3 DEF Labels
  <1> HIDE DEF i, c
  <1> QED BY <1>4, <1>5, <1>6 DEF LocalOK

LEMMA JudgeKeeps ==
    ASSUME LocalOK, NEW r \in Runs, NEW ok \in BOOLEAN, Judge(r, ok)
    PROVE  LocalOK'
  <1>1. Tally(count[r], ok) \in [judged : Nat, passed : Nat]
    BY DEF Tally, LocalOK
  <1>2. AfterVerdict(ok) \in Labels /\ pc[r] \in Holding
    BY DEF AfterVerdict, Labels, Holding, Judge
  <1>3. /\ count' = [count EXCEPT ![r] = Tally(count[r], ok)]
        /\ pc' = [pc EXCEPT ![r] = AfterVerdict(ok)]
        /\ UNCHANGED <<kind, todo, cur, failed>>
    BY DEF Judge, Goto, LocalOK
  <1>4. count' \in [Runs -> [judged : Nat, passed : Nat]]
    BY <1>1, <1>3 DEF LocalOK
  <1>5. pc' \in [Runs -> Labels]
    BY <1>2, <1>3 DEF LocalOK
  <1>6. \A q \in Runs : pc'[q] \in Holding =>
           cur'[q].item \in Ids /\ cur'[q].article \in Articles
    BY <1>2, <1>3 DEF LocalOK
  <1> QED BY <1>3, <1>4, <1>5, <1>6 DEF LocalOK

LEMMA LocalStep ==
    ASSUME Typed, NEW r \in Runs, Step(r)
    PROVE  LocalOK'
  <1> USE DEF Typed
  <1>1. CASE \E a \in Articles : Land(r, a)
    BY <1>1 DEF Land, local, LocalOK
  <1>2. CASE Zone(r)
    BY <1>2, GotoKeeps DEF Zone, local, Labels, Holding
  <1>3. CASE Skip(r)
    BY <1>3, GotoKeeps DEF Skip, local, Labels, Holding
  <1>4. CASE \/ PollRefused(r) \/ ReadRefused(r) \/ TakePurged(r) \/ WriteFails(r)
             \/ \E a \in Articles : LandRefused(r, a)
    BY <1>4, FailKeeps DEF PollRefused, ReadRefused, TakePurged, WriteFails, LandRefused
  <1>5. CASE Select(r)
    <2>1. todo' \in [Runs -> SUBSET Ids]
      <3> DEFINE T == {i \in Wanted(r) : items[i] # Null /\ SourceOf[items[i]] \in enabled}
      <3>1. Wanted(r) \in SUBSET Ids
        <4>1. {j.item : j \in SeenJudgments(r)} \in SUBSET Ids
          BY SeenType DEF JudgmentRow
        <4> QED BY <4>1 DEF Wanted
      <3>2. T \in SUBSET Ids
        BY <3>1
      <3>3. todo' = [todo EXCEPT ![r] = T]
        BY <1>5 DEF Select
      <3> HIDE DEF T
      <3> QED BY <3>2, <3>3 DEF LocalOK
    <2> QED BY <1>5, <2>1 DEF Select, Goto, LocalOK, Labels, Holding
  <1>6. CASE Take(r)
    BY <1>6, TakeKeeps
  <1>7. CASE Pay(r)
    BY <1>7, GotoKeeps DEF Pay, local, Labels, Holding
  <1>8. CASE PayRefused(r)
    BY <1>8, GotoKeeps DEF PayRefused, local, Labels, Holding
  <1>9. ASSUME NEW ok \in BOOLEAN, Judge(r, ok)
        PROVE  LocalOK'
    BY <1>9, JudgeKeeps
  <1>10. ASSUME NEW ok \in BOOLEAN, JudgeRefused(r, ok)
         PROVE  LocalOK'
    BY <1>10, GotoKeeps DEF JudgeRefused, local, Labels, Holding
  <1>11. ASSUME NEW body \in Bodies,
                Extract(r, body) \/ ExtractRefused(r, body) \/ ExtractBreaks(r, body)
         PROVE  LocalOK'
    BY <1>11, GotoKeeps DEF Extract, ExtractRefused, ExtractBreaks, local, Labels, Holding
  <1>12. CASE InsertOrphan(r)
    BY <1>12, GotoKeeps DEF InsertOrphan, local, Labels, Holding
  <1>13. CASE \/ List(r)
              \/ \E c \in draft[r] : ReadVerdict(r, c) \/ ReadBody(r, c)
    <2>1. CASE List(r)
      <3>1. NoCur \in [item : Ids \cup {0}, article : Articles \cup {Null}, prompt : Nat]
        BY DEF NoCur
      <3> QED BY <2>1, <3>1 DEF List, Goto, LocalOK, Labels, Holding
    <2>2. CASE \E c \in draft[r] : ReadVerdict(r, c) \/ ReadBody(r, c)
      BY <2>2 DEF ReadVerdict, ReadBody, LocalOK
    <2> QED BY <1>13, <2>1, <2>2
  <1>14. CASE Write(r)
    BY <1>14, GotoKeeps DEF Write, Labels, Holding
  <1>15. CASE Prune(r)
    BY <1>15, GotoKeeps, FailKeeps DEF Prune, Labels, Holding
  <1>16. CASE Close(r) \/ CloseRefused(r) \/ ZoneRefused(r)
    BY <1>16, GotoKeeps
    DEF Close, CloseRefused, ZoneRefused, Dropped, local, Labels, Holding
  <1> QED BY <1>1, <1>2, <1>3, <1>4, <1>5, <1>6, <1>7, <1>8, <1>9, <1>10, <1>11,
             <1>12, <1>13, <1>14, <1>15, <1>16 DEF Step

LEMMA LocalNext ==
    ASSUME Typed, [Next]_vars
    PROVE  LocalOK'
  <1> USE DEF Typed
  <1>1. ASSUME NEW r \in Runs, Step(r)
        PROVE  LocalOK'
    BY <1>1, LocalStep
  <1>2. ASSUME NEW r \in Runs, NEW k \in Kinds, Start(r, k)
        PROVE  LocalOK'
    BY <1>2 DEF Start, Goto, LocalOK, Labels, Holding
  <1>3. CASE SavePrompt \/ \E s \in Sources : SetEnabled(s) \/ Purge(s)
    BY <1>3 DEF SavePrompt, SetEnabled, Purge, local, LocalOK
  <1>4. CASE Crash
    <2>1. NoCur \in [item : Ids \cup {0}, article : Articles \cup {Null}, prompt : Nat]
      BY DEF NoCur
    <2> QED BY <1>4, <2>1 DEF Crash, LocalOK, Live, Labels, Holding
  <1>5. CASE UNCHANGED vars
    BY <1>5 DEF LocalOK, vars, local
  <1> QED BY <1>1, <1>2, <1>3, <1>4, <1>5 DEF Next

(***************************************************************************)
(* The page.                                                               *)
(***************************************************************************)

\* Of finitely many rows there is a latest one, and Last finds it.
LEMMA LastJudgment ==
    ASSUME NEW J \in SUBSET JudgmentRow, IsFiniteSet(J), J # {}
    PROVE  Last(J) \in J
  <1> DEFINE T == {j.id : j \in J}
  <1>1. T \in SUBSET Nat /\ IsFiniteSet(T) /\ T # {}
    BY FiniteJudgmentIds
  <1>2. Max(T) \in T /\ \A n \in T : n <= Max(T)
    <2> HIDE DEF T
    <2> QED BY <1>1, MaxIsGreatest
  <1>3. \E j \in J : \A k \in J : k.id <= j.id
    BY <1>2
  <1> QED BY <1>3 DEF Last

LEMMA LastExtraction ==
    ASSUME NEW X \in SUBSET ExtractionRow, IsFiniteSet(X), X # {}
    PROVE  Last(X) \in X
  <1> DEFINE T == {x.id : x \in X}
  <1>1. T \in SUBSET Nat /\ IsFiniteSet(T) /\ T # {}
    BY FiniteExtractionIds
  <1>2. Max(T) \in T /\ \A n \in T : n <= Max(T)
    <2> HIDE DEF T
    <2> QED BY <1>1, MaxIsGreatest
  <1>3. \E x \in X : \A y \in X : y.id <= x.id
    BY <1>2
  <1> QED BY <1>3 DEF Last

LEMMA BlankType ==
    ASSUME TablesOK, NEW i \in Ids, items[i] # Null
    PROVE  Blank(i) \in CardShape
  <1>1. items[i] \in Articles
    BY DEF TablesOK
  <1> QED BY <1>1 DEF Blank, CardShape

\* What WithVerdict does to a card: it finds no verdict on the item, or the latest.
LEMMA WithVerdictIs ==
    ASSUME StoreOK, NEW r \in Runs, NEW c \in CardShape, c.verdict = "unread"
    PROVE  \/ WithVerdict(r, c) = [c EXCEPT !.verdict = "unjudged"]
           \/ \E j \in SeenJudgments(r) :
                 /\ j.item = c.item
                 /\ \/ /\ j.passed
                       /\ WithVerdict(r, c) =
                             [c EXCEPT !.verdict = "passed", !.run = j.run, !.body = "unread"]
                    \/ /\ ~j.passed
                       /\ WithVerdict(r, c) =
                             [c EXCEPT !.verdict = "rejected", !.run = j.run]
  <1> DEFINE of == {j \in SeenJudgments(r) : j.item = c.item}
  <1>1. of \in SUBSET JudgmentRow /\ IsFiniteSet(of)
    BY SeenType, FS_Subset
  <1>2. of # {} => Last(of) \in of
    <2> HIDE DEF of
    <2> QED BY <1>1, LastJudgment
  <1>3. WithVerdict(r, c) =
           IF of = {} THEN [c EXCEPT !.verdict = "unjudged"]
           ELSE IF Last(of).passed
                THEN [c EXCEPT !.verdict = "passed", !.run = Last(of).run, !.body = "unread"]
           ELSE [c EXCEPT !.verdict = "rejected", !.run = Last(of).run]
    BY DEF WithVerdict
  <1>4. CASE of = {}
    <2> HIDE DEF of
    <2> QED BY <1>3, <1>4
  <1>5. CASE of # {}
    <2> DEFINE j == Last(of)
    <2>1. j \in SeenJudgments(r) /\ j.item = c.item
      BY <1>2, <1>5
    <2>2. IF j.passed
          THEN WithVerdict(r, c) =
                  [c EXCEPT !.verdict = "passed", !.run = j.run, !.body = "unread"]
          ELSE WithVerdict(r, c) = [c EXCEPT !.verdict = "rejected", !.run = j.run]
      <3> HIDE DEF of
      <3> QED BY <1>3, <1>5
    <2> HIDE DEF j
    <2> QED BY <2>1, <2>2
  <1> QED BY <1>4, <1>5

LEMMA WithVerdictType ==
    ASSUME StoreOK, NEW r \in Runs, NEW c \in CardShape
    PROVE  /\ WithVerdict(r, c) \in CardShape
           /\ WithVerdict(r, c).verdict # "unread"
           /\ WithVerdict(r, c).item = c.item /\ WithVerdict(r, c).article = c.article
           /\ c.verdict # "unread" => WithVerdict(r, c) = c
  <1>1. CASE c.verdict = "unread"
    <2>1. SeenJudgments(r) \in SUBSET JudgmentRow
      BY SeenType
    <2>2. CASE WithVerdict(r, c) = [c EXCEPT !.verdict = "unjudged"]
      BY <1>1, <2>2 DEF CardShape
    <2>3. ASSUME NEW j \in SeenJudgments(r),
                 WithVerdict(r, c) =
                    [c EXCEPT !.verdict = "passed", !.run = j.run, !.body = "unread"]
          PROVE  /\ WithVerdict(r, c) \in CardShape
                 /\ WithVerdict(r, c).verdict # "unread"
                 /\ WithVerdict(r, c).item = c.item /\ WithVerdict(r, c).article = c.article
      <3>1. j.run \in Runs
        BY <2>1 DEF JudgmentRow
      <3> QED BY <2>3, <3>1 DEF CardShape
    <2>4. ASSUME NEW j \in SeenJudgments(r),
                 WithVerdict(r, c) = [c EXCEPT !.verdict = "rejected", !.run = j.run]
          PROVE  /\ WithVerdict(r, c) \in CardShape
                 /\ WithVerdict(r, c).verdict # "unread"
                 /\ WithVerdict(r, c).item = c.item /\ WithVerdict(r, c).article = c.article
      <3>1. j.run \in Runs
        BY <2>1 DEF JudgmentRow
      <3> QED BY <2>4, <3>1 DEF CardShape
    <2> QED BY <1>1, <2>2, <2>3, <2>4, WithVerdictIs
  <1>2. CASE c.verdict # "unread"
    BY <1>2 DEF WithVerdict, CardShape
  <1> QED BY <1>1, <1>2

\* What WithBody does to one: it finds no extraction, or one of the verdict's run.
LEMMA WithBodyIs ==
    ASSUME StoreOK, NEW r \in Runs, NEW c \in CardShape, c.body = "unread"
    PROVE  /\ WithBody(r, c) \in CardShape
           /\ WithBody(r, c).body # "unread"
           /\ WithBody(r, c).item = c.item /\ WithBody(r, c).article = c.article
           /\ WithBody(r, c).verdict = c.verdict /\ WithBody(r, c).run = c.run
           /\ WithBody(r, c).body # "none" =>
                 \E x \in SeenExtractions(r) :
                    x.item = c.item /\ x.run = c.run /\ x.body = WithBody(r, c).body
  <1> DEFINE bodies == {x \in SeenExtractions(r) : x.item = c.item /\ x.run = c.run}
             body   == IF bodies = {} THEN "none" ELSE Last(bodies).body
  <1>1. bodies \in SUBSET ExtractionRow /\ IsFiniteSet(bodies)
    BY SeenType, FS_Subset
  <1>2. bodies # {} => Last(bodies) \in bodies
    <2> HIDE DEF bodies
    <2> QED BY <1>1, LastExtraction
  <1>3. body \in {"none", "full", "hole"}
    <2>1. bodies # {} => Last(bodies) \in ExtractionRow
      <3> HIDE DEF bodies
      <3> QED BY <1>1, <1>2
    <2> HIDE DEF bodies
    <2> QED BY <2>1 DEF ExtractionRow
  <1>4. body # "none" => \E x \in SeenExtractions(r) :
                            x.item = c.item /\ x.run = c.run /\ x.body = body
    <2> SUFFICES ASSUME body # "none"
                 PROVE  \E x \in SeenExtractions(r) :
                            x.item = c.item /\ x.run = c.run /\ x.body = body
      OBVIOUS
    <2>1. bodies # {} /\ body = Last(bodies).body
      <3> HIDE DEF bodies
      <3> QED OBVIOUS
    <2>2. Last(bodies) \in bodies
      <3> HIDE DEF bodies
      <3> QED BY <1>2, <2>1
    <2> DEFINE x == Last(bodies)
    <2>3. x \in SeenExtractions(r) /\ x.item = c.item /\ x.run = c.run
      BY <2>2
    <2>4. x.body = body
      <3> HIDE DEF bodies
      <3> QED BY <2>1
    <2> HIDE DEF x, body
    <2> QED BY <2>3, <2>4
  <1>5. WithBody(r, c) = [c EXCEPT !.body = body, !.extraction_failed = (body # "full")]
    BY DEF WithBody, Bodied
  <1> HIDE DEF body
  <1> QED BY <1>3, <1>4, <1>5 DEF CardShape

LEMMA WithBodyType ==
    ASSUME StoreOK, NEW r \in Runs, NEW c \in CardShape
    PROVE  /\ WithBody(r, c) \in CardShape
           /\ WithBody(r, c).body # "unread"
           /\ WithBody(r, c).item = c.item /\ WithBody(r, c).article = c.article
           /\ WithBody(r, c).verdict = c.verdict /\ WithBody(r, c).run = c.run
           /\ c.body # "unread" => WithBody(r, c) = c
  <1>1. CASE c.body = "unread"
    BY <1>1, WithBodyIs
  <1>2. CASE c.body # "unread"
    BY <1>2 DEF WithBody
  <1> QED BY <1>1, <1>2

\* How a step of a run changes what is composed and what is shown.
LEMMA StepDraft ==
    ASSUME Typed, NEW r \in Runs, Step(r)
    PROVE  \/ UNCHANGED <<draft, page>>
           \/ /\ draft' = [draft EXCEPT ![r] = {}]
              /\ page' = page \/ (page' = draft[r] /\ Composed(r))
           \/ List(r)
           \/ \E c \in draft[r] : ReadVerdict(r, c) \/ ReadBody(r, c)
  BY DEF Step, Zone, ZoneRefused, Dropped, Land, LandRefused, PollRefused, Select,
     ReadRefused, Take, TakePurged, Pay, PayRefused, Skip, Judge, JudgeRefused, Extract,
     ExtractRefused, ExtractBreaks, InsertOrphan, Write, WriteFails, Prune, Close,
     CloseRefused, Fail, local

\* Of the cards being composed, a step of r changes those of r.
LEMMA DraftReplaced ==
    ASSUME PageOK, NEW r \in Runs, NEW D \in SUBSET CardShape,
           draft' = [draft EXCEPT ![r] = D], page' = page
    PROVE  PageOK'
  BY DEF PageOK, Unread

LEMMA PageStep ==
    ASSUME Typed, NEW r \in Runs, Step(r)
    PROVE  PageOK'
  <1> USE DEF Typed
  <1>1. CASE UNCHANGED <<draft, page>>
    BY <1>1 DEF PageOK, Unread
  <1>2. CASE /\ draft' = [draft EXCEPT ![r] = {}]
             /\ page' = page \/ (page' = draft[r] /\ Composed(r))
    BY <1>2 DEF PageOK, Composed, Unread
  <1>3. CASE List(r)
    <2> DEFINE D == {Blank(i) : i \in {i \in Ids : items[i] # Null}}
    <2>1. D \in SUBSET CardShape
      BY BlankType
    <2>2. draft' = [draft EXCEPT ![r] = D] /\ page' = page
      BY <1>3 DEF List
    <2> HIDE DEF D
    <2> QED BY <2>1, <2>2, DraftReplaced
  <1>4. ASSUME NEW c \in draft[r], ReadVerdict(r, c)
        PROVE  PageOK'
    <2> DEFINE D == (draft[r] \ {c}) \cup {d \in {WithVerdict(r, c)} : Shown(d)}
    <2>1. c \in CardShape /\ draft[r] \in SUBSET CardShape
      BY DEF PageOK
    <2>2. D \in SUBSET CardShape
      BY <2>1, WithVerdictType
    <2>3. draft' = [draft EXCEPT ![r] = D] /\ page' = page
      BY <1>4 DEF ReadVerdict, PageOK
    <2> HIDE DEF D
    <2> QED BY <2>2, <2>3, DraftReplaced
  <1>5. ASSUME NEW c \in draft[r], ReadBody(r, c)
        PROVE  PageOK'
    <2> DEFINE D == (draft[r] \ {c}) \cup {WithBody(r, c)}
    <2>1. c \in CardShape /\ draft[r] \in SUBSET CardShape
      BY DEF PageOK
    <2>2. D \in SUBSET CardShape
      BY <2>1, WithBodyType
    <2>3. draft' = [draft EXCEPT ![r] = D] /\ page' = page
      BY <1>5 DEF ReadBody, PageOK
    <2> HIDE DEF D
    <2> QED BY <2>2, <2>3, DraftReplaced
  <1> QED BY <1>1, <1>2, <1>3, <1>4, <1>5, StepDraft

LEMMA PageNext ==
    ASSUME Typed, [Next]_vars
    PROVE  PageOK'
  <1> USE DEF Typed
  <1>1. ASSUME NEW r \in Runs, Step(r)
        PROVE  PageOK'
    BY <1>1, PageStep
  <1>2. CASE Crash
    BY <1>2 DEF Crash, PageOK, Unread
  <1>3. CASE UNCHANGED <<draft, page>>
    BY <1>3 DEF PageOK, Unread
  <1>4. ASSUME ~\E r \in Runs : Step(r), ~Crash
        PROVE  UNCHANGED <<draft, page>>
    BY <1>4 DEF Next, Start, SavePrompt, SetEnabled, Purge, vars, local
  <1> QED BY <1>1, <1>2, <1>3, <1>4

\* An article's item is a new row of the table.
LEMMA WithItemType ==
    ASSUME TablesOK, NEW a \in Articles
    PROVE  WithItem(a) \in [Ids -> Articles \cup {Null}]
  <1> DEFINE new == NewId({i \in Ids : items[i] # Null})
  <1>1. WithItem(a) = [items EXCEPT ![new] = a]
    BY DEF WithItem
  <1> HIDE DEF new
  <1>2. CASE new \in Ids
    BY <1>1, <1>2 DEF TablesOK
  <1>3. CASE new \notin Ids
    <2>1. WithItem(a) = items
      BY <1>1, <1>3, Zenon DEF TablesOK
    <2> QED BY <2>1 DEF TablesOK
  <1> QED BY <1>2, <1>3

\* What a step of a run does to the items: nothing, or one more.
LEMMA StepItems ==
    ASSUME Typed, NEW r \in Runs, Step(r)
    PROVE  /\ UNCHANGED <<sources, enabled>>
           /\ \/ items' = items
              \/ \E a \in Articles : items' = WithItem(a) /\ Land(r, a)
              \/ \E a \in Articles : items' = WithItem(a) /\ Close(r) /\ a = pend[r].landed
  <1>1. CASE Close(r)
    <2>1. pend[r].landed \in Articles \cup {Null}
      BY PendType DEF Typed
    <2> QED BY <1>1, <2>1 DEF Close
  <1>2. CASE ~Close(r)
    BY <1>2 DEF Step, Zone, ZoneRefused, Dropped, Land, LandRefused, PollRefused, Select,
       ReadRefused, Take, TakePurged, Pay, PayRefused, Skip, Judge, JudgeRefused, Extract,
       ExtractRefused, ExtractBreaks, InsertOrphan, List, ReadVerdict, ReadBody, Write,
       WriteFails, Prune, CloseRefused, tables
  <1> QED BY <1>1, <1>2

LEMMA TablesNext ==
    ASSUME Typed, [Next]_vars
    PROVE  TablesOK'
  <1> USE DEF Typed
  <1>1. ASSUME NEW r \in Runs, Step(r)
        PROVE  TablesOK'
    <2>1. items' \in [Ids -> Articles \cup {Null}]
      BY <1>1, StepItems, WithItemType DEF TablesOK
    <2> QED BY <1>1, <2>1, StepItems DEF TablesOK
  <1>2. ASSUME NEW s \in Sources, SetEnabled(s)
        PROVE  TablesOK'
    BY <1>2 DEF SetEnabled, TablesOK
  <1>3. ASSUME NEW s \in Sources, Purge(s)
        PROVE  TablesOK'
    BY <1>3 DEF Purge, TablesOK
  <1>4. CASE UNCHANGED tables
    BY <1>4 DEF TablesOK, tables
  <1>6. ASSUME ~\E r \in Runs : Step(r)
        PROVE  UNCHANGED tables \/ \E s \in Sources : SetEnabled(s) \/ Purge(s)
    BY <1>6 DEF Next, Start, SavePrompt, Crash, vars
  <1> QED BY <1>1, <1>2, <1>3, <1>4, <1>6

LEMMA BoundsNext ==
    ASSUME Typed, [Next]_vars
    PROVE  BoundsOK'
  <1> USE DEF Typed
  <1>1. CASE SavePrompt
    BY <1>1, GateAssumption DEF SavePrompt, BoundsOK
  <1>2. ASSUME NEW s \in Sources, SetEnabled(s)
        PROVE  BoundsOK'
    BY <1>2, GateAssumption DEF SetEnabled, BoundsOK
  <1>3. ASSUME NEW s \in Sources, Purge(s)
        PROVE  BoundsOK'
    <2>1. InFlight(Gone(s)) \subseteq Runs \X Ids
      BY DEF InFlight, Gone
    <2> QED BY <1>3, <2>1 DEF Purge, BoundsOK
  <1>4. CASE Crash
    BY <1>4, GateAssumption DEF Crash, BoundsOK
  <1>5. CASE UNCHANGED <<prompt, edits, crashes, astray>>
    BY <1>5 DEF BoundsOK
  <1>6. ASSUME NEW r \in Runs, Step(r)
        PROVE  UNCHANGED <<prompt, edits, crashes, astray>>
    BY <1>6 DEF Step, Zone, ZoneRefused, Dropped, Land, LandRefused, PollRefused, Select,
       ReadRefused, Take, TakePurged, Pay, PayRefused, Skip, Judge, JudgeRefused, Extract,
       ExtractRefused, ExtractBreaks, InsertOrphan, List, ReadVerdict, ReadBody, Write,
       WriteFails, Prune, Close, CloseRefused, bounds
  <1>7. ASSUME ~\E r \in Runs : Step(r)
        PROVE  \/ UNCHANGED <<prompt, edits, crashes, astray>>
               \/ SavePrompt \/ Crash \/ \E s \in Sources : SetEnabled(s) \/ Purge(s)
    BY <1>7 DEF Next, Start, vars, bounds
  <1> QED BY <1>1, <1>2, <1>3, <1>4, <1>5, <1>6, <1>7

LEMMA TypedInit == Init => Typed
  <1> SUFFICES ASSUME Init
               PROVE  Typed
    OBVIOUS
  <1>1. TablesOK
    BY DEF Init, TablesOK
  <1>2. StoreOK
    BY NoPendType, FS_EmptySet DEF Init, StoreOK, NoRow, RunRow
  <1>3. LocalOK
    <2>1. failed \in [Runs -> BOOLEAN]
      BY Zenon DEF Init
    <2> QED BY <2>1 DEF Init, LocalOK, NoCur, Zero, Labels, Holding
  <1>4. PageOK
    BY DEF Init, PageOK
  <1>5. BoundsOK
    BY GateAssumption DEF Init, BoundsOK
  <1> QED BY <1>1, <1>2, <1>3, <1>4, <1>5 DEF Typed

LEMMA TypedNext == Typed /\ [Next]_vars => Typed'
  BY TablesNext, StoreNext, LocalNext, PageNext, BoundsNext DEF Typed

\* Type correctness of the tables, the runs and the page.
THEOREM TypeCorrect == Spec => []TypeOK
  <1>1. Init => Typed
    BY TypedInit
  <1>2. Typed /\ [Next]_vars => Typed'
    BY TypedNext
  <1>3. Typed => TypeOK
    BY TypedIsTypeOK
  <1> QED BY <1>1, <1>2, <1>3, PTL DEF Spec

(***************************************************************************)
(* One verdict of a normal run per item.                                   *)
(*                                                                         *)
(* NormalJudgesOnce speaks of committed rows.  To survive a step it must   *)
(* speak of the uncommitted ones too, which any later commit of their run  *)
(* makes durable; and it rests on there being one normal run at a time,    *)
(* which holds items that no normal run has judged.                        *)
(***************************************************************************)

Rows == judgments \cup UNION {pend[r].judgments : r \in Runs}

\* A scheduled or manual run is alone among its kind.
OneNormal ==
    \A q, r \in Runs :
        Live(q) /\ Live(r) /\ kind[q] \in Normal /\ kind[r] \in Normal => q = r

\* Only a live run has uncommitted rows, and they are its own.
OwnRows == \A r \in Runs : \A j \in pend[r].judgments : j.run = r /\ Live(r)

\* Rows are written by runs that have started, whose kind is settled.
RowsStarted == \A j \in Rows : pc[j.run] # "idle"

OneVerdict ==
    \A j, k \in Rows :
        j.item = k.item /\ kind[j.run] \in Normal /\ kind[k.run] \in Normal => j = k

\* The items normal runs have judged.
Spent == {j.item : j \in {j \in Rows : kind[j.run] \in Normal}}

\* What a normal run has selected and not reached, or is triaging, is not spent.
Selected ==
    \A r \in Runs : kind[r] \in Normal =>
        /\ pc[r] \in {"next"} \cup Holding => \A i \in todo[r] : i \notin Spent
        /\ pc[r] \in {"triage", "verdict"} =>
              cur[r].item \notin todo[r] /\ cur[r].item \notin Spent

Inv ==
    /\ Typed
    /\ OneNormal
    /\ OwnRows
    /\ RowsStarted
    /\ OneVerdict
    /\ Selected

\* A step of run r adds at most the rows N, to the table or to its batch.
Adds(r, N) ==
    /\ judgments' \subseteq judgments \cup pend[r].judgments \cup N
    /\ pend'[r].judgments \subseteq pend[r].judgments \cup N
    /\ \A q \in Runs \ {r} : pend'[q].judgments = pend[q].judgments

LEMMA StoredAdds ==
    ASSUME StoreOK, NEW r \in Runs, NEW js, NEW xs, NEW n, Stored(r, js, xs, n)
    PROVE  Adds(r, js)
  BY NoPendType DEF Stored, Adds, StoreOK

LEMMA RefusedAdds ==
    ASSUME StoreOK, NEW r \in Runs, NEW js \in SUBSET JudgmentRow,
           NEW xs \in SUBSET ExtractionRow, NEW n \in Nat, Refused(r, js, xs, n)
    PROVE  Adds(r, js)
  <1>1. judgments' = judgments
    BY DEF Refused, verdicts
  <1>2. CASE pend' = pend
    BY <1>1, <1>2 DEF Adds
  <1>3. CASE pend' = [pend EXCEPT ![r] = With(@, js, xs, n)]
    <2>0. pend[r] \in Pend /\ pend \in [Runs -> Pend]
      BY DEF StoreOK
    <2>1. /\ pend'[r].judgments = pend[r].judgments \cup js
          /\ \A q \in Runs \ {r} : pend'[q] = pend[q]
      BY <1>3, <2>0 DEF With
    <2> QED BY <1>1, <2>1 DEF Adds
  <1> QED BY <1>2, <1>3 DEF Refused, With

LEMMA BrokenAdds ==
    ASSUME StoreOK, NEW r \in Runs, NEW xs, Broken(r, xs)
    PROVE  Adds(r, {})
  <1>1. pend[r] \in Pend /\ pend \in [Runs -> Pend]
    BY DEF StoreOK
  <1>2. pend' = [pend EXCEPT ![r] = [pend[r] EXCEPT !.extractions = @ \cup xs]]
    BY <1>1 DEF Broken
  <1>3. pend'[r].judgments = pend[r].judgments
    BY <1>1, <1>2 DEF Pend
  <1> QED BY <1>1, <1>2, <1>3 DEF Adds, Broken, verdicts

\* Triage is all that adds a verdict.
LEMMA StepAdds ==
    ASSUME Typed, NEW r \in Runs, Step(r)
    PROVE  \/ Adds(r, {})
           \/ \E ok \in BOOLEAN : /\ Judge(r, ok) \/ JudgeRefused(r, ok)
                                  /\ Adds(r, {Judgment(r, ok)})
  <1> USE DEF Typed
  <1>1. CASE UNCHANGED <<judgments, pend>>
    BY <1>1 DEF Adds
  <1>2. CASE Pay(r) \/ Prune(r) \/ PollRefused(r)
    BY <1>2, StoredAdds, RefusedAdds DEF Pay, Prune, PollRefused
  <1>3. CASE PayRefused(r)
    <2>1. CASE MayRead(r)
      BY <1>3, <2>1, RefusedAdds DEF PayRefused
    <2>2. CASE ~MayRead(r)
      BY <1>1, <1>3, <2>2 DEF PayRefused, verdicts
    <2> QED BY <2>1, <2>2
  <1>4. ASSUME NEW ok \in BOOLEAN, Judge(r, ok) \/ JudgeRefused(r, ok)
        PROVE  Adds(r, {Judgment(r, ok)})
    <2>1. Judgment(r, ok) \in JudgmentRow
      BY <1>4, JudgmentType DEF Judge, JudgeRefused
    <2> QED BY <1>4, <2>1, StoredAdds, RefusedAdds DEF Judge, JudgeRefused
  <1>5. ASSUME NEW body \in Bodies,
               Extract(r, body) \/ ExtractRefused(r, body) \/ ExtractBreaks(r, body)
        PROVE  Adds(r, {})
    <2>1. \A raised \in BOOLEAN : Extraction(r, body, raised) \in ExtractionRow
      BY <1>5, GateAssumption, ExtractionType DEF Extract, ExtractRefused, ExtractBreaks
    <2> QED BY <1>5, <2>1, StoredAdds, RefusedAdds, BrokenAdds
            DEF Extract, ExtractRefused, ExtractBreaks
  <1>6. CASE InsertOrphan(r)
    BY <1>6, BrokenAdds DEF InsertOrphan
  <1>7. CASE Close(r) \/ CloseRefused(r) \/ ZoneRefused(r)
    BY <1>7, NoPendType DEF Close, CloseRefused, ZoneRefused, Dropped, Adds, StoreOK, verdicts
  <1>8. CASE \/ \E a \in Articles : Land(r, a)
             \/ Zone(r) \/ ReadRefused(r) \/ Skip(r) \/ Write(r) \/ WriteFails(r)
             \/ Select(r) \/ Take(r) \/ TakePurged(r) \/ List(r)
             \/ \E c \in draft[r] : ReadVerdict(r, c) \/ ReadBody(r, c)
    BY <1>1, <1>8 DEF Land, Zone, ReadRefused, Skip, Write, WriteFails, Select, Take,
                      TakePurged, List, ReadVerdict, ReadBody, verdicts
  <1>9. ASSUME NEW a \in Articles, LandRefused(r, a)
        PROVE  Adds(r, {})
    <2>1. /\ pend' = [pend EXCEPT ![r] = [pend[r] EXCEPT !.landed = a]]
          /\ pend[r] \in Pend /\ pend \in [Runs -> Pend] /\ judgments' = judgments
      BY <1>9 DEF LandRefused, verdicts, StoreOK
    <2>2. pend'[r].judgments = pend[r].judgments
      BY <2>1 DEF Pend
    <2> QED BY <2>1, <2>2 DEF Adds
  <1> QED BY <1>2, <1>3, <1>4, <1>5, <1>6, <1>7, <1>8, <1>9 DEF Step

\* Other runs keep what is theirs, and every run its kind.
LEMMA StepLocal ==
    ASSUME Typed, NEW r \in Runs, Step(r)
    PROVE  /\ kind' = kind
           /\ Live(r)
           /\ pc'[r] # "idle"
           /\ \A q \in Runs \ {r} :
                 pc'[q] = pc[q] /\ todo'[q] = todo[q] /\ cur'[q] = cur[q]
  BY DEF Step, Zone, ZoneRefused, Dropped, Land, LandRefused, PollRefused, Select,
     ReadRefused, Take, TakePurged, Pay, PayRefused, Skip, Judge, JudgeRefused, Extract,
     ExtractRefused, ExtractBreaks, InsertOrphan, List, ReadVerdict, ReadBody, Write,
     WriteFails, Prune, Close, CloseRefused, Polling, Composed,
     local, Goto, Fail, AfterVerdict, Live, Typed, LocalOK

\* The rows after a step of run r.
LEMMA StepRows ==
    ASSUME Typed, NEW r \in Runs, NEW N, Adds(r, N)
    PROVE  Rows' \subseteq Rows \cup N
  BY DEF Adds, Rows

\* How a run ends.
LEMMA StepEnds ==
    ASSUME Typed, NEW r \in Runs, Step(r), pc'[r] = "done"
    PROVE  Close(r) \/ CloseRefused(r) \/ ZoneRefused(r)
  BY DEF Step, Zone, Land, LandRefused, PollRefused, Select,
     ReadRefused, Take, TakePurged, Pay, PayRefused, Skip, Judge, JudgeRefused, Extract,
     ExtractRefused, ExtractBreaks, InsertOrphan, List, ReadVerdict, ReadBody, Write,
     WriteFails, Prune, Polling, Composed, local, Goto, Fail, AfterVerdict, Live, Typed,
     LocalOK

\* A run that ends leaves nothing uncommitted.
LEMMA EndsEmpty ==
    ASSUME Typed, NEW r \in Runs, Step(r), pc'[r] = "done"
    PROVE  pend'[r].judgments = {}
  BY StepEnds, NoPendType DEF Close, CloseRefused, ZoneRefused, Dropped, Typed, StoreOK

\* A step of r that goes on judging keeps what it has selected and holds, but
\* for the two that select and take.
LEMMA StepSelection ==
    ASSUME Typed, NEW r \in Runs, Step(r), ~Select(r), ~Take(r)
    PROVE  /\ pc'[r] \in {"next"} \cup Holding =>
                 pc[r] \in {"next"} \cup Holding /\ todo'[r] = todo[r]
           /\ pc'[r] \in {"triage", "verdict"} =>
                 pc[r] \in {"triage", "verdict"} /\ cur'[r] = cur[r]
  BY DEF Step, Zone, ZoneRefused, Dropped, Land, LandRefused, PollRefused,
     ReadRefused, TakePurged, Pay, PayRefused, Skip, Judge, JudgeRefused, Extract,
     ExtractRefused, ExtractBreaks, InsertOrphan, List, ReadVerdict, ReadBody, Write,
     WriteFails, Prune, Close, CloseRefused, local, Goto, Fail, AfterVerdict, Holding, Typed, LocalOK

LEMMA RowType ==
    ASSUME Typed, NEW j \in Rows
    PROVE  j.run \in Runs /\ j.item \in Ids
  <1>1. j \in JudgmentRow
    BY DEF Rows, Typed, StoreOK, Pend
  <1> QED BY <1>1 DEF JudgmentRow

\* What a normal run that is selecting does not see was not judged by another.
LEMMA UnseenIsUnspent ==
    ASSUME Inv, NEW r \in Runs, Live(r), kind[r] \in Normal, NEW i,
           i \notin {j.item : j \in SeenJudgments(r)}
    PROVE  i \notin Spent
  <1> SUFFICES ASSUME NEW j \in Rows, j.item = i, kind[j.run] \in Normal
               PROVE  FALSE
    BY DEF Spent
  <1>1. j \notin SeenJudgments(r)
    OBVIOUS
  <1>2. PICK q \in Runs : j \in pend[q].judgments /\ q # r
    BY <1>1 DEF Rows, SeenJudgments
  <1>3. j.run = q /\ Live(q)
    BY <1>2 DEF Inv, OwnRows
  <1> QED BY <1>2, <1>3 DEF Inv, OneNormal

\* A row that is about to be added is for an item not spent, or not a normal run's.
LEMMA AddedRow ==
    ASSUME Inv, NEW r \in Runs, NEW ok \in BOOLEAN,
           Judge(r, ok) \/ JudgeRefused(r, ok)
    PROVE  /\ Judgment(r, ok).run = r
           /\ Judgment(r, ok).item = cur[r].item
           /\ kind[r] \in Normal => cur[r].item \notin todo[r] /\ cur[r].item \notin Spent
           /\ pc[r] = "verdict"
           /\ pc'[r] \notin {"triage", "verdict", "done"}
  BY DEF Judge, JudgeRefused, Judgment, Inv, Selected, Goto, AfterVerdict, Typed,
         LocalOK

LEMMA StepInv ==
    ASSUME Inv, NEW r \in Runs, Step(r)
    PROVE  OneNormal' /\ OwnRows' /\ RowsStarted' /\ OneVerdict' /\ Selected'
  <1>1. Typed /\ Typed'
    BY TypedNext DEF Inv, Next
  <1>2. PICK N :
          /\ Adds(r, N)
          /\ \/ N = {}
             \/ \E ok \in BOOLEAN :
                   (Judge(r, ok) \/ JudgeRefused(r, ok)) /\ N = {Judgment(r, ok)}
    BY <1>1, StepAdds
  <1>3. Rows' \subseteq Rows \cup N
    BY <1>1, <1>2, StepRows
  <1>4. /\ kind' = kind /\ Live(r) /\ pc'[r] # "idle"
        /\ \A q \in Runs \ {r} :
              pc'[q] = pc[q] /\ todo'[q] = todo[q] /\ cur'[q] = cur[q]
    BY <1>1, StepLocal
  <1>5. \A n \in N : /\ n.run = r /\ n.item = cur[r].item
                     /\ kind[r] \in Normal =>
                           cur[r].item \notin todo[r] /\ cur[r].item \notin Spent
                     /\ pc[r] = "verdict"
                     /\ pc'[r] \notin {"triage", "verdict", "done"}
    BY <1>2, AddedRow
  <1>6. OneNormal'
    BY <1>4 DEF Inv, OneNormal, Live
  <1>7. OwnRows'
    <2> SUFFICES ASSUME NEW q \in Runs, NEW j \in pend'[q].judgments
                 PROVE  j.run = q /\ Live(q)'
      BY DEF OwnRows
    <2>1. CASE q # r
      <3>1. j \in pend[q].judgments
        BY <1>2, <2>1 DEF Adds
      <3> QED BY <1>4, <2>1, <3>1 DEF Inv, OwnRows, Live
    <2>2. CASE q = r
      <3>1. j \in pend[r].judgments \/ j \in N
        BY <1>2, <2>2 DEF Adds
      <3>2. j.run = r
        BY <1>5, <3>1 DEF Inv, OwnRows
      <3>3. pc'[r] # "done"
        BY <1>1, <2>2, EndsEmpty
      <3> QED BY <1>4, <2>2, <3>2, <3>3 DEF Live
    <2> QED BY <2>1, <2>2
  <1>8. RowsStarted'
    <2> SUFFICES ASSUME NEW j \in Rows'
                 PROVE  pc'[j.run] # "idle"
      BY DEF RowsStarted
    <2>1. CASE j \in Rows
      <3>1. j.run \in Runs /\ pc[j.run] # "idle"
        BY <1>1, <2>1, RowType DEF Inv, RowsStarted
      <3> QED BY <1>4, <3>1
    <2>2. CASE j \in N
      BY <1>4, <1>5, <2>2
    <2> QED BY <1>3, <2>1, <2>2
  <1>9. OneVerdict'
    <2> SUFFICES ASSUME NEW j \in Rows', NEW k \in Rows', j.item = k.item,
                        kind[j.run] \in Normal, kind[k.run] \in Normal
                 PROVE  j = k
      BY <1>4 DEF OneVerdict
    <2>1. CASE j \in Rows /\ k \in Rows
      BY <2>1 DEF Inv, OneVerdict
    <2>2. CASE j \in N /\ k \in N
      BY <1>2, <2>2
    <2>3. CASE j \in N /\ k \in Rows
      BY <1>5, <2>3 DEF Spent
    <2>4. CASE j \in Rows /\ k \in N
      BY <1>5, <2>4 DEF Spent
    <2> QED BY <1>3, <2>1, <2>2, <2>3, <2>4
  <1>10. Selected'
    <2> SUFFICES ASSUME NEW q \in Runs, kind[q] \in Normal
                 PROVE  /\ pc'[q] \in {"next"} \cup Holding =>
                              \A i \in todo'[q] : i \notin Spent'
                        /\ pc'[q] \in {"triage", "verdict"} =>
                              cur'[q].item \notin todo'[q] /\ cur'[q].item \notin Spent'
      BY <1>4 DEF Selected
    <2>1. CASE q # r
      <3> SUFFICES ASSUME pc[q] \in {"next"} \cup Holding
                   PROVE  /\ \A i \in todo[q] : i \notin Spent'
                          /\ pc[q] \in {"triage", "verdict"} =>
                                cur[q].item \notin todo[q] /\ cur[q].item \notin Spent'
        BY <1>4, <2>1 DEF Holding
      <3>1. Live(q)
        BY DEF Holding, Live
      <3>2. kind[r] \notin Normal
        BY <1>4, <2>1, <3>1 DEF Inv, OneNormal
      <3>3. \A n \in N : kind[n.run] \notin Normal
        BY <1>5, <3>2
      <3>4. \A i : i \notin Spent => i \notin Spent'
        BY <1>3, <1>4, <3>3 DEF Spent
      <3> QED BY <3>4 DEF Inv, Selected
    <2>2. CASE q = r /\ Select(r)
      <3>1. pc'[r] = "next" /\ todo'[r] \subseteq Wanted(r)
        BY <1>1, <2>2 DEF Select, Goto, Typed, LocalOK
      <3>2. N = {}
        BY <1>5, <2>2 DEF Select
      <3>3. \A i \in Wanted(r) : i \notin Spent
        BY <1>4, <2>2, UnseenIsUnspent DEF Wanted
      <3>4. \A i \in Wanted(r) : i \notin Spent'
        BY <1>3, <1>4, <3>2, <3>3 DEF Spent
      <3> QED BY <2>2, <3>1, <3>4
    <2>3. CASE q = r /\ Take(r)
      <3> DEFINE i == Min(todo[r])
      <3>1. /\ pc[r] = "next" /\ pc'[r] = "triage"
            /\ todo'[r] = todo[r] \ {i} /\ cur'[r].item = i
            /\ todo[r] # {} /\ todo[r] \in SUBSET Ids
        BY <1>1, <2>3 DEF Take, Goto, Typed, LocalOK
      <3>2. i \in todo[r]
        BY <3>1, IdsType, MinIsLeast
      <3>3. N = {}
        BY <1>5, <3>1
      <3>4. \A k \in todo[r] : k \notin Spent
        BY <2>3, <3>1 DEF Inv, Selected
      <3>5. \A k \in todo[r] : k \notin Spent'
        BY <1>3, <1>4, <3>3, <3>4 DEF Spent
      <3> HIDE DEF i
      <3> QED BY <2>3, <3>1, <3>2, <3>5
    <2>4. CASE q = r /\ ~Select(r) /\ ~Take(r)
      <3>1. /\ pc'[r] \in {"next"} \cup Holding =>
                  pc[r] \in {"next"} \cup Holding /\ todo'[r] = todo[r]
            /\ pc'[r] \in {"triage", "verdict"} =>
                  pc[r] \in {"triage", "verdict"} /\ cur'[r] = cur[r]
        BY <1>1, <2>4, StepSelection
      <3>2. ASSUME pc'[r] \in {"next"} \cup Holding, NEW i \in todo'[r]
            PROVE  i \notin Spent'
        <4>1. i \in todo[r] /\ i \notin Spent
          BY <2>4, <3>1, <3>2 DEF Inv, Selected
        <4>2. \A n \in N : n.item # i
          BY <1>5, <2>4, <4>1
        <4> QED BY <1>3, <1>4, <4>1, <4>2 DEF Spent
      <3>3. ASSUME pc'[r] \in {"triage", "verdict"}
            PROVE  cur'[r].item \notin todo'[r] /\ cur'[r].item \notin Spent'
        <4>1. /\ cur'[r] = cur[r] /\ todo'[r] = todo[r]
              /\ cur[r].item \notin todo[r] /\ cur[r].item \notin Spent
          BY <2>4, <3>1, <3>3 DEF Inv, Selected, Holding
        <4>2. N = {}
          BY <1>5, <3>3
        <4>3. \A i : i \notin Spent => i \notin Spent'
          BY <1>3, <1>4, <4>2 DEF Spent
        <4> QED BY <4>1, <4>3
      <3> QED BY <2>4, <3>2, <3>3
    <2> QED BY <2>1, <2>2, <2>3, <2>4
  <1> QED BY <1>6, <1>7, <1>8, <1>9, <1>10

LEMMA StartInv ==
    ASSUME Inv, NEW r \in Runs, NEW k \in Kinds, Start(r, k)
    PROVE  OneNormal' /\ OwnRows' /\ RowsStarted' /\ OneVerdict' /\ Selected'
  <1>1. /\ pc[r] = "idle" /\ pc'[r] = "zone" /\ kind'[r] = k
        /\ \A q \in Runs \ {r} : pc'[q] = pc[q] /\ kind'[q] = kind[q]
        /\ UNCHANGED <<judgments, pend, todo, cur>>
        /\ k \in Normal => \A q \in Runs : Live(q) => kind[q] \notin Normal
    BY DEF Start, Goto, Inv, Typed, LocalOK, verdicts
  <1>2. Rows' = Rows
    BY <1>1 DEF Rows
  <1>3. \A j \in Rows : j.run \in Runs /\ j.run # r /\ kind'[j.run] = kind[j.run]
    BY <1>1, RowType DEF Inv, RowsStarted
  <1>4. Spent' = Spent
    BY <1>2, <1>3 DEF Spent
  <1>5. OneNormal'
    BY <1>1 DEF Inv, OneNormal, Live
  <1>6. OwnRows'
    BY <1>1 DEF Inv, OwnRows, Live
  <1>7. RowsStarted'
    BY <1>1, <1>2, <1>3 DEF Inv, RowsStarted
  <1>8. OneVerdict'
    BY <1>2, <1>3 DEF Inv, OneVerdict
  <1>9. Selected'
    BY <1>1, <1>4 DEF Inv, Selected, Holding
  <1> QED BY <1>5, <1>6, <1>7, <1>8, <1>9

\* Purges only take rows away.
LEMMA PurgeInv ==
    ASSUME Inv, NEW s \in Sources, Purge(s)
    PROVE  OneNormal' /\ OwnRows' /\ RowsStarted' /\ OneVerdict' /\ Selected'
  <1>1. judgments' \subseteq judgments /\ UNCHANGED <<kind, pc, pend, todo, cur>>
    BY DEF Purge, local
  <1>2. Rows' \subseteq Rows
    BY <1>1 DEF Rows
  <1>3. Spent' \subseteq Spent
    BY <1>1, <1>2 DEF Spent
  <1>4. OneNormal' /\ OwnRows'
    BY <1>1 DEF Inv, OneNormal, OwnRows, Live
  <1>5. RowsStarted' /\ OneVerdict'
    BY <1>1, <1>2 DEF Inv, RowsStarted, OneVerdict
  <1>6. Selected'
    BY <1>1, <1>3 DEF Inv, Selected
  <1> QED BY <1>4, <1>5, <1>6

\* A crash leaves no run live and no batch.
LEMMA CrashInv ==
    ASSUME Inv, Crash
    PROVE  OneNormal' /\ OwnRows' /\ RowsStarted' /\ OneVerdict' /\ Selected'
  <1>1. /\ \A q \in Runs : pc'[q] \in {"idle", "done"} /\ pend'[q].judgments = {}
        /\ \A q \in Runs : pc[q] # "idle" => pc'[q] # "idle"
        /\ UNCHANGED <<judgments, kind>>
    BY NoPendType DEF Crash, Live, verdicts
  <1>2. Rows' \subseteq Rows
    BY <1>1 DEF Rows
  <1>3. OneNormal' /\ OwnRows' /\ Selected'
    BY <1>1 DEF OneNormal, OwnRows, Selected, Live, Holding
  <1>4. RowsStarted'
    <2>1. \A j \in Rows : j.run \in Runs
      BY RowType DEF Inv
    <2> QED BY <1>1, <1>2, <2>1 DEF Inv, RowsStarted
  <1>5. OneVerdict'
    BY <1>1, <1>2 DEF Inv, OneVerdict
  <1> QED BY <1>3, <1>4, <1>5

LEMMA InvInit == Init => Inv
  <1> SUFFICES ASSUME Init
               PROVE  Inv
    OBVIOUS
  <1>1. Typed
    BY TypedInit
  <1>2. Rows = {}
    BY NoPendType DEF Init, Rows
  <1>3. \A r \in Runs : ~Live(r) /\ pc[r] = "idle"
    BY DEF Init, Live
  <1>4. OwnRows
    BY NoPendType DEF Init, OwnRows
  <1> QED BY <1>1, <1>2, <1>3, <1>4
          DEF Inv, OneNormal, RowsStarted, OneVerdict, Selected, Holding

LEMMA InvNext == Inv /\ [Next]_vars => Inv'
  <1> SUFFICES ASSUME Inv, [Next]_vars
               PROVE  Inv'
    OBVIOUS
  <1>1. Typed'
    BY TypedNext DEF Inv
  <1>2. ASSUME NEW r \in Runs, Step(r)
        PROVE  Inv'
    BY <1>1, <1>2, StepInv DEF Inv
  <1>3. ASSUME NEW r \in Runs, NEW k \in Kinds, Start(r, k)
        PROVE  Inv'
    BY <1>1, <1>3, StartInv DEF Inv
  <1>4. ASSUME NEW s \in Sources, Purge(s)
        PROVE  Inv'
    BY <1>1, <1>4, PurgeInv DEF Inv
  <1>5. CASE Crash
    BY <1>1, <1>5, CrashInv DEF Inv
  <1>6. CASE UNCHANGED <<judgments, kind, pc, pend, todo, cur>>
    <2>1. Rows' = Rows
      BY <1>6 DEF Rows
    <2>2. Spent' = Spent
      BY <1>6, <2>1 DEF Spent
    <2>3. OneNormal' /\ OwnRows' /\ RowsStarted' /\ OneVerdict' /\ Selected'
      BY <1>6, <2>1, <2>2
      DEF Inv, OneNormal, OwnRows, RowsStarted, OneVerdict, Selected, Live
    <2> QED BY <1>1, <2>3 DEF Inv
  <1>7. (SavePrompt \/ \E s \in Sources : SetEnabled(s)) \/ UNCHANGED vars
           => UNCHANGED <<judgments, kind, pc, pend, todo, cur>>
    BY DEF SavePrompt, SetEnabled, vars, local, verdicts
  <1> QED BY <1>2, <1>3, <1>4, <1>5, <1>6, <1>7 DEF Next

\* Scheduled and manual runs store one verdict per item row, whatever reprocesses,
\* refused commits, purges, reused row ids and crashes come between: for any number
\* of runs, articles and sources.
THEOREM NormalJudgesOnceHolds == Spec => []NormalJudgesOnce
  <1>1. Init => Inv
    BY InvInit
  <1>2. Inv /\ [Next]_vars => Inv'
    BY InvNext
  <1>3. Inv => NormalJudgesOnce
    BY DEF Inv, OneVerdict, Rows, NormalJudgesOnce
  <1> QED BY <1>1, <1>2, <1>3, PTL DEF Spec
=============================================================================
