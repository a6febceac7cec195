--------------------------- MODULE GateStore_proofs ---------------------------
(***************************************************************************)
(* What the runs of Gate leave in the tables, in the ledger and on the     *)
(* page, for every set of articles and sources, every mix of runs and      *)
(* every bound.  Gate_proofs has the types and who judges what; here is    *)
(* what becomes of the rows.                                               *)
(***************************************************************************)
EXTENDS Gate_proofs

(***************************************************************************)
(* What a step of a run does to the rows.  js and xs are the verdicts and  *)
(* extractions it writes, n the LLM calls it records.                      *)
(***************************************************************************)

Others(r) == /\ \A q \in Runs \ {r} : /\ pend'[q] = pend[q]
                                      /\ tx'[q] = tx[q]
                                      /\ runs'[q] = runs[q]

\* A commit: everything the connection had written becomes durable.
Commits(r, js, xs, n) ==
    /\ MayWrite(r)
    /\ judgments' = SeenJudgments(r) \cup js
    /\ extractions' = SeenExtractions(r) \cup xs
    /\ runs'[r].calls = runs[r].calls + pend[r].calls + n
    /\ pend'[r] = NoPend
    /\ tx'[r] = "none"

\* No commit: what is written is only the connection's, under its lock.
Holds(r, js, xs, n) ==
    /\ UNCHANGED <<judgments, extractions>>
    /\ runs'[r].calls = runs[r].calls
    /\ pend'[r].judgments = pend[r].judgments \cup js
    /\ pend'[r].extractions = pend[r].extractions \cup xs
    /\ pend'[r].calls = pend[r].calls + n
    /\ Writes(tx[r]) => Writes(tx'[r])
    /\ \/ pend'[r] = pend[r] /\ tx'[r] \in {tx[r], "open", "shared"}
       \/ MayWrite(r) /\ Writes(tx'[r])

\* The connection is closed on a commit it could not make.
Drops(r) ==
    /\ UNCHANGED <<judgments, extractions>>
    /\ runs'[r] = runs[r]
    /\ pend'[r] = NoPend
    /\ tx'[r] = "none"
    /\ pc'[r] = "done"

Leaves(r, js, xs, n) ==
    /\ Others(r)
    /\ \/ Commits(r, js, xs, n)
       \/ Holds(r, js, xs, n)
       \/ Drops(r) /\ js = {} /\ xs = {} /\ n = 0

\* What a step writes, and from where: a verdict or an extraction once its call
\* is paid for, and a call is paid for by a commit.
Paid == {"verdict", "store"}

Writing(r, js, xs, n) ==
    /\ Leaves(r, js, xs, n)
    /\ n \in {0, 1}
    /\ \/ js = {} /\ xs = {}
       \/ /\ pc[r] = "verdict" /\ xs = {}
          /\ \E ok \in BOOLEAN : js = {Judgment(r, ok)}
       \/ /\ pc[r] = "store" /\ js = {}
          /\ \E body \in Bodies, raised \in BOOLEAN :
                xs = {Extraction(r, body, raised)}
    /\ pc'[r] \in Paid =>
          pc[r] \notin Paid /\ js = {} /\ xs = {} /\ Commits(r, {}, {}, 1)

LEMMA NoPendIs ==
    /\ NoPend.judgments = {} /\ NoPend.extractions = {} /\ NoPend.calls = 0
    /\ NoPend.landed = Null
  BY DEF NoPend

LEMMA StoredLeaves ==
    ASSUME StoreOK, NEW r \in Runs, NEW js, NEW xs, NEW n \in Nat,
           Stored(r, js, xs, n)
    PROVE  Others(r) /\ Commits(r, js, xs, n)
  <1>1. /\ judgments' = judgments \cup pend[r].judgments \cup js
        /\ extractions' = extractions \cup pend[r].extractions \cup xs
        /\ runs' = [runs EXCEPT ![r].calls = @ + pend[r].calls + n]
        /\ pend' = [pend EXCEPT ![r] = NoPend]
        /\ tx' = [tx EXCEPT ![r] = "none"]
        /\ MayWrite(r)
    BY DEF Stored
  <1>2. /\ runs \in [Runs -> RunRow] /\ pend \in [Runs -> Pend]
        /\ DOMAIN tx = Runs
    BY DEF StoreOK
  <1>3. runs'[r].calls = runs[r].calls + pend[r].calls + n
    BY <1>1, <1>2 DEF RunRow
  <1>4. Others(r)
    BY <1>1, <1>2 DEF Others
  <1> QED BY <1>1, <1>2, <1>3, <1>4 DEF Commits, SeenJudgments, SeenExtractions

LEMMA RefusedLeaves ==
    ASSUME StoreOK, NEW r \in Runs, NEW js, NEW xs, NEW n \in Nat,
           Refused(r, js, xs, n)
    PROVE  Others(r) /\ (Holds(r, js, xs, n) \/ Holds(r, {}, {}, 0))
  <1>1. UNCHANGED <<judgments, extractions, runs>>
    BY DEF Refused, verdicts
  <1>2. /\ pend \in [Runs -> Pend] /\ pend[r].calls \in Nat
        /\ tx \in [Runs -> {"none", "open", "shared", "reserved", "pending"}]
    BY PendType DEF StoreOK
  <1>3. CASE /\ tx' = [tx EXCEPT ![r] = AfterRefusedWrite(r)]
             /\ UNCHANGED pend
    <2>1. tx'[r] \in {tx[r], "open"} /\ (Writes(tx[r]) => Writes(tx'[r]))
      BY <1>2, <1>3 DEF AfterRefusedWrite, Writes
    <2>2. Others(r)
      BY <1>1, <1>2, <1>3 DEF Others
    <2> QED BY <1>1, <1>2, <1>3, <2>1, <2>2 DEF Holds
  <1>4. CASE /\ MayWrite(r)
             /\ tx' = [tx EXCEPT ![r] = "pending"]
             /\ pend' = [pend EXCEPT ![r] = [judgments   |-> @.judgments \cup js,
                                             extractions |-> @.extractions \cup xs,
                                             calls       |-> @.calls + n,
                                             landed      |-> @.landed]]
    <2>1. /\ pend'[r].judgments = pend[r].judgments \cup js
          /\ pend'[r].extractions = pend[r].extractions \cup xs
          /\ pend'[r].calls = pend[r].calls + n
      BY <1>2, <1>4
    <2>2. Writes(tx'[r])
      BY <1>2, <1>4 DEF Writes
    <2>3. Others(r)
      BY <1>1, <1>2, <1>4 DEF Others
    <2> QED BY <1>1, <1>4, <2>1, <2>2, <2>3 DEF Holds
  <1> QED BY <1>3, <1>4 DEF Refused

LEMMA BrokenLeaves ==
    ASSUME StoreOK, NEW r \in Runs, NEW xs, Broken(r, xs)
    PROVE  Others(r) /\ Holds(r, {}, xs, 0)
  <1>1. UNCHANGED <<judgments, extractions, runs>>
    BY DEF Broken, verdicts
  <1>2. /\ pend \in [Runs -> Pend] /\ pend[r] \in Pend
        /\ tx \in [Runs -> {"none", "open", "shared", "reserved", "pending"}]
    BY DEF StoreOK
  <1>3. /\ MayWrite(r)
        /\ tx' = [tx EXCEPT ![r] = "reserved"]
        /\ pend' = [pend EXCEPT ![r] = [pend[r] EXCEPT !.extractions = @ \cup xs]]
    BY <1>2 DEF Broken
  <1>4. /\ pend'[r].judgments = pend[r].judgments
        /\ pend'[r].extractions = pend[r].extractions \cup xs
        /\ pend'[r].calls = pend[r].calls /\ pend[r].calls \in Nat
    BY <1>2, <1>3 DEF Pend
  <1>5. Writes(tx'[r])
    BY <1>2, <1>3 DEF Writes
  <1>6. Others(r)
    BY <1>1, <1>2, <1>3 DEF Others
  <1> QED BY <1>1, <1>3, <1>4, <1>5, <1>6 DEF Holds

\* What changes no row and no lock, or reads.
LEMMA IdleLeaves ==
    ASSUME StoreOK, NEW r \in Runs, UNCHANGED <<judgments, extractions, runs, pend>>,
           tx' = tx \/ tx' = [tx EXCEPT ![r] = AfterRead(r)]
    PROVE  Others(r) /\ Holds(r, {}, {}, 0)
  <1>1. pend[r].calls \in Nat /\ tx \in [Runs -> {"none", "open", "shared", "reserved", "pending"}]
    BY PendType DEF StoreOK
  <1>2. tx'[r] \in {tx[r], "shared"} /\ (Writes(tx[r]) => Writes(tx'[r]))
    BY <1>1 DEF AfterRead, Writes
  <1>3. Others(r)
    BY <1>1 DEF Others
  <1> QED BY <1>1, <1>2, <1>3 DEF Holds

LEMMA CloseLeaves ==
    ASSUME StoreOK, NEW r \in Runs, Close(r)
    PROVE  Others(r) /\ Commits(r, {}, {}, 0)
  <1>1. /\ judgments' = judgments \cup pend[r].judgments
        /\ extractions' = extractions \cup pend[r].extractions
        /\ runs'[r].calls = runs[r].calls + pend[r].calls
        /\ pend' = [pend EXCEPT ![r] = NoPend]
        /\ tx' = [tx EXCEPT ![r] = "none"]
        /\ MayWrite(r)
    BY DEF Close, StoreOK
  <1>2. runs[r].calls + pend[r].calls = runs[r].calls + pend[r].calls + 0
    BY PendType DEF StoreOK, RunRow
  <1>3. Others(r)
    BY <1>1 DEF Close, Others, StoreOK
  <1> QED BY <1>1, <1>2, <1>3 DEF Commits, SeenJudgments, SeenExtractions, StoreOK

LEMMA DroppedLeaves ==
    ASSUME StoreOK, NEW r \in Runs, pc \in [Runs -> Labels], Dropped(r)
    PROVE  Others(r) /\ Drops(r)
  BY DEF Dropped, Others, Drops, StoreOK, Goto, verdicts

\* The refused commit of an article keeps the lock, and no other row.
LEMMA LandRefusedLeaves ==
    ASSUME StoreOK, NEW r \in Runs, NEW a \in Articles, LandRefused(r, a)
    PROVE  Others(r) /\ Holds(r, {}, {}, 0)
  <1>1. UNCHANGED <<judgments, extractions, runs>>
    BY DEF LandRefused, verdicts
  <1>2. /\ pend \in [Runs -> Pend] /\ pend[r] \in Pend
        /\ tx \in [Runs -> {"none", "open", "shared", "reserved", "pending"}]
    BY DEF StoreOK
  <1>3. /\ MayWrite(r)
        /\ tx' = [tx EXCEPT ![r] = "pending"]
        /\ pend' = [pend EXCEPT ![r] = [pend[r] EXCEPT !.landed = a]]
    BY <1>2 DEF LandRefused
  <1>4. /\ pend'[r].judgments = pend[r].judgments
        /\ pend'[r].extractions = pend[r].extractions
        /\ pend'[r].calls = pend[r].calls /\ pend[r].calls \in Nat
    BY <1>2, <1>3 DEF Pend
  <1>5. Writes(tx'[r])
    BY <1>2, <1>3 DEF Writes
  <1>6. Others(r)
    BY <1>1, <1>2, <1>3 DEF Others
  <1> QED BY <1>1, <1>3, <1>4, <1>5, <1>6 DEF Holds

LEMMA StepLeaves ==
    ASSUME Typed, NEW r \in Runs, Step(r)
    PROVE  \E js \in SUBSET JudgmentRow, xs \in SUBSET ExtractionRow, n \in {0, 1} :
              Writing(r, js, xs, n)
  <1> DEFINE Nothing(n) == Leaves(r, {}, {}, n) /\ pc'[r] \notin Paid
  <1>0. StoreOK /\ pc \in [Runs -> Labels]
    BY DEF Typed, LocalOK
  <1>1. CASE \/ \E a \in Articles : Land(r, a)
             \/ Zone(r) \/ ReadRefused(r) \/ Skip(r) \/ Write(r) \/ WriteFails(r)
             \/ Select(r) \/ Take(r) \/ TakePurged(r) \/ List(r)
             \/ \E c \in draft[r] : ReadVerdict(r, c) \/ ReadBody(r, c)
    <2>1. /\ UNCHANGED <<judgments, extractions, runs, pend>>
          /\ tx' = tx \/ tx' = [tx EXCEPT ![r] = AfterRead(r)]
          /\ pc'[r] \notin Paid
      BY <1>0, <1>1 DEF Land, Zone, ReadRefused, Skip, Write, WriteFails, Select, Take,
         TakePurged, List, ReadVerdict, ReadBody, Polling, Goto, Fail, Paid, verdicts
    <2>2. Nothing(0)
      BY <1>0, <2>1, IdleLeaves DEF Leaves
    <2> QED BY <2>2 DEF Writing
  <1>2. CASE PollRefused(r)
    <2>1. Refused(r, {}, {}, 0) /\ pc'[r] \notin Paid
      BY <1>0, <1>2 DEF PollRefused, Goto, Fail, Paid
    <2>2. Nothing(0)
      BY <1>0, <2>1, RefusedLeaves DEF Leaves
    <2> QED BY <2>2 DEF Writing
  <1>3. CASE Pay(r)
    <2>1. Stored(r, {}, {}, 1) /\ pc[r] \notin Paid
      BY <1>3 DEF Pay, Paid
    <2>2. Leaves(r, {}, {}, 1) /\ Commits(r, {}, {}, 1)
      BY <1>0, <2>1, StoredLeaves DEF Leaves
    <2> QED BY <2>1, <2>2 DEF Writing
  <1>4. CASE PayRefused(r)
    <2>1. pc'[r] \notin Paid
      BY <1>0, <1>4 DEF PayRefused, Goto, Paid
    <2>2. CASE MayRead(r)
      <3>1. Refused(r, {}, {}, 1)
        BY <1>4, <2>2 DEF PayRefused
      <3>2. Nothing(0) \/ Nothing(1)
        BY <1>0, <2>1, <3>1, RefusedLeaves DEF Leaves
      <3> QED BY <3>2 DEF Writing
    <2>3. CASE ~MayRead(r)
      <3>1. UNCHANGED <<judgments, extractions, runs, pend, tx>>
        BY <1>4, <2>3 DEF PayRefused, verdicts
      <3>2. Nothing(0)
        BY <1>0, <2>1, <3>1, IdleLeaves DEF Leaves
      <3> QED BY <3>2 DEF Writing
    <2> QED BY <2>2, <2>3
  <1>5. ASSUME NEW ok \in BOOLEAN, Judge(r, ok) \/ JudgeRefused(r, ok)
        PROVE  \E js \in SUBSET JudgmentRow, xs \in SUBSET ExtractionRow, n \in {0, 1} :
                  Writing(r, js, xs, n)
    <2> DEFINE j == Judgment(r, ok)
    <2>1. pc[r] = "verdict" /\ pc'[r] \notin Paid
      BY <1>0, <1>5 DEF Judge, JudgeRefused, Goto, AfterVerdict, Paid
    <2>2. j \in JudgmentRow
      BY <2>1, JudgmentType
    <2>3. Stored(r, {j}, {}, 0) \/ Refused(r, {j}, {}, 0)
      BY <1>5 DEF Judge, JudgeRefused
    <2>4. Leaves(r, {j}, {}, 0) \/ Leaves(r, {}, {}, 0)
      <3> HIDE DEF j
      <3> QED BY <1>0, <2>3, StoredLeaves, RefusedLeaves DEF Leaves
    <2>5. Writing(r, {j}, {}, 0) \/ Writing(r, {}, {}, 0)
      BY <2>1, <2>4 DEF Writing
    <2> HIDE DEF j
    <2> QED BY <2>2, <2>5
  <1>6. ASSUME NEW body \in Bodies,
               Extract(r, body) \/ ExtractRefused(r, body) \/ ExtractBreaks(r, body)
        PROVE  \E js \in SUBSET JudgmentRow, xs \in SUBSET ExtractionRow, n \in {0, 1} :
                  Writing(r, js, xs, n)
    <2>1. pc[r] = "store" /\ pc'[r] \notin Paid
      BY <1>0, <1>6 DEF Extract, ExtractRefused, ExtractBreaks, Goto, Paid
    <2>2. PICK raised \in BOOLEAN :
             LET x == Extraction(r, body, raised)
             IN  \/ Stored(r, {}, {x}, 0) \/ Refused(r, {}, {x}, 0) \/ Broken(r, {x})
      BY <1>6 DEF Extract, ExtractRefused, ExtractBreaks
    <2> DEFINE x == Extraction(r, body, raised)
    <2>3. x \in ExtractionRow
      BY <2>1, GateAssumption, ExtractionType
    <2>4. Leaves(r, {}, {x}, 0) \/ Leaves(r, {}, {}, 0)
      <3>1. Stored(r, {}, {x}, 0) \/ Refused(r, {}, {x}, 0) \/ Broken(r, {x})
        BY <2>2
      <3> HIDE DEF x
      <3> QED BY <1>0, <3>1, StoredLeaves, RefusedLeaves, BrokenLeaves DEF Leaves
    <2>5. Writing(r, {}, {x}, 0) \/ Writing(r, {}, {}, 0)
      BY <2>1, <2>4 DEF Writing
    <2> HIDE DEF x
    <2> QED BY <2>3, <2>5
  <1>7. CASE InsertOrphan(r)
    <2>1. Broken(r, {}) /\ pc'[r] \notin Paid
      BY <1>0, <1>7 DEF InsertOrphan, Goto, Paid
    <2>2. Nothing(0)
      BY <1>0, <2>1, BrokenLeaves DEF Leaves
    <2> QED BY <2>2 DEF Writing
  <1>8. CASE Prune(r)
    <2>1. /\ Stored(r, {}, {}, 0) \/ Refused(r, {}, {}, 0)
          /\ pc'[r] \notin Paid
      BY <1>0, <1>8 DEF Prune, Goto, Fail, Paid
    <2>2. Nothing(0)
      BY <1>0, <2>1, StoredLeaves, RefusedLeaves DEF Leaves
    <2> QED BY <2>2 DEF Writing
  <1>9. CASE Close(r) \/ CloseRefused(r) \/ ZoneRefused(r)
    <2>1. Close(r) \/ Dropped(r)
      BY <1>9 DEF CloseRefused, ZoneRefused
    <2>2. pc'[r] \notin Paid
      BY <1>0, <2>1 DEF Close, Dropped, Goto, Paid
    <2>3. Nothing(0)
      BY <1>0, <2>1, <2>2, CloseLeaves, DroppedLeaves DEF Leaves
    <2> QED BY <2>3 DEF Writing
  <1>10. ASSUME NEW a \in Articles, LandRefused(r, a)
         PROVE  Nothing(0)
    <2>1. pc'[r] \notin Paid
      BY <1>0, <1>10 DEF LandRefused, Fail, Goto, Paid
    <2> QED BY <1>0, <1>10, <2>1, LandRefusedLeaves DEF Leaves
  <1>11. Nothing(0) => Writing(r, {}, {}, 0)
    BY DEF Writing
  <1> HIDE DEF Nothing
  <1> QED BY <1>1, <1>2, <1>3, <1>4, <1>5, <1>6, <1>7, <1>8, <1>9, <1>10, <1>11 DEF Step

\* What a run is about to write is its own.
LEMMA WrittenRows ==
    ASSUME NEW r \in Runs, NEW js, NEW xs, NEW n, Writing(r, js, xs, n)
    PROVE  /\ \A j \in js : j.run = r
           /\ \A x \in xs : x.run = r
           /\ js = {} \/ (xs = {} /\ pc[r] = "verdict" /\ \E j : js = {j})
           /\ xs = {} \/ (js = {} /\ pc[r] = "store" /\ \E x : xs = {x})
  <1>1. /\ \A ok : Judgment(r, ok).run = r
        /\ \A body, raised : Extraction(r, body, raised).run = r
    BY DEF Judgment, Extraction
  <1> QED BY <1>1, Zenon DEF Writing

\* The row of a run keeps its status until the run is done.
LEMMA StepStatus ==
    ASSUME Typed, NEW r \in Runs, Step(r)
    PROVE  /\ pc'[r] # "done" => runs'[r].status = runs[r].status
           /\ \A q \in Runs \ {r} : runs'[q] = runs[q]
  <1>1. runs \in [Runs -> RunRow] /\ pc \in [Runs -> Labels]
    BY DEF Typed, StoreOK, LocalOK
  <1>2. CASE UNCHANGED runs
    BY <1>2
  <1>3. ASSUME NEW js, NEW xs, NEW n, Stored(r, js, xs, n)
        PROVE  /\ runs'[r].status = runs[r].status
               /\ \A q \in Runs \ {r} : runs'[q] = runs[q]
    BY <1>1, <1>3 DEF Stored, RunRow
  <1>4. CASE Close(r)
    BY <1>1, <1>4 DEF Close, Goto
  <1>5. \/ UNCHANGED runs \/ Close(r)
        \/ \E js, xs, n : Stored(r, js, xs, n)
    BY DEF Step, Zone, ZoneRefused, Dropped, Land, LandRefused, PollRefused, Select,
       ReadRefused, Take, TakePurged, Pay, PayRefused, Skip, Judge, JudgeRefused,
       Extract, ExtractRefused, ExtractBreaks, InsertOrphan, List, ReadVerdict,
       ReadBody, Write, WriteFails, Prune, CloseRefused, Refused, Broken
  <1> QED BY <1>2, <1>3, <1>4, <1>5

(***************************************************************************)
(* Locks and batches.                                                      *)
(***************************************************************************)

\* Uncommitted extractions are their run's own, too.
OwnSummaries == \A r \in Runs : \A x \in pend[r].extractions : x.run = r

\* Nothing is uncommitted but under the write lock, which one connection holds
\* at a time, and a run that has ended holds nothing.
PendLocked == \A r \in Runs : pend[r] # NoPend => Writes(tx[r])
OneWriter  == \A q, r \in Runs : Writes(tx[q]) /\ Writes(tx[r]) => q = r
LiveLocks  == \A r \in Runs : tx[r] # "none" => Live(r)

\* The row of a run says "running" as long as it runs.
Running == \A r \in Runs : Live(r) => runs[r].status = "running"

\* An article whose commit was refused waits for its failed run to close, and its
\* source cannot be purged meanwhile.
Landing ==
    \A r \in Runs : pend[r].landed # Null =>
        pc[r] = "close" /\ failed[r] /\ SourceOf[pend[r].landed] \in sources

Locks == OwnSummaries /\ PendLocked /\ OneWriter /\ LiveLocks /\ Running /\ Landing

\* A step that touches neither rows nor locks, nor ends or starts a run.
LEMMA LocksKept ==
    ASSUME Locks, UNCHANGED <<pend, tx, pc, runs, failed>>,
           sources' = sources \/ \A r \in Runs : pend[r] = NoPend
    PROVE  Locks'
  <1>1. Landing'
    BY NoPendIs DEF Locks, Landing
  <1> QED BY <1>1 DEF Locks, OwnSummaries, PendLocked, OneWriter, LiveLocks, Running, Live

\* How an article comes to wait, and how long.
LEMMA StepLanding ==
    ASSUME Typed, NEW r \in Runs, Step(r)
    PROVE  /\ \/ pend'[r].landed \in {pend[r].landed, Null} /\ pc[r] # "close"
              \/ pend'[r].landed = Null
              \/ \E a \in Articles : LandRefused(r, a) /\ pend'[r].landed = a
           /\ sources' = sources
           /\ \A q \in Runs \ {r} : failed'[q] = failed[q] /\ pend'[q] = pend[q]
  <1>1. /\ pend \in [Runs -> Pend] /\ pend[r] \in Pend
        /\ failed \in [Runs -> BOOLEAN]
    BY DEF Typed, StoreOK, LocalOK
  <1>2. /\ sources' = sources
        /\ \A q \in Runs \ {r} : failed'[q] = failed[q]
    <2>1. sources' = sources
      BY StepItems
    <2>2. failed' = failed \/ failed' = [failed EXCEPT ![r] = TRUE]
      BY DEF Step, Zone, ZoneRefused, Dropped, Land, LandRefused, PollRefused, Select,
         ReadRefused, Take, TakePurged, Pay, PayRefused, Skip, Judge, JudgeRefused,
         Extract, ExtractRefused, ExtractBreaks, InsertOrphan, List, ReadVerdict,
         ReadBody, Write, WriteFails, Prune, Close, CloseRefused, Fail, local
    <2> QED BY <1>1, <2>1, <2>2
  <1>3. \A q \in Runs \ {r} : pend'[q] = pend[q]
    <2>1. PICK js, xs, n : Writing(r, js, xs, n)
      BY StepLeaves
    <2> QED BY <2>1 DEF Writing, Leaves, Others
  <1>4. CASE pend'[r] = NoPend
    BY <1>2, <1>3, <1>4, NoPendIs
  <1>5. ASSUME NEW a \in Articles, LandRefused(r, a)
        PROVE  pend'[r].landed = a
    BY <1>1, <1>5 DEF LandRefused, Pend
  <1>6. ASSUME NEW js, NEW xs, NEW n, Refused(r, js, xs, n)
        PROVE  pend'[r].landed = pend[r].landed
    BY <1>1, <1>6 DEF Refused
  <1>7. ASSUME NEW xs, Broken(r, xs)
        PROVE  pend'[r].landed = pend[r].landed
    <2>1. pend' = [pend EXCEPT ![r] = [pend[r] EXCEPT !.extractions = @ \cup xs]]
      BY <1>1, <1>7 DEF Broken
    <2> QED BY <1>1, <2>1 DEF Pend
  <1>8. ASSUME NEW js, NEW xs, NEW n, Stored(r, js, xs, n)
        PROVE  pend'[r] = NoPend
    BY <1>1, <1>8 DEF Stored
  <1>9. CASE Close(r) \/ CloseRefused(r) \/ ZoneRefused(r)
    <2>1. pend' = [pend EXCEPT ![r] = NoPend]
      BY <1>9 DEF Close, CloseRefused, ZoneRefused, Dropped
    <2>2. pend'[r] = NoPend
      BY <1>1, <2>1
    <2> QED BY <1>4, <2>2
  <1>10. CASE /\ ~(Close(r) \/ CloseRefused(r) \/ ZoneRefused(r))
              /\ ~\E a \in Articles : LandRefused(r, a)
    <2>1. pc[r] # "close"
      BY <1>10 DEF Step, Zone, Land, PollRefused, Select, ReadRefused, Take, TakePurged,
         Pay, PayRefused, Skip, Judge, JudgeRefused, Extract, ExtractRefused,
         ExtractBreaks, InsertOrphan, List, ReadVerdict, ReadBody, Write, WriteFails,
         Prune, Polling, Composed
    <2>2. \/ pend' = pend
          \/ \E js, xs, n : Refused(r, js, xs, n)
          \/ \E xs : Broken(r, xs)
          \/ \E js, xs, n : Stored(r, js, xs, n)
      BY <1>10 DEF Step, Zone, Land, PollRefused, Select, ReadRefused, Take, TakePurged,
         Pay, PayRefused, Skip, Judge, JudgeRefused, Extract, ExtractRefused,
         ExtractBreaks, InsertOrphan, List, ReadVerdict, ReadBody, Write, WriteFails,
         Prune
    <2>3. pend'[r].landed \in {pend[r].landed, Null}
      BY <1>6, <1>7, <1>8, <2>2, NoPendIs
    <2> QED BY <1>2, <1>3, <2>1, <2>3
  <1> QED BY <1>2, <1>3, <1>5, <1>9, <1>10

LEMMA LocksStep ==
    ASSUME Inv, Locks, NEW r \in Runs, Step(r)
    PROVE  Locks'
  <1>1. Typed /\ Typed'
    BY TypedNext DEF Inv, Next
  <1>2. PICK js \in SUBSET JudgmentRow, xs \in SUBSET ExtractionRow, n \in {0, 1} :
            Writing(r, js, xs, n)
    BY <1>1, StepLeaves
  <1>3. /\ Others(r)
        /\ \/ Commits(r, js, xs, n)
           \/ Holds(r, js, xs, n)
           \/ Drops(r) /\ js = {} /\ xs = {} /\ n = 0
    BY <1>2 DEF Writing, Leaves
  <1>4. /\ Live(r) /\ pc'[r] # "idle"
        /\ \A q \in Runs \ {r} : pc'[q] = pc[q]
    BY <1>1, StepLocal
  <1>5. OwnSummaries'
    <2>1. \A x \in xs : x.run = r
      BY <1>2, WrittenRows
    <2>2. \A x \in pend'[r].extractions : x.run = r
      BY <1>3, <2>1, NoPendIs DEF Commits, Holds, Drops, Locks, OwnSummaries
    <2> QED BY <1>3, <2>2 DEF Others, Locks, OwnSummaries
  <1>6. PendLocked'
    BY <1>3 DEF Others, Commits, Holds, Drops, Locks, PendLocked
  <1>7. OneWriter'
    <2>1. MayWrite(r) \/ (Writes(tx'[r]) => Writes(tx[r]))
      BY <1>3 DEF Commits, Holds, Drops, Writes
    <2> QED BY <1>3, <2>1 DEF Others, MayWrite, Locks, OneWriter
  <1>8. pc'[r] = "done" => tx'[r] = "none" /\ pend'[r] = NoPend
    <2> SUFFICES ASSUME pc'[r] = "done"
                 PROVE  tx'[r] = "none" /\ pend'[r] = NoPend
      OBVIOUS
    <2>1. Close(r) \/ CloseRefused(r) \/ ZoneRefused(r)
      BY <1>1, StepEnds
    <2> QED BY <1>1, <2>1 DEF Close, CloseRefused, ZoneRefused, Dropped, Typed, StoreOK
  <1>9. LiveLocks'
    BY <1>3, <1>4, <1>8 DEF Others, Live, Locks, LiveLocks
  <1>10. Running'
    BY <1>1, <1>4, StepStatus DEF Live, Locks, Running
  <1>11. Landing'
    <2> SUFFICES ASSUME NEW q \in Runs, pend'[q].landed # Null
                 PROVE  /\ pc'[q] = "close" /\ failed'[q]
                        /\ SourceOf[pend'[q].landed] \in sources'
      BY DEF Landing
    <2>1. CASE q # r
      BY <1>1, <1>4, <2>1, StepLanding DEF Locks, Landing
    <2>2. CASE q = r
      <3>1. PICK a \in Articles : LandRefused(r, a) /\ pend'[r].landed = a
        BY <1>1, <2>2, StepLanding DEF Locks, Landing
      <3>2. /\ pc'[r] = "close" /\ failed'[r] /\ SourceOf[a] \in enabled
        BY <1>1, <3>1 DEF LandRefused, Fail, Goto, New, Typed, LocalOK
      <3>3. enabled \subseteq sources /\ sources' = sources
        BY <1>1, StepLanding DEF Typed, TablesOK
      <3> QED BY <2>2, <3>1, <3>2, <3>3
    <2> QED BY <2>1, <2>2
  <1> QED BY <1>5, <1>6, <1>7, <1>9, <1>10, <1>11 DEF Locks

LEMMA LocksInit == Init => Locks
  BY NoPendIs DEF Init, Locks, OwnSummaries, PendLocked, OneWriter, LiveLocks, Running,
     Landing, Live, Writes

LEMMA LocksNext ==
    ASSUME Inv, Locks, [Next]_vars
    PROVE  Locks'
  <1>1. ASSUME NEW r \in Runs, Step(r)
        PROVE  Locks'
    BY <1>1, LocksStep
  <1>2. ASSUME NEW r \in Runs, NEW k \in Kinds, Start(r, k)
        PROVE  Locks'
    <2>1. /\ UNCHANGED <<pend, tx, sources, failed>>
          /\ pc[r] = "idle"
          /\ \A q \in Runs \ {r} : pc'[q] = pc[q] /\ runs'[q] = runs[q]
          /\ runs'[r].status = "running"
      BY <1>2 DEF Start, Goto, tables, Inv, Typed, StoreOK, LocalOK, RunRow
    <2>2. tx[r] = "none"
      BY <2>1 DEF Locks, LiveLocks, Live
    <2> QED BY <2>1, <2>2
            DEF Locks, OwnSummaries, PendLocked, OneWriter, LiveLocks, Running, Landing,
                Live
  <1>3. CASE Crash
    <2>1. \A r \in Runs : /\ ~Live(r)'
                           /\ tx'[r] = "none"
                           /\ pend'[r] = NoPend
      BY <1>3 DEF Crash, Live
    <2> QED BY <2>1, NoPendIs
            DEF Locks, OwnSummaries, PendLocked, OneWriter, LiveLocks, Running, Landing,
                Writes
  <1>4. CASE SavePrompt \/ \E s \in Sources : SetEnabled(s)
    BY <1>4, LocksKept DEF SavePrompt, SetEnabled, tables, local
  <1>5. ASSUME NEW s \in Sources, Purge(s)
        PROVE  Locks'
    <2>1. \A r \in Runs : pend[r] = NoPend
      BY <1>5 DEF Purge, RequestMayWrite, Locks, PendLocked
    <2> QED BY <1>5, <2>1, LocksKept DEF Purge, local
  <1>6. CASE UNCHANGED vars
    BY <1>6, LocksKept DEF vars, tables, local
  <1> QED BY <1>1, <1>2, <1>3, <1>4, <1>5, <1>6 DEF Next

(***************************************************************************)
(* Every verdict and every extraction was paid for.                        *)
(*                                                                         *)
(* LedgerCovers speaks of committed rows and recorded calls.  Its proof    *)
(* keeps a second account, which counts what the run's connection has not  *)
(* committed on both sides, and, between a call and the row it pays for,   *)
(* the one call in hand.                                                   *)
(***************************************************************************)

Own(S, r) == {x \in S : x.run = r}
Slack(r)  == IF pc[r] \in Paid THEN 1 ELSE 0

\* Rows of run r in J and X, and what is in hand, do not exceed the calls.
Covers(J, X, r, slack, calls) ==
    Cardinality(Own(J, r)) + Cardinality(Own(X, r)) + slack <= calls

Ledger ==
    \A r \in Runs :
        /\ Covers(judgments, extractions, r, Slack(r), runs[r].calls)
        /\ Covers(SeenJudgments(r), SeenExtractions(r), r, Slack(r),
                  runs[r].calls + pend[r].calls)

\* Rows that are not r's count for nothing, and one row for at most one.
LEMMA OwnBounds ==
    ASSUME NEW S, IsFiniteSet(S), NEW r
    PROVE  /\ IsFiniteSet(Own(S, r)) /\ Cardinality(Own(S, r)) \in Nat
           /\ \A T \in SUBSET S : Cardinality(Own(T, r)) <= Cardinality(Own(S, r))
           /\ \A T : (\A x \in T : x.run # r) => Own(S \cup T, r) = Own(S, r)
           /\ \A x : /\ Cardinality(Own(S \cup {x}, r)) <= Cardinality(Own(S, r)) + 1
                     /\ Cardinality(Own(S \cup {x}, r)) \in Nat
           /\ \A x : x.run = r /\ x \notin S =>
                 Cardinality(Own(S \cup {x}, r)) = Cardinality(Own(S, r)) + 1
  <1>1. IsFiniteSet(Own(S, r)) /\ Cardinality(Own(S, r)) \in Nat
    BY FS_Subset, FS_CardinalityType DEF Own
  <1>2. ASSUME NEW T \in SUBSET S
        PROVE  Cardinality(Own(T, r)) <= Cardinality(Own(S, r))
    <2>1. Own(T, r) \in SUBSET Own(S, r)
      BY DEF Own
    <2> QED BY <1>1, <2>1, FS_Subset
  <1>3. ASSUME NEW T, \A x \in T : x.run # r
        PROVE  Own(S \cup T, r) = Own(S, r)
    BY <1>3 DEF Own
  <1>4. ASSUME NEW x
        PROVE  /\ Cardinality(Own(S \cup {x}, r)) <= Cardinality(Own(S, r)) + 1
               /\ Cardinality(Own(S \cup {x}, r)) \in Nat
               /\ x.run = r /\ x \notin S =>
                     Cardinality(Own(S \cup {x}, r)) = Cardinality(Own(S, r)) + 1
    <2>1. CASE x.run = r
      <3>1. Own(S \cup {x}, r) = Own(S, r) \cup {x}
        BY <2>1 DEF Own
      <3>2. x \in Own(S, r) => x \in S
        BY DEF Own
      <3>3. Cardinality(Own(S, r) \cup {x}) =
               IF x \in Own(S, r) THEN Cardinality(Own(S, r))
               ELSE Cardinality(Own(S, r)) + 1
        BY <1>1, FS_AddElement
      <3> QED BY <1>1, <2>1, <3>1, <3>2, <3>3
    <2>2. CASE x.run # r
      <3>1. Own(S \cup {x}, r) = Own(S, r)
        BY <2>2 DEF Own
      <3> QED BY <1>1, <2>2, <3>1
    <2> QED BY <2>1, <2>2
  <1> QED BY <1>1, <1>2, <1>3, <1>4

\* The accounts after a step, from those before it: nothing was written, ...
LEMMA CoversKept ==
    ASSUME NEW J, NEW X, IsFiniteSet(J), IsFiniteSet(X), NEW r,
           NEW slack \in {0, 1}, NEW calls \in Nat, NEW n \in {0, 1},
           Covers(J, X, r, slack, calls)
    PROVE  /\ Covers(J, X, r, 0, calls + n)
           /\ slack = 0 => Covers(J, X, r, 1, calls + 1)
  BY OwnBounds DEF Covers

\* ... or a row that a call in hand pays for.
LEMMA CoversRow ==
    ASSUME NEW J, NEW X, IsFiniteSet(J), IsFiniteSet(X), NEW r,
           NEW calls \in Nat, NEW n \in {0, 1}, NEW x,
           Covers(J, X, r, 1, calls)
    PROVE  /\ Covers(J \cup {x}, X, r, 0, calls + n)
           /\ Covers(J, X \cup {x}, r, 0, calls + n)
  <1>1. /\ Cardinality(Own(J, r)) \in Nat /\ Cardinality(Own(X, r)) \in Nat
        /\ Cardinality(Own(J \cup {x}, r)) \in Nat
        /\ Cardinality(Own(X \cup {x}, r)) \in Nat
        /\ Cardinality(Own(J \cup {x}, r)) <= Cardinality(Own(J, r)) + 1
        /\ Cardinality(Own(X \cup {x}, r)) <= Cardinality(Own(X, r)) + 1
    BY OwnBounds
  <1> QED BY <1>1 DEF Covers

\* What r's step makes of an account of r.
LEMMA CoversWritten ==
    ASSUME Typed, NEW r \in Runs, NEW js, NEW xs, NEW n, Writing(r, js, xs, n),
           NEW J, NEW X, IsFiniteSet(J), IsFiniteSet(X), NEW calls \in Nat,
           Covers(J, X, r, Slack(r), calls)
    PROVE  pc'[r] \notin Paid => Covers(J \cup js, X \cup xs, r, 0, calls + n)
  <1>1. /\ n \in {0, 1} /\ Slack(r) \in {0, 1}
        /\ js = {} \/ (xs = {} /\ pc[r] = "verdict" /\ \E j : js = {j})
        /\ xs = {} \/ (js = {} /\ pc[r] = "store" /\ \E x : xs = {x})
    BY WrittenRows DEF Writing, Slack
  <1>2. CASE js = {} /\ xs = {}
    <2>1. J \cup js = J /\ X \cup xs = X
      BY <1>2
    <2>2. Covers(J, X, r, 0, calls + n)
      BY <1>1, CoversKept
    <2> QED BY <2>1, <2>2
  <1>3. CASE js # {} \/ xs # {}
    <2>1. Covers(J, X, r, 1, calls)
      BY <1>1, <1>3 DEF Slack, Paid
    <2>2. CASE js # {}
      <3>1. PICK j : js = {j} /\ xs = {}
        BY <1>1, <2>2
      <3>2. Covers(J \cup {j}, X, r, 0, calls + n)
        BY <1>1, <2>1, CoversRow
      <3>3. J \cup js = J \cup {j} /\ X \cup xs = X
        BY <3>1
      <3> QED BY <3>2, <3>3
    <2>3. CASE xs # {}
      <3>1. PICK x : xs = {x} /\ js = {}
        BY <1>1, <2>3
      <3>2. Covers(J, X \cup {x}, r, 0, calls + n)
        BY <1>1, <2>1, CoversRow
      <3>3. X \cup xs = X \cup {x} /\ J \cup js = J
        BY <3>1
      <3> QED BY <3>2, <3>3
    <2> QED BY <1>3, <2>2, <2>3
  <1> QED BY <1>2, <1>3

LEMMA LedgerStep ==
    ASSUME Inv, Locks, Ledger, NEW r \in Runs, Step(r)
    PROVE  Ledger'
  <1>1. Typed /\ Typed'
    BY TypedNext DEF Inv, Next
  <1>2. PICK js \in SUBSET JudgmentRow, xs \in SUBSET ExtractionRow, n \in {0, 1} :
            Writing(r, js, xs, n)
    BY <1>1, StepLeaves
  <1>3. /\ Others(r)
        /\ \/ Commits(r, js, xs, n)
           \/ Holds(r, js, xs, n)
           \/ Drops(r) /\ js = {} /\ xs = {} /\ n = 0
    BY <1>2 DEF Writing, Leaves
  <1>4. /\ (\A j \in js : j.run = r) /\ \A x \in xs : x.run = r
        /\ pc'[r] \in Paid =>
              pc[r] \notin Paid /\ js = {} /\ xs = {} /\ Commits(r, {}, {}, 1)
    BY <1>2, WrittenRows DEF Writing
  <1>5. /\ IsFiniteSet(judgments) /\ IsFiniteSet(extractions)
        /\ IsFiniteSet(SeenJudgments(r)) /\ IsFiniteSet(SeenExtractions(r))
        /\ runs[r].calls \in Nat /\ pend[r].calls \in Nat
        /\ runs[r].calls + pend[r].calls \in Nat
    BY <1>1, SeenType, PendType DEF Typed, StoreOK, RunRow
  <1>6. ASSUME NEW q \in Runs \ {r}
        PROVE  /\ Covers(judgments', extractions', q, Slack(q)', runs'[q].calls)
               /\ Covers(SeenJudgments(q)', SeenExtractions(q)', q, Slack(q)',
                         runs'[q].calls + pend'[q].calls)
    <2>1. /\ runs'[q] = runs[q] /\ pend'[q] = pend[q] /\ Slack(q)' = Slack(q)
      BY <1>1, <1>3, StepLocal DEF Others, Slack
    <2>2. ASSUME NEW j, j.run = q
          PROVE  j \in judgments' <=> j \in judgments
      <3>1. \/ judgments' = judgments
            \/ judgments' = judgments \cup pend[r].judgments \cup js
        BY <1>3 DEF Commits, Holds, Drops, SeenJudgments
      <3>2. j \notin pend[r].judgments /\ j \notin js
        BY <1>4, <2>2 DEF Inv, OwnRows
      <3> QED BY <3>1, <3>2
    <2>3. ASSUME NEW x, x.run = q
          PROVE  x \in extractions' <=> x \in extractions
      <3>1. \/ extractions' = extractions
            \/ extractions' = extractions \cup pend[r].extractions \cup xs
        BY <1>3 DEF Commits, Holds, Drops, SeenExtractions
      <3>2. x \notin pend[r].extractions /\ x \notin xs
        BY <1>4, <2>3 DEF Locks, OwnSummaries
      <3> QED BY <3>1, <3>2
    <2>4. /\ Own(judgments', q) = Own(judgments, q)
          /\ Own(extractions', q) = Own(extractions, q)
          /\ Own(SeenJudgments(q)', q) = Own(SeenJudgments(q), q)
          /\ Own(SeenExtractions(q)', q) = Own(SeenExtractions(q), q)
      BY <2>1, <2>2, <2>3 DEF Own, SeenJudgments, SeenExtractions
    <2>5. /\ Covers(judgments, extractions, q, Slack(q), runs[q].calls)
          /\ Covers(SeenJudgments(q), SeenExtractions(q), q, Slack(q),
                    runs[q].calls + pend[q].calls)
      BY DEF Ledger
    <2> QED BY <2>1, <2>4, <2>5 DEF Covers
  <1> DEFINE Committed == Covers(judgments, extractions, r, Slack(r), runs[r].calls)
             Seen == Covers(SeenJudgments(r), SeenExtractions(r), r, Slack(r),
                            runs[r].calls + pend[r].calls)
  <1>7. Committed /\ Seen
    BY DEF Ledger
  <1>8. Committed' /\ Seen'
    <2>1. CASE pc'[r] \in Paid
      <3>1. /\ Commits(r, {}, {}, 1) /\ Slack(r) = 0 /\ Slack(r)' = 1
        BY <1>4, <2>1 DEF Slack
      <3>2. /\ judgments' = SeenJudgments(r) /\ SeenJudgments(r)' = SeenJudgments(r)
            /\ extractions' = SeenExtractions(r) /\ SeenExtractions(r)' = SeenExtractions(r)
            /\ runs'[r].calls = runs[r].calls + pend[r].calls + 1
            /\ runs'[r].calls + pend'[r].calls = runs[r].calls + pend[r].calls + 1
        BY <1>5, <3>1, NoPendIs DEF Commits, SeenJudgments, SeenExtractions
      <3>3. Covers(SeenJudgments(r), SeenExtractions(r), r, 1, runs[r].calls + pend[r].calls + 1)
        BY <1>5, <1>7, <3>1, CoversKept
      <3> QED BY <3>1, <3>2, <3>3
    <2>2. CASE pc'[r] \notin Paid
      <3>1. Slack(r)' = 0
        BY <2>2 DEF Slack
      <3>2. /\ Covers(SeenJudgments(r) \cup js, SeenExtractions(r) \cup xs, r, 0,
                      runs[r].calls + pend[r].calls + n)
        BY <1>1, <1>2, <1>5, <1>7, <2>2, CoversWritten
      <3>3. Covers(judgments, extractions, r, 0, runs[r].calls)
        <4>1. /\ Cardinality(Own(judgments, r)) \in Nat
              /\ Cardinality(Own(extractions, r)) \in Nat
              /\ Slack(r) \in {0, 1}
          BY <1>5, OwnBounds DEF Slack
        <4> QED BY <1>5, <1>7, <4>1 DEF Covers
      <3>4. CASE Commits(r, js, xs, n)
        <4>1. /\ judgments' = SeenJudgments(r) \cup js
              /\ SeenJudgments(r)' = SeenJudgments(r) \cup js
              /\ extractions' = SeenExtractions(r) \cup xs
              /\ SeenExtractions(r)' = SeenExtractions(r) \cup xs
              /\ runs'[r].calls = runs[r].calls + pend[r].calls + n
              /\ runs'[r].calls + pend'[r].calls = runs[r].calls + pend[r].calls + n
          BY <1>5, <3>4, NoPendIs DEF Commits, SeenJudgments, SeenExtractions
        <4> QED BY <3>1, <3>2, <4>1
      <3>5. CASE Holds(r, js, xs, n)
        <4>1. /\ judgments' = judgments /\ extractions' = extractions
              /\ SeenJudgments(r)' = SeenJudgments(r) \cup js
              /\ SeenExtractions(r)' = SeenExtractions(r) \cup xs
              /\ runs'[r].calls = runs[r].calls
              /\ runs'[r].calls + pend'[r].calls = runs[r].calls + pend[r].calls + n
          BY <1>5, <3>5 DEF Holds, SeenJudgments, SeenExtractions
        <4> QED BY <3>1, <3>2, <3>3, <4>1
      <3>6. CASE Drops(r)
        <4>1. /\ judgments' = judgments /\ extractions' = extractions
              /\ SeenJudgments(r)' = judgments /\ SeenExtractions(r)' = extractions
              /\ runs'[r].calls = runs[r].calls
              /\ runs'[r].calls + pend'[r].calls = runs[r].calls
          BY <1>5, <3>6, NoPendIs DEF Drops, SeenJudgments, SeenExtractions
        <4> QED BY <3>1, <3>3, <4>1
      <3> QED BY <1>3, <3>4, <3>5, <3>6
    <2> QED BY <2>1, <2>2
  <1> QED BY <1>6, <1>8 DEF Ledger

LEMMA LedgerNext ==
    ASSUME Inv, Locks, Ledger, [Next]_vars
    PROVE  Ledger'
  <1>1. ASSUME NEW r \in Runs, Step(r)
        PROVE  Ledger'
    BY <1>1, LedgerStep
  <1>2. CASE /\ UNCHANGED <<judgments, extractions, pend>>
             /\ \A q \in Runs : Slack(q)' = Slack(q) /\ runs'[q].calls = runs[q].calls
    BY <1>2 DEF Ledger, SeenJudgments, SeenExtractions
  <1>3. ASSUME NEW r \in Runs, NEW k \in Kinds, Start(r, k)
        PROVE  Ledger'
    BY <1>2, <1>3 DEF Start, Goto, Slack, Paid, Inv, Typed, StoreOK, LocalOK, RunRow, verdicts
  <1>4. ASSUME NEW s \in Sources, Purge(s)
        PROVE  Ledger'
    <2> SUFFICES ASSUME NEW q \in Runs
                 PROVE  /\ Covers(judgments', extractions', q, Slack(q)', runs'[q].calls)
                        /\ Covers(SeenJudgments(q)', SeenExtractions(q)', q, Slack(q)',
                                  runs'[q].calls + pend'[q].calls)
      BY DEF Ledger
    <2>1. /\ judgments' \subseteq judgments /\ extractions' \subseteq extractions
          /\ UNCHANGED <<pend, runs, pc>>
      BY <1>4 DEF Purge
    <2>2. /\ SeenJudgments(q)' \subseteq SeenJudgments(q)
          /\ SeenExtractions(q)' \subseteq SeenExtractions(q)
          /\ Slack(q)' = Slack(q) /\ Slack(q) \in {0, 1}
      BY <2>1 DEF SeenJudgments, SeenExtractions, Slack
    <2>3. /\ IsFiniteSet(judgments) /\ IsFiniteSet(extractions)
          /\ IsFiniteSet(SeenJudgments(q)) /\ IsFiniteSet(SeenExtractions(q))
          /\ runs[q].calls \in Nat /\ pend[q].calls \in Nat
      BY SeenType, PendType DEF Inv, Typed, StoreOK, RunRow
    <2>4. ASSUME NEW J, NEW X, IsFiniteSet(J), IsFiniteSet(X), NEW calls \in Nat,
                 NEW K \in SUBSET J, NEW Y \in SUBSET X,
                 Covers(J, X, q, Slack(q), calls)
          PROVE  Covers(K, Y, q, Slack(q), calls)
      <3>1. IsFiniteSet(K) /\ IsFiniteSet(Y)
        BY <2>4, FS_Subset
      <3>2. /\ Cardinality(Own(J, q)) \in Nat /\ Cardinality(Own(X, q)) \in Nat
            /\ Cardinality(Own(K, q)) \in Nat /\ Cardinality(Own(Y, q)) \in Nat
            /\ Cardinality(Own(K, q)) <= Cardinality(Own(J, q))
            /\ Cardinality(Own(Y, q)) <= Cardinality(Own(X, q))
        BY <2>4, <3>1, OwnBounds
      <3> QED BY <2>2, <2>4, <3>2 DEF Covers
    <2>5. Covers(judgments', extractions', q, Slack(q), runs[q].calls)
      BY <2>1, <2>3, <2>4 DEF Ledger
    <2>6. Covers(SeenJudgments(q)', SeenExtractions(q)', q, Slack(q),
                 runs[q].calls + pend[q].calls)
      <3>1. runs[q].calls + pend[q].calls \in Nat
        BY <2>3
      <3> QED BY <2>2, <2>3, <2>4, <3>1 DEF Ledger
    <2> QED BY <2>1, <2>2, <2>5, <2>6
  <1>5. CASE Crash
    <2> SUFFICES ASSUME NEW q \in Runs
                 PROVE  /\ Covers(judgments', extractions', q, Slack(q)', runs'[q].calls)
                        /\ Covers(SeenJudgments(q)', SeenExtractions(q)', q, Slack(q)',
                                  runs'[q].calls + pend'[q].calls)
      BY DEF Ledger
    <2>1. /\ UNCHANGED <<judgments, extractions, runs>>
          /\ pend'[q] = NoPend /\ Slack(q)' = 0
          /\ runs[q].calls \in Nat
      BY <1>5 DEF Crash, Live, Slack, Paid, verdicts, Inv, Typed, LocalOK, StoreOK, RunRow
    <2>2. /\ Cardinality(Own(judgments, q)) \in Nat
          /\ Cardinality(Own(extractions, q)) \in Nat
          /\ Slack(q) \in {0, 1}
      BY OwnBounds DEF Inv, Typed, StoreOK, Slack
    <2>3. Covers(judgments, extractions, q, 0, runs[q].calls)
      BY <2>1, <2>2 DEF Ledger, Covers
    <2>4. /\ SeenJudgments(q)' = judgments /\ SeenExtractions(q)' = extractions
          /\ runs'[q].calls + pend'[q].calls = runs[q].calls
      BY <2>1, NoPendIs DEF SeenJudgments, SeenExtractions
    <2> QED BY <2>1, <2>3, <2>4
  <1>6. CASE SavePrompt \/ \E s \in Sources : SetEnabled(s)
    BY <1>2, <1>6 DEF SavePrompt, SetEnabled, Slack, verdicts
  <1>7. CASE UNCHANGED vars
    BY <1>2, <1>7 DEF vars, Slack, verdicts
  <1> QED BY <1>1, <1>3, <1>4, <1>5, <1>6, <1>7 DEF Next

LEMMA LedgerInit == Init => Ledger
  <1> SUFFICES ASSUME Init, NEW r \in Runs
               PROVE  /\ Covers(judgments, extractions, r, Slack(r), runs[r].calls)
                      /\ Covers(SeenJudgments(r), SeenExtractions(r), r, Slack(r),
                                runs[r].calls + pend[r].calls)
    BY DEF Ledger
  <1>1. /\ judgments = {} /\ extractions = {}
        /\ SeenJudgments(r) = {} /\ SeenExtractions(r) = {}
        /\ runs[r].calls = 0 /\ pend[r].calls = 0 /\ Slack(r) = 0
    BY NoPendIs DEF Init, SeenJudgments, SeenExtractions, NoRow, Slack, Paid
  <1>2. Own({}, r) = {}
    BY DEF Own
  <1> QED BY <1>1, <1>2, FS_EmptySet DEF Covers

\* A run's ledger covers what it stored, for any number of runs and articles,
\* with commits refused, retried by a later one or lost, purges and crashes.
THEOREM LedgerCoversHolds == Spec => []LedgerCovers
  <1>1. Init => Inv /\ Locks /\ Ledger
    BY InvInit, LocksInit, LedgerInit
  <1>2. Inv /\ Locks /\ Ledger /\ [Next]_vars => (Inv /\ Locks /\ Ledger)'
    BY InvNext, LocksNext, LedgerNext
  <1>3. Inv /\ Locks /\ Ledger => LedgerCovers
    <2> SUFFICES ASSUME Inv, Ledger, NEW r \in Runs
                 PROVE  Cardinality(Own(judgments, r)) + Cardinality(Own(extractions, r))
                            <= runs[r].calls
      BY DEF LedgerCovers, Own
    <2>1. /\ Cardinality(Own(judgments, r)) \in Nat
          /\ Cardinality(Own(extractions, r)) \in Nat
          /\ Slack(r) \in {0, 1} /\ runs[r].calls \in Nat
      BY OwnBounds DEF Inv, Typed, StoreOK, RunRow, Slack
    <2> QED BY <2>1 DEF Ledger, Covers
  <1> QED BY <1>1, <1>2, <1>3, PTL DEF Spec

(***************************************************************************)
(* An extraction stands on a passing verdict of its run.                   *)
(*                                                                         *)
(* The invariant speaks of every extraction, committed or not, and of the  *)
(* item a run is extracting, from the moment it passes; a purge that takes  *)
(* that item leaves its mark, and waits for whatever is uncommitted.       *)
(***************************************************************************)

Summaries == extractions \cup UNION {pend[r].extractions : r \in Runs}

Founded(J, i, r, a) ==
    \E j \in J : j.item = i /\ j.run = r /\ j.article = a /\ j.passed

\* The item was purged while run r was at it.
Strayed(r, i) == <<r, i>> \in astray

\* Committed or not, and from the moment its item passes.
Foundation ==
    /\ \A x \in Summaries :
          Strayed(x.run, x.item) \/ Founded(judgments, x.item, x.run, x.article)
    /\ \A r \in Runs : pc[r] \in {"extract", "store"} =>
          Strayed(r, cur[r].item) \/ Founded(judgments, cur[r].item, r, cur[r].article)

\* Only a purge leaves its mark.
LEMMA StepMarks ==
    ASSUME NEW r \in Runs, Step(r)
    PROVE  astray' = astray
  BY DEF Step, Zone, ZoneRefused, Dropped, Land, LandRefused, PollRefused, Select,
     ReadRefused, Take, TakePurged, Pay, PayRefused, Skip, Judge, JudgeRefused, Extract,
     ExtractRefused, ExtractBreaks, InsertOrphan, List, ReadVerdict, ReadBody, Write,
     WriteFails, Prune, Close, CloseRefused, bounds

\* A run comes to extract from the verdict it has just committed.
LEMMA StepExtracts ==
    ASSUME Typed, NEW r \in Runs, Step(r), pc'[r] \in {"extract", "store"}
    PROVE  /\ cur'[r] = cur[r]
           /\ pc[r] \in {"extract", "store"} \/ Judge(r, TRUE)
  BY DEF Step, Zone, ZoneRefused, Dropped, Land, LandRefused, PollRefused, Select,
     ReadRefused, Take, TakePurged, Pay, PayRefused, Skip, Judge, JudgeRefused, Extract,
     ExtractRefused, ExtractBreaks, InsertOrphan, List, ReadVerdict, ReadBody, Write,
     WriteFails, Prune, Close, CloseRefused, Polling,
     local, Goto, Fail, AfterVerdict, Typed, LocalOK

\* A step of a run takes no committed row away.
LEMMA StepGrows ==
    ASSUME Typed, NEW r \in Runs, Step(r)
    PROVE  judgments \subseteq judgments' /\ extractions \subseteq extractions'
  <1>1. PICK js, xs, n : Writing(r, js, xs, n)
    BY StepLeaves
  <1> QED BY <1>1 DEF Writing, Leaves, Commits, Holds, Drops, SeenJudgments, SeenExtractions

LEMMA FoundationStep ==
    ASSUME Inv, Foundation, NEW r \in Runs, Step(r)
    PROVE  Foundation'
  <1>1. Typed
    BY DEF Inv
  <1>2. PICK js, xs, n : Writing(r, js, xs, n)
    BY <1>1, StepLeaves
  <1>3. /\ Others(r)
        /\ \/ Commits(r, js, xs, n)
           \/ Holds(r, js, xs, n)
           \/ Drops(r) /\ js = {} /\ xs = {} /\ n = 0
        /\ xs = {} \/ /\ pc[r] = "store"
                      /\ \E body, raised : xs = {Extraction(r, body, raised)}
    BY <1>2 DEF Writing, Leaves
  <1>4. /\ \A i, q, a : Founded(judgments, i, q, a) => Founded(judgments', i, q, a)
        /\ \A i, q : Strayed(q, i)' = Strayed(q, i)
    BY <1>1, StepGrows, StepMarks DEF Founded, Strayed
  <1>5. ASSUME NEW x \in Summaries'
        PROVE  Strayed(x.run, x.item)' \/ Founded(judgments', x.item, x.run, x.article)
    <2>1. x \in Summaries \/ x \in xs
      BY <1>3, NoPendIs DEF Summaries, Others, Commits, Holds, Drops, SeenExtractions
    <2>2. CASE x \in xs
      <3>1. /\ pc[r] = "store"
            /\ x.item = cur[r].item /\ x.run = r /\ x.article = cur[r].article
        <4>1. \A body, raised :
                 LET e == Extraction(r, body, raised)
                 IN  e.item = cur[r].item /\ e.run = r /\ e.article = cur[r].article
          BY DEF Extraction
        <4>2. PICK body, raised : x = Extraction(r, body, raised)
          BY <1>3, <2>2
        <4> QED BY <1>3, <2>2, <4>1, <4>2
      <3> QED BY <1>4, <3>1 DEF Foundation
    <2> QED BY <1>4, <2>1, <2>2 DEF Foundation
  <1>6. ASSUME NEW q \in Runs, pc'[q] \in {"extract", "store"}
        PROVE  \/ <<q, cur'[q].item>> \in astray'
               \/ Founded(judgments', cur'[q].item, q, cur'[q].article)
    <2>1. CASE q # r
      <3>1. pc'[q] = pc[q] /\ cur'[q] = cur[q]
        BY <1>1, <2>1, StepLocal
      <3> QED BY <1>4, <1>6, <3>1 DEF Foundation, Strayed
    <2>2. CASE q = r /\ Judge(r, TRUE)
      <3>1. cur'[r] = cur[r]
        BY <1>1, <1>6, <2>2, StepExtracts
      <3>2. Judgment(r, TRUE) \in judgments'
        BY <2>2 DEF Judge, Stored
      <3>3. /\ Judgment(r, TRUE).item = cur[r].item /\ Judgment(r, TRUE).run = r
            /\ Judgment(r, TRUE).article = cur[r].article /\ Judgment(r, TRUE).passed
        BY DEF Judgment
      <3> QED BY <2>2, <3>1, <3>2, <3>3 DEF Founded
    <2>3. CASE q = r /\ ~Judge(r, TRUE)
      <3>1. pc[r] \in {"extract", "store"} /\ cur'[r] = cur[r]
        BY <1>1, <1>6, <2>3, StepExtracts
      <3> QED BY <1>4, <2>3, <3>1 DEF Foundation, Strayed
    <2> QED BY <2>1, <2>2, <2>3
  <1> QED BY <1>5, <1>6 DEF Foundation, Strayed

\* A purge waits for whoever has uncommitted rows, takes extractions and verdicts
\* of an item together, and marks the run that is at one.
LEMMA FoundationPurge ==
    ASSUME Inv, Locks, Foundation, NEW s \in Sources, Purge(s)
    PROVE  Foundation'
  <1> DEFINE gone == Gone(s)
  <1>1. /\ RequestMayWrite
        /\ judgments' = {j \in judgments : j.item \notin gone}
        /\ extractions' = {x \in extractions : x.item \notin gone}
        /\ astray' = astray \cup InFlight(gone)
        /\ UNCHANGED <<pc, pend, cur>>
    BY DEF Purge, local
  <1>2. \A r \in Runs : pend[r] = NoPend
    BY <1>1 DEF RequestMayWrite, Locks, PendLocked
  <1> HIDE DEF gone
  <1>3. /\ \A i, r, a : Founded(judgments, i, r, a) /\ i \notin gone
                            => Founded(judgments', i, r, a)
        /\ \A i, r : Strayed(r, i) => Strayed(r, i)'
    BY <1>1 DEF Founded, Strayed
  <1>4. ASSUME NEW x \in Summaries'
        PROVE  Strayed(x.run, x.item)' \/ Founded(judgments', x.item, x.run, x.article)
    <2>1. x \in extractions /\ x.item \notin gone
      BY <1>1, <1>2, NoPendIs DEF Summaries
    <2> QED BY <1>3, <2>1 DEF Foundation, Summaries
  <1>5. ASSUME NEW r \in Runs, pc'[r] \in {"extract", "store"}
        PROVE  \/ <<r, cur'[r].item>> \in astray'
               \/ Founded(judgments', cur'[r].item, r, cur'[r].article)
    <2>1. CASE cur[r].item \in gone
      <3>1. <<r, cur[r].item>> \in InFlight(gone)
        BY <1>1, <1>5, <2>1 DEF InFlight, Holding
      <3> QED BY <1>1, <3>1
    <2>2. CASE cur[r].item \notin gone
      BY <1>1, <1>3, <1>5, <2>2 DEF Foundation, Strayed
    <2> QED BY <2>1, <2>2
  <1> QED BY <1>4, <1>5 DEF Foundation, Strayed

LEMMA FoundationNext ==
    ASSUME Inv, Locks, Foundation, [Next]_vars
    PROVE  Foundation'
  <1>1. CASE UNCHANGED vars
    BY <1>1 DEF vars, local, verdicts, bounds, Foundation, Summaries, Founded, Strayed
  <1>2. ASSUME NEW r \in Runs, Step(r)
        PROVE  Foundation'
    BY <1>2, FoundationStep
  <1>3. ASSUME NEW r \in Runs, NEW k \in Kinds, Start(r, k)
        PROVE  Foundation'
    <2>1. /\ UNCHANGED <<judgments, extractions, pend, cur, astray>>
          /\ \A q \in Runs : pc'[q] \in {"extract", "store"} => pc'[q] = pc[q]
      BY <1>3 DEF Start, Goto, verdicts, bounds, Inv, Typed, LocalOK
    <2> QED BY <2>1 DEF Foundation, Summaries, Founded, Strayed
  <1>4. CASE SavePrompt \/ \E s \in Sources : SetEnabled(s)
    BY <1>4 DEF SavePrompt, SetEnabled, local, verdicts, Foundation, Summaries, Founded,
             Strayed
  <1>5. ASSUME NEW s \in Sources, Purge(s)
        PROVE  Foundation'
    BY <1>5, FoundationPurge
  <1>6. CASE Crash
    <2>1. /\ UNCHANGED <<judgments, extractions, astray>>
          /\ \A r \in Runs : pend'[r] = NoPend /\ pc'[r] \in {"idle", "done"}
      BY <1>6 DEF Crash, Live, verdicts, Inv, Typed, LocalOK
    <2> QED BY <2>1, NoPendIs DEF Foundation, Summaries, Founded, Strayed
  <1> QED BY <1>1, <1>2, <1>3, <1>4, <1>5, <1>6 DEF Next

\* A rejection is never summarised, and no summary stands under a verdict of
\* another run or another article, whatever is purged: but for the summary of an
\* item that was purged while its run was at it.
THEOREM ExtractionFollowsPassHolds == Spec => []ExtractionFollowsPass
  <1>1. Init => Inv /\ Locks /\ Foundation
    <2>1. Init => Foundation
      <3> SUFFICES ASSUME Init
                   PROVE  Foundation
        OBVIOUS
      <3>1. Summaries = {}
        BY NoPendIs DEF Init, Summaries
      <3>2. \A r \in Runs : pc[r] = "idle"
        BY DEF Init
      <3> QED BY <3>1, <3>2 DEF Foundation
    <2> QED BY <2>1, InvInit, LocksInit
  <1>2. Inv /\ Locks /\ Foundation /\ [Next]_vars
           => (Inv /\ Locks /\ Foundation)'
    BY InvNext, LocksNext, FoundationNext
  <1>3. Foundation => ExtractionFollowsPass
    BY DEF Foundation, Summaries, Founded, Strayed, Astray, ExtractionFollowsPass
  <1> QED BY <1>1, <1>2, <1>3, PTL DEF Spec

(***************************************************************************)
(* What is stored under an id is about the item that has it.               *)
(***************************************************************************)

\* Verdicts and summaries are about the article their item has, and so are those
\* on their way, but for those that a purge has marked.
Faithful ==
    /\ \A row \in Rows \cup Summaries :
          Strayed(row.run, row.item) \/ items[row.item] = row.article
    /\ \A r \in Runs : pc[r] \in Holding =>
          Strayed(r, cur[r].item) \/ items[cur[r].item] = cur[r].article

LEMMA SummaryType ==
    ASSUME Typed, NEW x \in Summaries
    PROVE  x.item \in Ids /\ x.article \in Articles
  <1>1. x \in ExtractionRow
    BY DEF Summaries, Typed, StoreOK, Pend
  <1> QED BY <1>1 DEF ExtractionRow

\* No step of a run takes an item: a new one gets an id that none has.
LEMMA StepKeepsItems ==
    ASSUME Typed, NEW r \in Runs, Step(r)
    PROVE  \A i \in Ids : items[i] # Null => items'[i] = items[i]
  <1>1. ASSUME NEW a
        PROVE  \A i \in Ids : items[i] # Null => WithItem(a)[i] = items[i]
    <2> DEFINE used == {i \in Ids : items[i] # Null}
    <2>1. WithItem(a) = [items EXCEPT ![NewId(used)] = a]
      BY DEF WithItem
    <2>2. IsFiniteSet(used) /\ used \subseteq Nat
      BY IdsType, FS_Subset
    <2>3. NewId(used) \notin used
      BY <2>2, NewIdIsNew
    <2>4. DOMAIN items = Ids
      BY DEF Typed, TablesOK
    <2> HIDE DEF used
    <2>5. \A i \in used : WithItem(a)[i] = items[i]
      BY <2>1, <2>3, <2>4
    <2> QED BY <2>5 DEF used
  <1>2. items' = items \/ \E a : items' = WithItem(a)
    BY StepItems
  <1> QED BY <1>1, <1>2

LEMMA HoldsItem ==
    ASSUME Typed, NEW r \in Runs, Step(r), pc'[r] \in Holding
    PROVE  Take(r) \/ (pc[r] \in Holding /\ cur'[r] = cur[r])
  BY DEF Step, Zone, ZoneRefused, Dropped, Land, LandRefused, PollRefused, Select,
     ReadRefused, TakePurged, Pay, PayRefused, Skip, Judge, JudgeRefused, Extract,
     ExtractRefused, ExtractBreaks, InsertOrphan, List, ReadVerdict, ReadBody, Write,
     WriteFails, Prune, Close, CloseRefused, Polling, Composed,
     local, Goto, Fail, AfterVerdict, Holding, Typed, LocalOK

LEMMA FaithfulStep ==
    ASSUME Inv, Faithful, NEW r \in Runs, Step(r),
           \A i \in Ids : items[i] # Null => items'[i] = items[i]
    PROVE  Faithful'
  <1>1. Typed
    BY DEF Inv
  <1>2. PICK js, xs, n : Writing(r, js, xs, n)
    BY <1>1, StepLeaves
  <1>3. /\ Others(r)
        /\ \/ Commits(r, js, xs, n)
           \/ Holds(r, js, xs, n)
           \/ Drops(r) /\ js = {} /\ xs = {} /\ n = 0
        /\ js = {} \/ (pc[r] = "verdict" /\ \E ok : js = {Judgment(r, ok)})
        /\ xs = {} \/ /\ pc[r] = "store"
                      /\ \E body, raised : xs = {Extraction(r, body, raised)}
    BY <1>2 DEF Writing, Leaves
  <1>4. /\ \A i \in Ids : items[i] \in Articles => items'[i] = items[i]
        /\ \A q, i : Strayed(q, i)' = Strayed(q, i)
    BY GateAssumption, StepMarks DEF Strayed
  <1>5. ASSUME NEW row \in Rows' \cup Summaries'
        PROVE  Strayed(row.run, row.item)' \/ items'[row.item] = row.article
    <2>1. row \in Rows \cup Summaries \/ row \in js \cup xs
      BY <1>3, NoPendIs DEF Rows, Summaries, Others, Commits, Holds, Drops,
         SeenJudgments, SeenExtractions
    <2>2. CASE row \in Rows \cup Summaries
      <3>1. row.item \in Ids /\ row.article \in Articles
        BY <1>1, <2>2, SummaryType DEF Rows, Typed, StoreOK, Pend, JudgmentRow
      <3> QED BY <1>4, <2>2, <3>1 DEF Faithful
    <2>3. CASE row \in js \cup xs
      <3>1. /\ \A ok : LET j == Judgment(r, ok)
                       IN  j.item = cur[r].item /\ j.article = cur[r].article /\ j.run = r
            /\ \A body, raised : LET x == Extraction(r, body, raised)
                                 IN  /\ x.item = cur[r].item /\ x.run = r
                                     /\ x.article = cur[r].article
        BY DEF Judgment, Extraction
      <3>2. /\ pc[r] \in {"verdict", "store"}
            /\ row.item = cur[r].item /\ row.article = cur[r].article /\ row.run = r
        BY <1>3, <2>3, <3>1
      <3>3. cur[r].item \in Ids /\ cur[r].article \in Articles
        BY <1>1, <3>2 DEF Typed, LocalOK, Holding
      <3> QED BY <1>4, <3>2, <3>3 DEF Faithful, Holding
    <2> QED BY <2>1, <2>2, <2>3
  <1>6. ASSUME NEW q \in Runs, pc'[q] \in Holding
        PROVE  <<q, cur'[q].item>> \in astray' \/ items'[cur'[q].item] = cur'[q].article
    <2>1. CASE pc[q] \in Holding /\ cur'[q] = cur[q]
      <3>1. cur[q].item \in Ids /\ cur[q].article \in Articles
        BY <1>1, <2>1 DEF Typed, LocalOK
      <3> QED BY <1>4, <2>1, <3>1 DEF Faithful, Strayed
    <2>2. CASE q = r /\ Take(r)
      <3> DEFINE i == Min(todo[r])
      <3>1. /\ cur'[r] = [item |-> i, article |-> items[i], prompt |-> prompt]
            /\ items' = items
        BY <1>1, <2>2 DEF Take, tables, Typed, LocalOK
      <3>2. cur'[r].item = i /\ cur'[r].article = items[i]
        BY <3>1
      <3> QED BY <2>2, <3>1, <3>2
    <2>3. q # r => pc'[q] = pc[q] /\ cur'[q] = cur[q]
      BY <1>1, StepLocal
    <2> QED BY <1>1, <1>6, <2>1, <2>2, <2>3, HoldsItem
  <1> QED BY <1>5, <1>6 DEF Faithful, Strayed

\* A purge waits for whoever has uncommitted rows, takes what was stored under
\* its items, and marks the calls about them.
LEMMA FaithfulPurge ==
    ASSUME Inv, Locks, Faithful, NEW s \in Sources, Purge(s)
    PROVE  Faithful'
  <1> DEFINE gone == Gone(s)
  <1>1. /\ RequestMayWrite
        /\ items' = [i \in Ids |-> IF i \in gone THEN Null ELSE items[i]]
        /\ judgments' = {j \in judgments : j.item \notin gone}
        /\ extractions' = {x \in extractions : x.item \notin gone}
        /\ astray' = astray \cup InFlight(gone)
        /\ UNCHANGED <<pc, pend, cur>>
    BY DEF Purge, local
  <1>2. \A r \in Runs : pend[r] = NoPend
    BY <1>1 DEF RequestMayWrite, Locks, PendLocked
  <1> HIDE DEF gone
  <1>3. \A q, i : Strayed(q, i) => Strayed(q, i)'
    BY <1>1 DEF Strayed
  <1>4. ASSUME NEW row \in Rows' \cup Summaries'
        PROVE  Strayed(row.run, row.item)' \/ items'[row.item] = row.article
    <2>1. row \in Rows \cup Summaries /\ row.item \notin gone
      BY <1>1, <1>2, NoPendIs DEF Rows, Summaries
    <2>2. row.item \in Ids
      BY <2>1, RowType, SummaryType DEF Inv
    <2> QED BY <1>1, <1>3, <2>1, <2>2 DEF Faithful
  <1>5. ASSUME NEW r \in Runs, pc'[r] \in Holding
        PROVE  <<r, cur'[r].item>> \in astray' \/ items'[cur'[r].item] = cur'[r].article
    <2>1. CASE cur[r].item \in gone
      <3>1. <<r, cur[r].item>> \in InFlight(gone)
        BY <1>1, <1>5, <2>1 DEF InFlight
      <3> QED BY <1>1, <3>1
    <2>2. CASE cur[r].item \notin gone
      <3>1. cur[r].item \in Ids
        BY <1>1, <1>5 DEF Inv, Typed, LocalOK
      <3> QED BY <1>1, <1>3, <1>5, <2>2, <3>1 DEF Faithful, Strayed
    <2> QED BY <2>1, <2>2
  <1> QED BY <1>4, <1>5 DEF Faithful, Strayed

LEMMA FaithfulNext ==
    ASSUME Inv, Locks, Faithful, [Next]_vars
    PROVE  Faithful'
  <1>1. CASE UNCHANGED vars \/ SavePrompt \/ \E s \in Sources : SetEnabled(s)
    <2>1. UNCHANGED <<items, judgments, extractions, pend, pc, cur, astray>>
      BY <1>1 DEF vars, SavePrompt, SetEnabled, tables, local, verdicts, bounds
    <2> QED BY <2>1 DEF Faithful, Rows, Summaries, Strayed
  <1>2. ASSUME NEW r \in Runs, Step(r)
        PROVE  Faithful'
    BY <1>2, StepKeepsItems, FaithfulStep DEF Inv
  <1>3. ASSUME NEW r \in Runs, NEW k \in Kinds, Start(r, k)
        PROVE  Faithful'
    <2>1. /\ UNCHANGED <<items, judgments, extractions, pend, cur, astray>>
          /\ \A q \in Runs : pc'[q] \in Holding => pc'[q] = pc[q]
      BY <1>3 DEF Start, Goto, verdicts, tables, bounds, Inv, Typed, LocalOK, Holding
    <2> QED BY <2>1 DEF Faithful, Rows, Summaries, Strayed
  <1>4. ASSUME NEW s \in Sources, Purge(s)
        PROVE  Faithful'
    BY <1>4, FaithfulPurge
  <1>5. CASE Crash
    <2>1. /\ UNCHANGED <<items, judgments, extractions, astray>>
          /\ \A r \in Runs : pend'[r] = NoPend /\ pc'[r] \in {"idle", "done"}
      BY <1>5 DEF Crash, Live, tables, verdicts, Inv, Typed, LocalOK
    <2>2. Rows' \subseteq Rows /\ Summaries' \subseteq Summaries
      BY <2>1, NoPendIs DEF Rows, Summaries
    <2> QED BY <2>1, <2>2 DEF Faithful, Holding, Strayed
  <1> QED BY <1>1, <1>2, <1>3, <1>4, <1>5 DEF Next

LEMMA FaithfulInit == Init => Faithful
  <1> SUFFICES ASSUME Init
               PROVE  Faithful
    OBVIOUS
  <1>1. Rows = {} /\ Summaries = {}
    BY NoPendIs DEF Init, Rows, Summaries
  <1>2. \A r \in Runs : pc[r] = "idle"
    BY DEF Init
  <1> QED BY <1>1, <1>2 DEF Faithful, Holding

\* Every verdict and every extraction under an item's id was said of the article
\* that has it, whatever is purged, refused or lost: but for what a call returned
\* that was in flight about an item when it was purged.
THEOREM RowsOfTheirArticleHolds == Spec => []RowsOfTheirArticle
  <1>1. Init => Inv /\ Locks /\ Faithful
    BY InvInit, LocksInit, FaithfulInit
  <1>2. Inv /\ Locks /\ Faithful /\ [Next]_vars => (Inv /\ Locks /\ Faithful)'
    BY InvNext, LocksNext, FaithfulNext
  <1>3. Faithful => RowsOfTheirArticle
    BY DEF Faithful, Rows, Summaries, Strayed, Astray, RowsOfTheirArticle
  <1> QED BY <1>1, <1>2, <1>3, PTL DEF Spec

(***************************************************************************)
(* With the items in place.                                                *)
(*                                                                         *)
(* ItemsStay is that no purge takes an item: the feeds, the runs and the   *)
(* rest of the operator do as they like.  The counts speak of rows that a  *)
(* purge would take from under them.                                       *)
(***************************************************************************)

ItemsStay == [][\A i \in Ids : items[i] # Null => items'[i] = items[i]]_vars

\* A purge then finds nothing to take.
LEMMA PurgeTakesNothing ==
    ASSUME Typed, NEW s \in Sources, Purge(s),
           [\A i \in Ids : items[i] # Null => items'[i] = items[i]]_vars
    PROVE  UNCHANGED <<items, judgments, extractions>>
  <1> DEFINE gone == Gone(s)
  <1>1. /\ items' = [i \in Ids |-> IF i \in gone THEN Null ELSE items[i]]
        /\ judgments' = {j \in judgments : j.item \notin gone}
        /\ extractions' = {x \in extractions : x.item \notin gone}
    BY DEF Purge
  <1>2. gone = {}
    <2>1. CASE UNCHANGED vars
      <3>1. items' = items
        BY <2>1 DEF vars, tables
      <3> QED BY <1>1, <3>1 DEF Gone
    <2>2. CASE \A i \in Ids : items[i] # Null => items'[i] = items[i]
      BY <1>1, <2>2 DEF Gone
    <2> QED BY <2>1, <2>2
  <1>3. items = [i \in Ids |-> items[i]]
    BY DEF Typed, TablesOK
  <1> HIDE DEF gone
  <1> QED BY <1>1, <1>2, <1>3

Passing(J) == {j \in J : j.passed}

Tallied ==
    \A r \in Runs :
        /\ count[r].judged <= Cardinality(Own(judgments, r))
        /\ count[r].passed <= Cardinality(Own(Passing(judgments), r))

LEMMA StepCounts ==
    ASSUME Typed, NEW r \in Runs, Step(r)
    PROVE  UNCHANGED count \/ \E ok \in BOOLEAN : Judge(r, ok)
  BY DEF Step, Zone, ZoneRefused, Dropped, Land, LandRefused, PollRefused, Select,
     ReadRefused, Take, TakePurged, Pay, PayRefused, Skip, JudgeRefused, Extract,
     ExtractRefused, ExtractBreaks, InsertOrphan, List, ReadVerdict, ReadBody, Write,
     WriteFails, Prune, Close, CloseRefused, local

\* More verdicts are no fewer of a run's, passing or not.
LEMMA OwnGrows ==
    ASSUME NEW J, NEW K \in SUBSET J, IsFiniteSet(J), NEW r
    PROVE  /\ Cardinality(Own(K, r)) \in Nat /\ Cardinality(Own(J, r)) \in Nat
           /\ Cardinality(Own(K, r)) <= Cardinality(Own(J, r))
           /\ Cardinality(Own(Passing(K), r)) \in Nat
           /\ Cardinality(Own(Passing(J), r)) \in Nat
           /\ Cardinality(Own(Passing(K), r)) <= Cardinality(Own(Passing(J), r))
  <1>1. IsFiniteSet(K)
    BY FS_Subset
  <1>2. Passing(K) \in SUBSET Passing(J) /\ Passing(J) \in SUBSET J
    BY DEF Passing
  <1>3. IsFiniteSet(Passing(J))
    BY <1>2, FS_Subset
  <1>4. IsFiniteSet(Passing(K))
    BY <1>2, <1>3, FS_Subset
  <1> QED BY <1>1, <1>2, <1>3, <1>4, OwnBounds

\* The id of a new verdict is above all that its run sees.
LEMMA NewJudgment ==
    ASSUME Typed, NEW r \in Runs, pc[r] = "verdict", NEW ok \in BOOLEAN
    PROVE  Judgment(r, ok) \notin SeenJudgments(r)
  <1> DEFINE T == {j.id : j \in SeenJudgments(r)}
  <1>1. /\ T \in SUBSET Nat /\ IsFiniteSet(T)
    BY SeenType, FiniteJudgmentIds DEF Typed
  <1>2. \A i \in T : i < NewId(T) /\ NewId(T) \in Nat /\ i \in Nat
    <2> HIDE DEF T
    <2> QED BY <1>1, NewIdIsNew
  <1>3. Judgment(r, ok).id = NewId(T)
    BY DEF Judgment
  <1>4. NewId(T) \notin T
    <2> HIDE DEF T
    <2> QED BY <1>2
  <1> QED BY <1>3, <1>4

LEMMA TalliedJudge ==
    ASSUME Inv, Tallied, NEW r \in Runs, NEW ok \in BOOLEAN, Judge(r, ok), Typed'
    PROVE  Tallied'
  <1> DEFINE j == Judgment(r, ok)
  <1>1. /\ pc[r] = "verdict"
        /\ Stored(r, {j}, {}, 0)
        /\ count' = [count EXCEPT ![r] = Tally(count[r], ok)]
        /\ count \in [Runs -> [judged : Nat, passed : Nat]]
    BY DEF Judge, Inv, Typed, LocalOK
  <1>2. /\ judgments \cup {j} \subseteq judgments'
        /\ IsFiniteSet(judgments) /\ IsFiniteSet(judgments')
    BY <1>1 DEF Stored, Inv, Typed, StoreOK
  <1>3. j \notin judgments /\ j.run = r /\ j.passed = ok
    <2>1. j \notin SeenJudgments(r)
      BY <1>1, NewJudgment DEF Inv
    <2> QED BY <2>1 DEF SeenJudgments, Judgment
  <1> HIDE DEF j
  <1>4. IsFiniteSet(judgments \cup {j})
    BY <1>2, FS_AddElement
  <1>5. ASSUME NEW q \in Runs
        PROVE  /\ count'[q].judged <= Cardinality(Own(judgments', q))
               /\ count'[q].passed <= Cardinality(Own(Passing(judgments'), q))
    <2>1. /\ Cardinality(Own(judgments, q)) \in Nat
          /\ Cardinality(Own(judgments \cup {j}, q)) \in Nat
          /\ Cardinality(Own(judgments', q)) \in Nat
          /\ Cardinality(Own(Passing(judgments), q)) \in Nat
          /\ Cardinality(Own(Passing(judgments \cup {j}), q)) \in Nat
          /\ Cardinality(Own(Passing(judgments'), q)) \in Nat
          /\ Cardinality(Own(judgments, q)) <= Cardinality(Own(judgments \cup {j}, q))
          /\ Cardinality(Own(Passing(judgments), q))
                <= Cardinality(Own(Passing(judgments \cup {j}), q))
          /\ Cardinality(Own(judgments \cup {j}, q)) <= Cardinality(Own(judgments', q))
          /\ Cardinality(Own(Passing(judgments \cup {j}), q))
                <= Cardinality(Own(Passing(judgments'), q))
      BY <1>2, <1>4, OwnGrows
    <2>2. /\ count[q].judged \in Nat /\ count[q].passed \in Nat
          /\ count[q].judged <= Cardinality(Own(judgments, q))
          /\ count[q].passed <= Cardinality(Own(Passing(judgments), q))
      BY <1>1 DEF Tallied
    <2>3. CASE q # r
      BY <1>1, <2>1, <2>2, <2>3
    <2>4. CASE q = r
      <3>1. Cardinality(Own(judgments \cup {j}, r)) = Cardinality(Own(judgments, r)) + 1
        BY <1>2, <1>3, OwnBounds
      <3>2. ok => Cardinality(Own(Passing(judgments \cup {j}), r))
                     = Cardinality(Own(Passing(judgments), r)) + 1
        <4> SUFFICES ASSUME ok
                     PROVE  Cardinality(Own(Passing(judgments \cup {j}), r))
                               = Cardinality(Own(Passing(judgments), r)) + 1
          OBVIOUS
        <4>1. Passing(judgments \cup {j}) = Passing(judgments) \cup {j}
          BY <1>3 DEF Passing
        <4>2. j \notin Passing(judgments) /\ Passing(judgments) \in SUBSET judgments
          BY <1>3 DEF Passing
        <4>3. IsFiniteSet(Passing(judgments))
          BY <1>2, <4>2, FS_Subset
        <4>4. ASSUME NEW P, IsFiniteSet(P), j \notin P
              PROVE  Cardinality(Own(P \cup {j}, r)) = Cardinality(Own(P, r)) + 1
          BY <1>3, <4>4, OwnBounds
        <4> QED BY <4>1, <4>2, <4>3, <4>4
      <3>3. /\ count'[r].judged = count[r].judged + 1
            /\ count'[r].passed = count[r].passed + IF ok THEN 1 ELSE 0
        BY <1>1 DEF Tally
      <3> QED BY <2>1, <2>2, <2>4, <3>1, <3>2, <3>3
    <2> QED BY <2>3, <2>4
  <1> QED BY <1>5 DEF Tallied

LEMMA TalliedNext ==
    ASSUME Inv, Tallied, [Next]_vars,
           [\A i \in Ids : items[i] # Null => items'[i] = items[i]]_vars
    PROVE  Tallied'
  <1>1. Typed'
    BY TypedNext DEF Inv
  <1>2. ASSUME NEW r \in Runs, NEW ok \in BOOLEAN, Judge(r, ok)
        PROVE  Tallied'
    BY <1>1, <1>2, TalliedJudge
  <1>3. CASE UNCHANGED count /\ judgments \subseteq judgments'
    <2>1. ASSUME NEW q \in Runs
          PROVE  /\ count'[q].judged <= Cardinality(Own(judgments', q))
                 /\ count'[q].passed <= Cardinality(Own(Passing(judgments'), q))
      <3>1. /\ Cardinality(Own(judgments, q)) \in Nat
            /\ Cardinality(Own(judgments', q)) \in Nat
            /\ Cardinality(Own(judgments, q)) <= Cardinality(Own(judgments', q))
            /\ Cardinality(Own(Passing(judgments), q)) \in Nat
            /\ Cardinality(Own(Passing(judgments'), q)) \in Nat
            /\ Cardinality(Own(Passing(judgments), q))
                  <= Cardinality(Own(Passing(judgments'), q))
        BY <1>1, <1>3, OwnGrows DEF Typed, StoreOK
      <3>2. /\ count'[q] = count[q]
            /\ count[q].judged \in Nat /\ count[q].passed \in Nat
            /\ count[q].judged <= Cardinality(Own(judgments, q))
            /\ count[q].passed <= Cardinality(Own(Passing(judgments), q))
        BY <1>3 DEF Tallied, Inv, Typed, LocalOK
      <3> QED BY <3>1, <3>2
    <2> QED BY <2>1 DEF Tallied
  <1>4. ASSUME NEW r \in Runs, Step(r)
        PROVE  Tallied'
    <2>1. judgments \subseteq judgments'
      BY <1>4, StepGrows DEF Inv
    <2> QED BY <1>2, <1>3, <1>4, <2>1, StepCounts DEF Inv
  <1>5. ASSUME NEW s \in Sources, Purge(s)
        PROVE  Tallied'
    <2>1. UNCHANGED judgments
      BY <1>5, PurgeTakesNothing DEF Inv
    <2> QED BY <1>3, <1>5, <2>1 DEF Purge, local
  <1>6. CASE \/ \E r \in Runs : \E k \in Kinds : Start(r, k)
             \/ SavePrompt \/ Crash \/ \E s \in Sources : SetEnabled(s)
             \/ UNCHANGED vars
    BY <1>3, <1>6 DEF Start, SavePrompt, Crash, SetEnabled, vars, local, verdicts
  <1> QED BY <1>4, <1>5, <1>6 DEF Next

\* items_judged and items_passed never claim more than the run has made
\* durable, as long as no item is purged.
THEOREM CountsDurableHolds == Spec /\ ItemsStay => []CountsDurable
  <1>1. Init => Inv /\ Tallied
    <2>1. Init => Tallied
      <3> SUFFICES ASSUME Init, NEW r \in Runs
                   PROVE  /\ count[r].judged <= Cardinality(Own(judgments, r))
                          /\ count[r].passed <= Cardinality(Own(Passing(judgments), r))
        BY DEF Tallied
      <3>1. /\ count[r].judged = 0 /\ count[r].passed = 0
            /\ Own(judgments, r) = {} /\ Own(Passing(judgments), r) = {}
        BY DEF Init, Zero, Own, Passing
      <3> QED BY <3>1, FS_EmptySet
    <2> QED BY <2>1, InvInit
  <1>2. /\ Inv /\ Tallied
        /\ [Next]_vars
        /\ [\A i \in Ids : items[i] # Null => items'[i] = items[i]]_vars
        => (Inv /\ Tallied)'
    BY InvNext, TalliedNext
  <1>3. Tallied => CountsDurable
    <2>1. \A r : /\ Own(judgments, r) = {j \in judgments : j.run = r}
                 /\ Own(Passing(judgments), r) = {j \in judgments : j.run = r /\ j.passed}
      BY DEF Own, Passing
    <2> QED BY <2>1 DEF Tallied, CountsDurable
  <1> QED BY <1>1, <1>2, <1>3, PTL DEF Spec, ItemsStay

(***************************************************************************)
(* A card repeats what the tables hold.                                    *)
(*                                                                         *)
(* A page is composed from what its run sees, uncommitted rows included,   *)
(* so a card is first held against what the run of its verdict sees, once  *)
(* its verdict is read; these rows are lost only with a run that never     *)
(* closed its own.                                                         *)
(***************************************************************************)

Backs(c, J, X) ==
    /\ \E j \in J : /\ j.item = c.item /\ j.run = c.run
                    /\ j.article = c.article
                    /\ j.passed = (c.verdict = "passed")
    /\ c.body \in {"full", "hole"} =>
          \E x \in X : x.item = c.item /\ x.run = c.run /\ x.body = c.body

Lost(r) == pc[r] = "done" /\ runs[r].status = "running"

Judged(c) == c.verdict \in {"passed", "rejected"}

CardHeld(c) ==
    Judged(c) /\ Stands(c) =>
        /\ c.run \in Runs
        /\ \/ Lost(c.run) \/ Strayed(c.run, c.item)
           \/ Backs(c, SeenJudgments(c.run), SeenExtractions(c.run))

Cards == page \cup UNION {draft[r] : r \in Runs}

\* A card that no longer stands never will again: a purged source stays away, and
\* with it its articles.
Abiding(c) == Stands(c) \/ SourceOf[c.article] \notin sources

CardsHeld == \A c \in Cards : Abiding(c) /\ CardHeld(c)

LEMMA CardsType ==
    ASSUME Typed, NEW c \in Cards
    PROVE  c \in CardShape /\ c.item \in Ids /\ c.article \in Articles
  <1>1. c \in CardShape
    BY DEF Typed, PageOK, Cards
  <1> QED BY <1>1 DEF CardShape

\* A purge waits for whoever has uncommitted rows.
LEMMA PurgeEffect ==
    ASSUME Locks, NEW s \in Sources, Purge(s)
    PROVE  /\ items' = [i \in Ids |-> IF i \in Gone(s) THEN Null ELSE items[i]]
           /\ judgments' = {j \in judgments : j.item \notin Gone(s)}
           /\ extractions' = {x \in extractions : x.item \notin Gone(s)}
           /\ sources' = sources \ {s}
           /\ astray \subseteq astray'
           /\ UNCHANGED <<pend, pc, runs, failed, draft, page>>
           /\ \A r \in Runs : pend[r] = NoPend
  <1>1. RequestMayWrite
    BY DEF Purge
  <1>2. \A r \in Runs : pend[r] = NoPend
    BY <1>1 DEF RequestMayWrite, Locks, PendLocked
  <1> QED BY <1>2 DEF Purge, local

\* A card that a purge leaves standing was standing, and is of no purged item.
LEMMA PurgeStands ==
    ASSUME Locks, NEW s \in Sources, Purge(s),
           NEW c, c.item \in Ids, c.article \in Articles
    PROVE  /\ Stands(c)' => Stands(c) /\ c.item \notin Gone(s)
           /\ Abiding(c) => Abiding(c)'
  <1>1. /\ items' = [i \in Ids |-> IF i \in Gone(s) THEN Null ELSE items[i]]
        /\ sources' = sources \ {s}
    BY PurgeEffect
  <1>2. c.article # Null
    BY GateAssumption
  <1>3. Stands(c)' => Stands(c) /\ c.item \notin Gone(s)
    BY <1>1, <1>2 DEF Stands
  <1>4. ASSUME Abiding(c)
        PROVE  Abiding(c)'
    <2>1. CASE SourceOf[c.article] \notin sources
      BY <1>1, <2>1 DEF Abiding
    <2>2. CASE Stands(c) /\ c.item \in Gone(s)
      BY <1>1, <2>2 DEF Gone, Stands, Abiding
    <2>3. CASE Stands(c) /\ c.item \notin Gone(s)
      BY <1>1, <2>3 DEF Stands, Abiding
    <2> QED BY <1>4, <2>1, <2>2, <2>3 DEF Abiding
  <1> QED BY <1>3, <1>4

\* A step of a run brings no purged article back, and gives its card's id away at
\* most to another.
LEMMA StepStands ==
    ASSUME Typed, Locks, NEW r \in Runs, Step(r),
           NEW c, c.item \in Ids, c.article \in Articles, Abiding(c)
    PROVE  Abiding(c)' /\ (Stands(c)' => Stands(c))
  <1>1. c.article # Null
    BY GateAssumption
  <1>2. CASE Stands(c)
    <2>1. items'[c.item] = items[c.item]
      BY <1>1, <1>2, StepKeepsItems DEF Stands
    <2> QED BY <1>2, <2>1 DEF Stands, Abiding
  <1>3. CASE ~Stands(c)
    <2>1. SourceOf[c.article] \notin sources
      BY <1>3 DEF Abiding
    <2>2. ASSUME NEW a \in Articles, items' = WithItem(a), SourceOf[a] \in sources
          PROVE  ~Stands(c)'
      <3> DEFINE new == NewId({i \in Ids : items[i] # Null})
      <3>1. items' = [items EXCEPT ![new] = a]
        BY <2>2 DEF WithItem
      <3>2. a # c.article
        BY <2>1, <2>2
      <3>3. DOMAIN items = Ids
        BY DEF Typed, TablesOK
      <3> HIDE DEF new
      <3>4. items'[c.item] = a \/ items'[c.item] = items[c.item]
        BY <3>1, <3>3
      <3> QED BY <1>3, <3>1, <3>2, <3>4 DEF Stands
    <2>3. ASSUME items' = items
          PROVE  ~Stands(c)'
      BY <1>3, <2>3 DEF Stands
    <2>4. /\ sources' = sources
          /\ items' = items \/ \E a \in Articles : items' = WithItem(a) /\ SourceOf[a] \in sources
      <3>1. ASSUME NEW a \in Articles, Land(r, a)
            PROVE  SourceOf[a] \in sources
        BY <3>1 DEF Land, New, Typed, TablesOK
      <3>2. ASSUME NEW a \in Articles, a = pend[r].landed
            PROVE  SourceOf[a] \in sources
        BY <3>2, GateAssumption DEF Locks, Landing
      <3> QED BY <3>1, <3>2, StepItems
    <2> QED BY <2>1, <2>2, <2>3, <2>4 DEF Abiding
  <1> QED BY <1>2, <1>3

LEMMA BacksGrows ==
    ASSUME NEW c, NEW J, NEW X, NEW K, NEW Y, J \subseteq K, X \subseteq Y,
           Backs(c, J, X)
    PROVE  Backs(c, K, Y)
  BY DEF Backs

\* Edits, a start and a crash add no verdict and take up no item; a crash takes
\* what was being composed.
LEMMA OthersQuiet ==
    ASSUME Inv, [Next]_vars, ~\E r \in Runs : Step(r), ~\E s \in Sources : Purge(s)
    PROVE  /\ UNCHANGED <<items, sources, judgments, extractions, failed, page, astray>>
           /\ \A r \in Runs :
                 /\ pend'[r] \in {pend[r], NoPend}
                 /\ \/ /\ pc'[r] = pc[r] /\ runs'[r] = runs[r] /\ pend'[r] = pend[r]
                       /\ draft'[r] = draft[r]
                    \/ pc[r] = "idle" /\ pc'[r] = "zone" /\ pend'[r] = pend[r]
                       /\ draft'[r] = draft[r]
                    \/ pc'[r] = "done" /\ runs'[r] = runs[r] /\ Live(r) /\ draft'[r] = {}
                    \/ pc'[r] = pc[r] /\ runs'[r] = runs[r] /\ ~Live(r) /\ draft'[r] = {}
  <1>1. CASE UNCHANGED vars \/ SavePrompt \/ \E s \in Sources : SetEnabled(s)
    BY <1>1 DEF vars, SavePrompt, SetEnabled, tables, verdicts, local, bounds
  <1>2. ASSUME NEW r \in Runs, NEW k \in Kinds, Start(r, k)
        PROVE  /\ UNCHANGED <<items, sources, judgments, extractions, failed, draft,
                              page, pend, astray>>
               /\ pc[r] = "idle" /\ pc'[r] = "zone"
               /\ \A q \in Runs \ {r} : pc'[q] = pc[q] /\ runs'[q] = runs[q]
    BY <1>2 DEF Start, Goto, tables, verdicts, bounds, Inv, Typed, StoreOK, LocalOK
  <1>3. CASE Crash
    <2>1. /\ UNCHANGED <<items, sources, judgments, extractions, failed, page, runs, astray>>
          /\ \A r \in Runs : /\ pend'[r] = NoPend
                             /\ draft'[r] = {}
                             /\ pc'[r] = IF Live(r) THEN "done" ELSE pc[r]
      BY <1>3 DEF Crash, tables, verdicts
    <2> QED BY <2>1
  <1> QED BY <1>1, <1>2, <1>3 DEF Next

\* What r sees of a run's rows, that run sees too.
LEMMA SeenByOwner ==
    ASSUME Inv, Locks, NEW r \in Runs
    PROVE  /\ \A j \in SeenJudgments(r) : j.run \in Runs /\ j \in SeenJudgments(j.run)
           /\ \A x \in SeenExtractions(r) : x \in SeenExtractions(x.run)
  <1>1. \A j \in SeenJudgments(r) : j.run \in Runs
    BY SeenType DEF Inv, Typed, JudgmentRow
  <1> QED BY <1>1 DEF SeenJudgments, SeenExtractions, Inv, OwnRows, Locks, OwnSummaries

\* The verdict read is one that its run sees, about the article the item has ...
LEMMA VerdictHeld ==
    ASSUME Inv, Locks, Faithful, NEW r \in Runs, NEW c \in CardShape, c.verdict = "unread",
           c.body = "none"
    PROVE  CardHeld(WithVerdict(r, c))
  <1> DEFINE d == WithVerdict(r, c)
  <1>1. ASSUME NEW j \in SeenJudgments(r), j.item = c.item, NEW v \in {"passed", "rejected"},
               j.passed = (v = "passed"), NEW b \in {"none", "unread"},
               d.item = c.item, d.article = c.article, d.run = j.run, d.verdict = v,
               d.body = b
        PROVE  CardHeld(d)
    <2> HIDE DEF d
    <2>1. j.run \in Runs /\ j \in SeenJudgments(j.run)
      BY SeenByOwner
    <2>2. SUFFICES ASSUME Stands(d)
                   PROVE  \/ Strayed(d.run, d.item)
                          \/ Backs(d, SeenJudgments(d.run), SeenExtractions(d.run))
      BY <1>1, <2>1 DEF CardHeld
    <2>3. Strayed(j.run, j.item) \/ items[j.item] = j.article
      <3>1. j \in Rows
        BY DEF Rows, SeenJudgments
      <3> QED BY <3>1 DEF Faithful
    <2>4. CASE Strayed(j.run, j.item)
      BY <1>1, <2>4
    <2>5. CASE items[j.item] = j.article
      <3>1. j.passed = (d.verdict = "passed")
        BY <1>1, Zenon
      <3>2. j.item = d.item /\ j.run = d.run /\ j.article = d.article
        BY <1>1, <2>2, <2>5 DEF Stands
      <3>3. j \in SeenJudgments(d.run) /\ d.body \notin {"full", "hole"}
        BY <1>1, <2>1, <3>2
      <3>4. Backs(d, SeenJudgments(d.run), SeenExtractions(d.run))
        BY <3>1, <3>2, <3>3, Zenon DEF Backs
      <3> QED BY <3>4
    <2> QED BY <2>3, <2>4, <2>5
  <1>2. ASSUME d = [c EXCEPT !.verdict = "unjudged"]
        PROVE  CardHeld(d)
    <2>1. d.verdict = "unjudged"
      BY <1>2 DEF CardShape
    <2> HIDE DEF d
    <2> QED BY <2>1 DEF CardHeld, Judged
  <1>3. ASSUME NEW j \in SeenJudgments(r), j.item = c.item, j.passed,
               d = [c EXCEPT !.verdict = "passed", !.run = j.run, !.body = "unread"]
        PROVE  CardHeld(d)
    <2>1. /\ d.item = c.item /\ d.article = c.article /\ d.run = j.run
          /\ d.verdict = "passed" /\ d.body = "unread"
      BY <1>3 DEF CardShape
    <2>2. j.passed = TRUE
      BY <1>3, SeenType DEF Inv, Typed, JudgmentRow
    <2> HIDE DEF d
    <2> QED BY <1>1, <1>3, <2>1, <2>2
  <1>4. ASSUME NEW j \in SeenJudgments(r), j.item = c.item, ~j.passed,
               d = [c EXCEPT !.verdict = "rejected", !.run = j.run]
        PROVE  CardHeld(d)
    <2>1. /\ d.item = c.item /\ d.article = c.article /\ d.run = j.run
          /\ d.verdict = "rejected" /\ d.body = "none"
      BY <1>4 DEF CardShape
    <2>2. j.passed = FALSE
      BY <1>4, SeenType DEF Inv, Typed, JudgmentRow
    <2> HIDE DEF d
    <2> QED BY <1>1, <1>4, <2>1, <2>2
  <1>5. StoreOK
    BY DEF Inv, Typed
  <1> QED BY <1>2, <1>3, <1>4, <1>5, WithVerdictIs

\* ... and the body read is one that the verdict's run sees.
LEMMA BodyHeld ==
    ASSUME Inv, Locks, NEW r \in Runs, NEW c \in CardShape, c.body = "unread", CardHeld(c)
    PROVE  CardHeld(WithBody(r, c))
  <1> DEFINE d == WithBody(r, c)
  <1>1. /\ d.item = c.item /\ d.article = c.article /\ d.verdict = c.verdict /\ d.run = c.run
        /\ d.body # "none" => \E x \in SeenExtractions(r) :
                                 x.item = c.item /\ x.run = c.run /\ x.body = d.body
    BY WithBodyIs DEF Inv, Typed
  <1>2. \A x \in SeenExtractions(r) : x \in SeenExtractions(x.run)
    BY SeenByOwner
  <1> HIDE DEF d
  <1>3. Judged(d) = Judged(c) /\ Stands(d) = Stands(c)
    BY <1>1 DEF Judged, Stands
  <1>4. ASSUME c.run \in Runs, Backs(c, SeenJudgments(c.run), SeenExtractions(c.run))
        PROVE  Backs(d, SeenJudgments(d.run), SeenExtractions(d.run))
    <2>1. d.body \in {"full", "hole"} => \E x \in SeenExtractions(d.run) :
                                            x.item = d.item /\ x.run = d.run /\ x.body = d.body
      BY <1>1, <1>2
    <2>2. \E j \in SeenJudgments(d.run) : /\ j.item = d.item /\ j.run = d.run
                                          /\ j.article = d.article
                                          /\ j.passed = (d.verdict = "passed")
      BY <1>1, <1>4, Zenon DEF Backs
    <2> QED BY <2>1, <2>2 DEF Backs
  <1>5. CardHeld(d)
    BY <1>1, <1>3, <1>4 DEF CardHeld
  <1> QED BY <1>5 DEF d

\* A card keeps its rows, or loses them with a run that never closed.
LEMMA CardKeptStep ==
    ASSUME Inv, Locks, NEW r \in Runs, Step(r), NEW c, CardHeld(c), Stands(c)' => Stands(c)
    PROVE  CardHeld(c)'
  <1>1. Typed
    BY DEF Inv
  <1> SUFFICES ASSUME Judged(c), Stands(c), ~Strayed(c.run, c.item)
               PROVE  \/ Lost(c.run)'
                      \/ Backs(c, SeenJudgments(c.run)', SeenExtractions(c.run)')
    BY StepMarks DEF CardHeld, Strayed
  <1> DEFINE q == c.run
  <1>2. q \in Runs /\ (Lost(q) \/ Backs(c, SeenJudgments(q), SeenExtractions(q)))
    BY DEF CardHeld
  <1>3. PICK js, xs, n : Writing(r, js, xs, n)
    BY <1>1, StepLeaves
  <1>4. /\ Others(r)
        /\ Commits(r, js, xs, n) \/ Holds(r, js, xs, n) \/ Drops(r)
    BY <1>3 DEF Writing, Leaves
  <1>5. judgments \subseteq judgments' /\ extractions \subseteq extractions'
    BY <1>1, StepGrows
  <1>6. CASE q # r
    <2>1. pc'[q] = pc[q] /\ runs'[q] = runs[q] /\ pend'[q] = pend[q]
      BY <1>1, <1>2, <1>4, <1>6, StepLocal DEF Others
    <2>2. /\ SeenJudgments(q) \subseteq SeenJudgments(q)'
          /\ SeenExtractions(q) \subseteq SeenExtractions(q)'
      BY <1>5, <2>1 DEF SeenJudgments, SeenExtractions
    <2> QED BY <1>2, <2>1, <2>2, BacksGrows DEF Lost
  <1>7. CASE q = r
    <2>1. Backs(c, SeenJudgments(r), SeenExtractions(r)) /\ runs[r].status = "running"
      <3>1. Live(r)
        BY <1>1, StepLocal
      <3> QED BY <1>2, <1>7, <3>1 DEF Lost, Live, Locks, Running
    <2>2. CASE Drops(r)
      BY <1>7, <2>1, <2>2 DEF Drops, Lost
    <2>3. CASE Commits(r, js, xs, n) \/ Holds(r, js, xs, n)
      <3>1. /\ SeenJudgments(r) \subseteq SeenJudgments(r)'
            /\ SeenExtractions(r) \subseteq SeenExtractions(r)'
        BY <2>3 DEF Commits, Holds, SeenJudgments, SeenExtractions
      <3> QED BY <1>7, <2>1, <3>1, BacksGrows
    <2> QED BY <1>4, <2>2, <2>3
  <1> QED BY <1>6, <1>7

\* A step shows no card but those already composed, and those it composes.
LEMMA StepCards ==
    ASSUME Typed, NEW r \in Runs, Step(r)
    PROVE  \A d \in Cards' :
              \/ d \in Cards
              \/ \E i \in Ids : d = Blank(i)
              \/ \E c \in draft[r] : c.verdict = "unread" /\ d = WithVerdict(r, c)
              \/ \E c \in draft[r] : c.body = "unread" /\ d = WithBody(r, c)
  <1>1. draft \in [Runs -> SUBSET CardShape]
    BY DEF Typed, PageOK
  <1>2. CASE List(r)
    <2>1. /\ draft' = [draft EXCEPT ![r] = {Blank(i) : i \in {i \in Ids : items[i] # Null}}]
          /\ page' = page
      BY <1>2 DEF List
    <2>2. \A q \in Runs : draft'[q] =
             IF q = r THEN {Blank(i) : i \in {i \in Ids : items[i] # Null}} ELSE draft[q]
      BY <1>1, <2>1
    <2> QED BY <2>1, <2>2 DEF Cards
  <1>3. ASSUME NEW c \in draft[r], ReadVerdict(r, c)
        PROVE  /\ page' = page
               /\ \A q \in Runs \ {r} : draft'[q] = draft[q]
               /\ c.verdict = "unread"
               /\ draft'[r] \subseteq draft[r] \cup {WithVerdict(r, c)}
    BY <1>1, <1>3 DEF ReadVerdict
  <1>4. ASSUME NEW c \in draft[r], ReadBody(r, c)
        PROVE  /\ page' = page
               /\ \A q \in Runs \ {r} : draft'[q] = draft[q]
               /\ c.body = "unread"
               /\ draft'[r] \subseteq draft[r] \cup {WithBody(r, c)}
    BY <1>1, <1>4 DEF ReadBody
  <1>5. CASE UNCHANGED <<draft, page>>
    BY <1>5 DEF Cards
  <1>6. CASE /\ draft' = [draft EXCEPT ![r] = {}]
             /\ page' = page \/ page' = draft[r]
    BY <1>1, <1>6 DEF Cards
  <1>7. CASE \E c \in draft[r] : ReadVerdict(r, c) \/ ReadBody(r, c)
    BY <1>3, <1>4, <1>7 DEF Cards
  <1> QED BY <1>2, <1>5, <1>6, <1>7, StepDraft

\* A purge takes a card's rows only with its item.
LEMMA CardsPurge ==
    ASSUME Inv, Locks, CardsHeld, NEW s \in Sources, Purge(s)
    PROVE  CardsHeld'
  <1>1. /\ judgments' = {j \in judgments : j.item \notin Gone(s)}
        /\ extractions' = {x \in extractions : x.item \notin Gone(s)}
        /\ astray \subseteq astray'
        /\ UNCHANGED <<pend, pc, runs, draft, page>>
        /\ \A r \in Runs : pend[r] = NoPend
    BY PurgeEffect
  <1>2. \A r \in Runs : /\ SeenJudgments(r) = judgments /\ SeenJudgments(r)' = judgments'
                       /\ SeenExtractions(r) = extractions
                       /\ SeenExtractions(r)' = extractions'
    BY <1>1, NoPendIs DEF SeenJudgments, SeenExtractions
  <1>3. ASSUME NEW c \in Cards'
        PROVE  Abiding(c)' /\ CardHeld(c)'
    <2>1. c \in Cards
      BY <1>1 DEF Cards
    <2>2. /\ Abiding(c)'
          /\ Stands(c)' => Stands(c) /\ c.item \notin Gone(s)
      BY <2>1, CardsType, PurgeStands DEF CardsHeld, Inv
    <2>3. ASSUME Judged(c), Stands(c)'
          PROVE  /\ c.run \in Runs
                 /\ \/ Lost(c.run)' \/ Strayed(c.run, c.item)'
                    \/ Backs(c, SeenJudgments(c.run)', SeenExtractions(c.run)')
      <3>1. /\ c.run \in Runs
            /\ \/ Lost(c.run) \/ Strayed(c.run, c.item)
               \/ Backs(c, SeenJudgments(c.run), SeenExtractions(c.run))
        BY <2>1, <2>2, <2>3 DEF CardsHeld, CardHeld
      <3>2. Backs(c, judgments, extractions) => Backs(c, judgments', extractions')
        BY <1>1, <2>2, <2>3 DEF Backs
      <3> QED BY <1>1, <1>2, <3>1, <3>2 DEF Lost, Strayed
    <2> QED BY <2>2, <2>3 DEF CardHeld
  <1> QED BY <1>3 DEF CardsHeld

\* A card whose verdict is not read yet has no body.
BlankCards == \A r \in Runs : \A c \in draft[r] : c.verdict = "unread" => c.body = "none"

LEMMA BlankNext ==
    ASSUME Inv, BlankCards, [Next]_vars
    PROVE  BlankCards'
  <1>1. draft \in [Runs -> SUBSET CardShape] /\ Typed
    BY DEF Inv, Typed, PageOK
  <1>2. ASSUME NEW r \in Runs, Step(r)
        PROVE  BlankCards'
    <2>1. CASE List(r)
      <3>1. draft' = [draft EXCEPT ![r] = {Blank(i) : i \in {i \in Ids : items[i] # Null}}]
        BY <2>1 DEF List
      <3>2. \A i : Blank(i).body = "none"
        BY DEF Blank
      <3> QED BY <1>1, <3>1, <3>2 DEF BlankCards
    <2>2. ASSUME NEW c \in draft[r], ReadVerdict(r, c)
          PROVE  BlankCards'
      <3>1. WithVerdict(r, c).verdict # "unread"
        BY <1>1, WithVerdictType DEF Typed
      <3>2. /\ draft'[r] \subseteq draft[r] \cup {WithVerdict(r, c)}
            /\ \A q \in Runs \ {r} : draft'[q] = draft[q]
        BY <1>1, <2>2 DEF ReadVerdict
      <3> QED BY <3>1, <3>2 DEF BlankCards
    <2>3. ASSUME NEW c \in draft[r], ReadBody(r, c)
          PROVE  BlankCards'
      <3>1. c.body = "unread" /\ WithBody(r, c).verdict = c.verdict
        BY <1>1, <2>3, WithBodyType DEF ReadBody, Typed
      <3>2. c.verdict # "unread"
        BY <3>1 DEF BlankCards
      <3>3. /\ draft'[r] \subseteq draft[r] \cup {WithBody(r, c)}
            /\ \A q \in Runs \ {r} : draft'[q] = draft[q]
        BY <1>1, <2>3 DEF ReadBody
      <3> QED BY <3>1, <3>2, <3>3 DEF BlankCards
    <2>4. CASE draft' = draft \/ draft' = [draft EXCEPT ![r] = {}]
      BY <1>1, <2>4 DEF BlankCards
    <2> QED BY <1>1, <1>2, <2>1, <2>2, <2>3, <2>4, StepDraft
  <1>3. ASSUME ~\E r \in Runs : Step(r)
        PROVE  \A r \in Runs : draft'[r] = draft[r] \/ draft'[r] = {}
    BY <1>3 DEF Next, Start, SavePrompt, SetEnabled, Purge, Crash, local, vars
  <1>4. CASE ~\E r \in Runs : Step(r)
    BY <1>3, <1>4 DEF BlankCards
  <1> QED BY <1>2, <1>4

LEMMA CardsNext ==
    ASSUME Inv, Locks, Faithful, BlankCards, CardsHeld, [Next]_vars
    PROVE  CardsHeld'
  <1>1. ASSUME NEW r \in Runs, Step(r)
        PROVE  CardsHeld'
    <2>1. Typed /\ Typed' /\ StoreOK
      BY TypedNext DEF Inv, Typed
    <2>2. ASSUME NEW i \in Ids
          PROVE  Abiding(Blank(i)) /\ CardHeld(Blank(i))
      BY DEF Blank, Abiding, Stands, CardHeld, Judged
    <2>3. ASSUME NEW c \in draft[r]
          PROVE  c \in CardShape /\ Abiding(c) /\ CardHeld(c)
      <3>1. c \in Cards
        BY <2>3 DEF Cards
      <3> QED BY <2>1, <3>1, CardsType DEF CardsHeld
    <2>4. ASSUME NEW c \in draft[r], c.verdict = "unread"
          PROVE  Abiding(WithVerdict(r, c)) /\ CardHeld(WithVerdict(r, c))
      <3>1. c.body = "none"
        BY <2>4 DEF BlankCards
      <3>2. /\ WithVerdict(r, c).item = c.item
            /\ WithVerdict(r, c).article = c.article
        BY <2>1, <2>3, WithVerdictType
      <3> QED BY <2>3, <2>4, <3>1, <3>2, VerdictHeld DEF Abiding, Stands
    <2>5. ASSUME NEW c \in draft[r], c.body = "unread"
          PROVE  Abiding(WithBody(r, c)) /\ CardHeld(WithBody(r, c))
      <3>1. WithBody(r, c).item = c.item /\ WithBody(r, c).article = c.article
        BY <2>1, <2>3, WithBodyType
      <3> QED BY <2>3, <2>5, <3>1, BodyHeld DEF Abiding, Stands
    <2>6. ASSUME NEW c \in Cards'
          PROVE  /\ c.item \in Ids /\ c.article \in Articles
                 /\ Abiding(c) /\ CardHeld(c)
      <3>1. c.item \in Ids /\ c.article \in Articles
        <4>1. c \in CardShape
          BY <2>1, <2>6 DEF Typed, PageOK, Cards
        <4> QED BY <4>1 DEF CardShape
      <3>2. CASE c \in Cards
        BY <3>1, <3>2 DEF CardsHeld
      <3> QED BY <1>1, <2>1, <2>2, <2>4, <2>5, <2>6, <3>1, <3>2, StepCards
    <2>7. ASSUME NEW c \in Cards'
          PROVE  Abiding(c)' /\ CardHeld(c)'
      <3>1. Abiding(c)' /\ (Stands(c)' => Stands(c))
        BY <1>1, <2>1, <2>6, <2>7, StepStands
      <3>2. CardHeld(c)'
        BY <1>1, <2>6, <2>7, <3>1, CardKeptStep
      <3> QED BY <3>1, <3>2
    <2> QED BY <2>7 DEF CardsHeld
  <1>2. CASE (~\E r \in Runs : Step(r)) /\ ~\E s \in Sources : Purge(s)
    <2>1. /\ UNCHANGED <<items, sources, judgments, extractions, page, astray>>
          /\ \A r \in Runs :
                /\ draft'[r] \subseteq draft[r]
                /\ \/ pc'[r] = pc[r] /\ runs'[r] = runs[r] /\ pend'[r] = pend[r]
                   \/ pc[r] = "idle" /\ pend'[r] = pend[r]
                   \/ pc'[r] = "done" /\ runs'[r] = runs[r] /\ Live(r)
                   \/ pc'[r] = pc[r] /\ runs'[r] = runs[r] /\ pend'[r] \in {pend[r], NoPend}
                        /\ ~Live(r)
      BY <1>2, OthersQuiet
    <2>2. \A r \in Runs : ~Live(r) => pend[r] = NoPend
      BY DEF Locks, PendLocked, LiveLocks, Writes
    <2>3. ASSUME NEW c \in Cards'
          PROVE  Abiding(c)' /\ CardHeld(c)'
      <3>0. c \in Cards
        BY <2>1, <2>3 DEF Cards
      <3>1. Abiding(c) /\ CardHeld(c)
        BY <3>0 DEF CardsHeld
      <3>2. Abiding(c)' /\ (Stands(c)' => Stands(c))
        BY <2>1, <3>1 DEF Abiding, Stands
      <3> SUFFICES ASSUME Judged(c), Stands(c), ~Strayed(c.run, c.item)
                   PROVE  /\ c.run \in Runs
                          /\ \/ Lost(c.run)'
                             \/ Backs(c, SeenJudgments(c.run)', SeenExtractions(c.run)')
        BY <2>1, <3>1, <3>2 DEF CardHeld, Strayed
      <3> DEFINE q == c.run
      <3>3. q \in Runs /\ (Lost(q) \/ Backs(c, SeenJudgments(q), SeenExtractions(q)))
        BY <3>1 DEF CardHeld
      <3>4. CASE pc'[q] = "done" /\ runs'[q] = runs[q] /\ Live(q)
        BY <3>3, <3>4 DEF Lost, Locks, Running
      <3>5. CASE pend'[q] = pend[q] /\ pc[q] = "idle"
        <4>1. /\ SeenJudgments(q)' = SeenJudgments(q)
              /\ SeenExtractions(q)' = SeenExtractions(q)
          BY <2>1, <3>5 DEF SeenJudgments, SeenExtractions
        <4> QED BY <3>3, <3>5, <4>1 DEF Lost
      <3>6. CASE pend'[q] = pend[q] /\ pc'[q] = pc[q] /\ runs'[q] = runs[q]
        <4>1. /\ SeenJudgments(q)' = SeenJudgments(q)
              /\ SeenExtractions(q)' = SeenExtractions(q)
          BY <2>1, <3>6 DEF SeenJudgments, SeenExtractions
        <4> QED BY <3>3, <3>6, <4>1 DEF Lost
      <3> QED BY <2>1, <2>2, <3>3, <3>4, <3>5, <3>6
    <2> QED BY <2>3 DEF CardsHeld
  <1> QED BY <1>1, <1>2, CardsPurge

\* A judged card whose article is still there repeats a stored verdict about it and
\* a body of that verdict's run, whatever other runs and purges did while it was
\* composed: but for a run whose row was never closed, and for an item purged under
\* its call.
THEOREM PageBackedHolds == Spec => []PageBacked
  <1>1. Init => Inv /\ Locks /\ Faithful /\ BlankCards /\ CardsHeld
    <2> SUFFICES ASSUME Init
                 PROVE  BlankCards /\ CardsHeld
      BY InvInit, LocksInit, FaithfulInit
    <2>1. Cards = {} /\ \A r \in Runs : draft[r] = {}
      BY DEF Init, Cards
    <2> QED BY <2>1 DEF CardsHeld, BlankCards
  <1>2. Inv /\ Locks /\ Faithful /\ BlankCards /\ CardsHeld /\ [Next]_vars
           => (Inv /\ Locks /\ Faithful /\ BlankCards /\ CardsHeld)'
    BY InvNext, LocksNext, FaithfulNext, BlankNext, CardsNext
  <1>3. Inv /\ Locks /\ CardsHeld => PageBacked
    <2> SUFFICES ASSUME Inv, Locks, CardsHeld, NEW c \in page, c.verdict # "unjudged",
                        Stands(c), runs[c.run].status # "running", ~Astray(c)
                 PROVE  Backed(c)
      BY DEF PageBacked
    <2>0. Judged(c) /\ c.body # "unread" /\ c \in CardShape
      BY DEF Inv, Typed, PageOK, Unread, Judged, CardShape
    <2>1. /\ c.run \in Runs
          /\ Backs(c, SeenJudgments(c.run), SeenExtractions(c.run))
      BY <2>0 DEF CardsHeld, Cards, CardHeld, Lost, Strayed, Astray
    <2>2. ~Live(c.run)
      BY <2>1 DEF Locks, Running
    <2>3. pend[c.run] = NoPend
      BY <2>1, <2>2 DEF Locks, PendLocked, LiveLocks, Writes
    <2>4. SeenJudgments(c.run) = judgments /\ SeenExtractions(c.run) = extractions
      BY <2>3, NoPendIs DEF SeenJudgments, SeenExtractions
    <2>5. c.body # "none" => c.body \in {"full", "hole"}
      BY <2>0 DEF CardShape
    <2> QED BY <2>1, <2>4, <2>5 DEF Backs, Backed
  <1> QED BY <1>1, <1>2, <1>3, PTL DEF Spec

(***************************************************************************)
(* The dashboard of a run that had it to itself.                           *)
(***************************************************************************)

\* One run at a time: no reprocess is started while another run is live.
Alone == \A q, r \in Runs : Live(q) /\ Live(r) => q = r

Standing(cards) == {c \in cards : Stands(c)}

\* What a card will be when its run has looked up all of it.
Finished(r, c) == WithBody(r, WithVerdict(r, c))

\* The cards D that run r has in hand are, but for what was purged since, those of
\* the items: a card will be its item's, what has a verdict is shown, and no item
\* that is to be shown is left out.
InHand(r, D) ==
    /\ \A c \in Standing(D) : Finished(r, c) = Card(r, c.item)
    /\ \A c \in D : c.verdict = "unread" \/ Shown(c)
    /\ \A i \in Ids : items[i] # Null /\ Shown(Card(r, i)) =>
          \E c \in Standing(D) : c.item = i

\* What a run composed is, but for what was purged since, what it would compose
\* now, until it is done.
Kept ==
    \A r \in Runs :
        /\ pc[r] = "cards" => InHand(r, draft[r])
        /\ pc[r] = "prune" \/ (pc[r] = "close" /\ ~failed[r]) => Standing(page) = Sections(r)

\* What is looked up depends on what the run sees of the item, and on no more.
VerdictsOn(r, i)  == {j \in SeenJudgments(r) : j.item = i}
BodiesOf(r, i, s) == {x \in SeenExtractions(r) : x.item = i /\ x.run = s}

Verdicted(c, of) ==
    LET shown == Last(of)
    IN  IF c.verdict # "unread" THEN c
        ELSE IF of = {} THEN [c EXCEPT !.verdict = "unjudged"]
        ELSE IF shown.passed
             THEN [c EXCEPT !.verdict = "passed", !.run = shown.run, !.body = "unread"]
        ELSE [c EXCEPT !.verdict = "rejected", !.run = shown.run]

LEMMA LookupsAre ==
    ASSUME NEW r, NEW c
    PROVE  /\ WithVerdict(r, c) = Verdicted(c, VerdictsOn(r, c.item))
           /\ WithBody(r, c) = IF c.body # "unread" THEN c
                              ELSE Bodied(c, BodiesOf(r, c.item, c.run))
  BY DEF WithVerdict, Verdicted, VerdictsOn, WithBody, BodiesOf

LEMMA LookupsNow ==
    ASSUME NEW r, NEW c
    PROVE  /\ WithVerdict(r, c)' = Verdicted(c, VerdictsOn(r, c.item)')
           /\ WithBody(r, c)' = IF c.body # "unread" THEN c
                               ELSE Bodied(c, BodiesOf(r, c.item, c.run)')
  BY DEF WithVerdict, Verdicted, VerdictsOn, WithBody, Bodied, BodiesOf, Last

LEMMA LookupsSame ==
    ASSUME NEW q, NEW r, NEW c, VerdictsOn(q, c.item)' = VerdictsOn(r, c.item),
           \A s : BodiesOf(q, c.item, s)' = BodiesOf(r, c.item, s)
    PROVE  WithVerdict(q, c)' = WithVerdict(r, c) /\ WithBody(q, c)' = WithBody(r, c)
  <1>1. BodiesOf(q, c.item, c.run)' = BodiesOf(r, c.item, c.run)
    OBVIOUS
  <1> QED BY <1>1, LookupsAre, LookupsNow

LEMMA FinishedNow ==
    ASSUME NEW r, NEW c, NEW d, WithVerdict(r, c)' = d
    PROVE  Finished(r, c)' = WithBody(r, d)'
  BY DEF Finished

LEMMA FinishedSame ==
    ASSUME StoreOK, NEW q, NEW r \in Runs, NEW c \in CardShape,
           VerdictsOn(q, c.item)' = VerdictsOn(r, c.item),
           \A s : BodiesOf(q, c.item, s)' = BodiesOf(r, c.item, s)
    PROVE  Finished(q, c)' = Finished(r, c)
  <1>1. PICK d : d = WithVerdict(r, c)
    OBVIOUS
  <1>2. d.item = c.item
    BY <1>1, WithVerdictType
  <1>3. WithVerdict(q, c)' = d
    BY <1>1, LookupsSame
  <1>4. Finished(r, c) = WithBody(r, d)
    BY <1>1 DEF Finished
  <1>5. Finished(q, c)' = WithBody(q, d)'
    BY <1>3, FinishedNow
  <1>6. WithBody(q, d)' = WithBody(r, d)
    BY <1>2, LookupsSame
  <1> QED BY <1>4, <1>5, <1>6

LEMMA FinishedType ==
    ASSUME StoreOK, NEW r \in Runs, NEW c \in CardShape
    PROVE  /\ Finished(r, c).item = c.item /\ Finished(r, c).article = c.article
           /\ Finished(r, c).verdict = WithVerdict(r, c).verdict
           /\ ~Unread(c) => Finished(r, c) = c
  BY WithVerdictType, WithBodyType DEF Finished, Unread

LEMMA CardIs ==
    ASSUME TablesOK, StoreOK, NEW r \in Runs, NEW i \in Ids, items[i] # Null
    PROVE  /\ Blank(i) \in CardShape
           /\ Card(r, i) = Finished(r, Blank(i))
           /\ Card(r, i).item = i /\ Card(r, i).article = items[i]
  <1>1. Blank(i) \in CardShape /\ Blank(i).item = i /\ Blank(i).article = items[i]
    BY DEF Blank, CardShape, TablesOK
  <1>2. Card(r, i) = Finished(r, Blank(i))
    BY DEF Card, Finished
  <1> QED BY <1>1, <1>2, FinishedType

LEMMA CardNow ==
    ASSUME NEW r, NEW i, NEW b, Blank(i)' = b
    PROVE  Card(r, i)' = Finished(r, b)'
  BY DEF Card, Finished

\* Of the items left q then sees what r saw: what r has in hand, and a page that
\* shows what r saw, are then as good for q.
Alike(q, r) ==
    \A i \in Ids : items'[i] # Null =>
        /\ items'[i] = items[i]
        /\ VerdictsOn(q, i)' = VerdictsOn(r, i)
        /\ \A s : BodiesOf(q, i, s)' = BodiesOf(r, i, s)

LEMMA AlikeCard ==
    ASSUME TablesOK, StoreOK, NEW q \in Runs, NEW r \in Runs, Alike(q, r),
           NEW i \in Ids, items'[i] # Null
    PROVE  /\ items'[i] = items[i]
           /\ Card(q, i)' = Card(r, i)
           /\ \A c \in CardShape : c.item = i => Finished(q, c)' = Finished(r, c)
  <1>1. ASSUME NEW c \in CardShape, c.item = i
        PROVE  Finished(q, c)' = Finished(r, c)
    BY <1>1, FinishedSame DEF Alike
  <1>2. PICK b : b = Blank(i)
    OBVIOUS
  <1>3. items'[i] = items[i]
    BY DEF Alike
  <1>4. Blank(i)' = b /\ b.item = i /\ b \in CardShape
    BY <1>2, <1>3, CardIs DEF Blank
  <1>5. Card(q, i)' = Finished(q, b)' /\ Card(r, i) = Finished(r, b)
    BY <1>2, <1>3, <1>4, CardNow, CardIs
  <1> QED BY <1>1, <1>3, <1>4, <1>5

LEMMA AlikeKept ==
    ASSUME TablesOK, StoreOK, NEW q \in Runs, NEW r \in Runs, Alike(q, r),
           NEW D \in SUBSET CardShape
    PROVE  /\ InHand(r, D) => InHand(q, D)'
           /\ Standing(D) = Sections(r) => Standing(D)' = Sections(q)'
  <1>1. ASSUME NEW c \in D
        PROVE  /\ c.item \in Ids /\ c.article \in Articles /\ c.article # Null
               /\ Stands(c)' => items'[c.item] # Null
    BY GateAssumption DEF CardShape, Stands
  <1>2. ASSUME NEW c \in Standing(D)'
        PROVE  /\ c \in D /\ c \in Standing(D) /\ items'[c.item] # Null
               /\ Finished(q, c)' = Finished(r, c)
               /\ Card(q, c.item)' = Card(r, c.item)
    <2>1. c \in D /\ Stands(c)'
      BY DEF Standing
    <2>2. items'[c.item] = items[c.item]
      BY <1>1, <2>1, AlikeCard
    <2> QED BY <1>1, <2>1, <2>2, AlikeCard DEF Standing, Stands
  <1>3. ASSUME NEW c \in Standing(D), items'[c.item] # Null
        PROVE  c \in Standing(D)'
    <2>1. c \in D /\ Stands(c)
      BY DEF Standing
    <2>2. items'[c.item] = items[c.item]
      BY <1>1, <1>3, <2>1, AlikeCard
    <2> QED BY <2>1, <2>2 DEF Standing, Stands
  <1>4. ASSUME InHand(r, D)
        PROVE  InHand(q, D)'
    <2>1. ASSUME NEW c \in Standing(D)'
          PROVE  Finished(q, c)' = Card(q, c.item)'
      BY <1>2, <1>4 DEF InHand
    <2>2. \A c \in D : c.verdict = "unread" \/ Shown(c)
      BY <1>4 DEF InHand
    <2>3. ASSUME NEW i \in Ids, items'[i] # Null, Shown(Card(q, i))'
          PROVE  \E c \in Standing(D)' : c.item = i
      <3>1. Card(q, i)' = Card(r, i) /\ items[i] # Null
        BY <2>3, AlikeCard
      <3>2. Shown(Card(r, i))
        BY <2>3, <3>1 DEF Shown
      <3>3. PICK c \in Standing(D) : c.item = i
        BY <1>4, <3>1, <3>2 DEF InHand
      <3> QED BY <1>3, <2>3, <3>3
    <2> QED BY <2>1, <2>2, <2>3 DEF InHand, Shown
  <1>5. ASSUME Standing(D) = Sections(r)
        PROVE  Standing(D)' = Sections(q)'
    <2>1. ASSUME NEW c \in Standing(D)'
          PROVE  c \in Sections(q)'
      <3>1. c \in Sections(r) /\ c \in CardShape
        BY <1>2, <1>5
      <3>2. PICK i \in Ids : c = Card(r, i) /\ items[i] # Null
        BY <3>1 DEF Sections
      <3>3. c.item = i
        BY <3>2, CardIs
      <3>4. c = Card(q, i)' /\ items'[i] # Null /\ Shown(c)
        BY <1>2, <3>1, <3>2, <3>3 DEF Sections
      <3> QED BY <3>4 DEF Sections, Shown
    <2>2. ASSUME NEW c \in Sections(q)'
          PROVE  c \in Standing(D)'
      <3>1. PICK i \in Ids : c = Card(q, i)' /\ items'[i] # Null
        BY <2>2 DEF Sections
      <3>2. c = Card(r, i) /\ items[i] # Null
        BY <3>1, AlikeCard
      <3>3. Shown(c)
        BY <2>2 DEF Sections, Shown
      <3>4. c \in Sections(r) /\ c.item = i
        BY <3>2, <3>3, CardIs DEF Sections
      <3> QED BY <1>3, <1>5, <3>1, <3>4
    <2> QED BY <2>1, <2>2
  <1> QED BY <1>4, <1>5

LEMMA AlikeSame ==
    ASSUME NEW q, NEW r, UNCHANGED items, SeenJudgments(q)' = SeenJudgments(r),
           SeenExtractions(q)' = SeenExtractions(r)
    PROVE  Alike(q, r)
  BY DEF Alike, VerdictsOn, BodiesOf

LEMMA AlikePurge ==
    ASSUME Locks, NEW s \in Sources, Purge(s), NEW r \in Runs
    PROVE  Alike(r, r)
  <1>1. /\ items' = [i \in Ids |-> IF i \in Gone(s) THEN Null ELSE items[i]]
        /\ judgments' = {j \in judgments : j.item \notin Gone(s)}
        /\ extractions' = {x \in extractions : x.item \notin Gone(s)}
        /\ pend[r] = NoPend /\ pend'[r] = NoPend
    BY PurgeEffect
  <1>2. /\ SeenJudgments(r) = judgments /\ SeenJudgments(r)' = judgments'
        /\ SeenExtractions(r) = extractions /\ SeenExtractions(r)' = extractions'
    BY <1>1, NoPendIs DEF SeenJudgments, SeenExtractions
  <1>3. ASSUME NEW i \in Ids, items'[i] # Null
        PROVE  i \notin Gone(s) /\ items'[i] = items[i]
    BY <1>1, <1>3
  <1>4. ASSUME NEW i \in Ids, i \notin Gone(s)
        PROVE  /\ {j \in judgments' : j.item = i} = {j \in judgments : j.item = i}
               /\ \A t : {x \in extractions' : x.item = i /\ x.run = t}
                            = {x \in extractions : x.item = i /\ x.run = t}
    BY <1>1, <1>4
  <1> QED BY <1>2, <1>3, <1>4 DEF Alike, VerdictsOn, BodiesOf

\* The list has every item on it ...
LEMMA ListHand ==
    ASSUME TablesOK, StoreOK, NEW r \in Runs, NEW D,
           D = {Blank(i) : i \in {i \in Ids : items[i] # Null}}
    PROVE  InHand(r, D)
  <1>1. ASSUME NEW i \in Ids, items[i] # Null
        PROVE  /\ Blank(i).item = i /\ Blank(i).verdict = "unread" /\ Stands(Blank(i))
               /\ Finished(r, Blank(i)) = Card(r, i)
    BY <1>1, CardIs DEF Blank, Stands
  <1> QED BY <1>1 DEF InHand, Standing

\* ... looking up a card takes it to what it will be, or off the list if that is not
\* to be shown ...
LEMMA VerdictHand ==
    ASSUME StoreOK, NEW r \in Runs, NEW D \in SUBSET CardShape, InHand(r, D), NEW c \in D,
           NEW E, E = (D \ {c}) \cup {d \in {WithVerdict(r, c)} : Shown(d)}
    PROVE  InHand(r, E)
  <1>1. PICK d \in CardShape : d = WithVerdict(r, c)
    BY WithVerdictType
  <1>2. /\ d.item = c.item /\ d.article = c.article /\ d.verdict # "unread"
        /\ WithVerdict(r, d) = d
    BY <1>1, WithVerdictType
  <1>3. Finished(r, d) = Finished(r, c)
    BY <1>1, <1>2 DEF Finished
  <1>4. Stands(d) <=> Stands(c)
    BY <1>2 DEF Stands
  <1>5. Shown(d) <=> Shown(Finished(r, c))
    BY <1>1, FinishedType DEF Shown
  <1>6. ASSUME NEW e \in Standing(E)
        PROVE  Finished(r, e) = Card(r, e.item)
    BY <1>1, <1>2, <1>3, <1>4 DEF InHand, Standing
  <1>7. ASSUME NEW i \in Ids, items[i] # Null, Shown(Card(r, i))
        PROVE  \E e \in Standing(E) : e.item = i
    <2>1. PICK b \in Standing(D) : b.item = i
      BY <1>7 DEF InHand
    <2>2. CASE b # c
      BY <2>1, <2>2 DEF Standing
    <2>3. CASE b = c
      <3>1. Finished(r, c) = Card(r, i)
        BY <2>1, <2>3 DEF InHand
      <3> QED BY <1>1, <1>2, <1>4, <1>5, <1>7, <2>1, <2>3, <3>1 DEF Standing
    <2> QED BY <2>2, <2>3
  <1>8. \A e \in E : e.verdict = "unread" \/ Shown(e)
    BY <1>1 DEF InHand
  <1> QED BY <1>6, <1>7, <1>8 DEF InHand

LEMMA BodyHand ==
    ASSUME StoreOK, NEW r \in Runs, NEW D \in SUBSET CardShape, InHand(r, D), NEW c \in D,
           c.verdict # "unread", NEW E, E = (D \ {c}) \cup {WithBody(r, c)}
    PROVE  InHand(r, E)
  <1>1. PICK d \in CardShape : d = WithBody(r, c)
    BY WithBodyType
  <1>2. /\ d.item = c.item /\ d.article = c.article /\ d.verdict = c.verdict
        /\ WithBody(r, d) = d
    BY <1>1, WithBodyType
  <1>3. WithVerdict(r, d) = d /\ WithVerdict(r, c) = c
    BY <1>2, WithVerdictType
  <1>4. Finished(r, d) = Finished(r, c)
    BY <1>1, <1>2, <1>3 DEF Finished
  <1>5. Stands(d) <=> Stands(c)
    BY <1>2 DEF Stands
  <1>6. ASSUME NEW e \in Standing(E)
        PROVE  Finished(r, e) = Card(r, e.item)
    BY <1>1, <1>2, <1>4, <1>5 DEF InHand, Standing
  <1>7. ASSUME NEW i \in Ids, items[i] # Null, Shown(Card(r, i))
        PROVE  \E e \in Standing(E) : e.item = i
    <2>1. PICK b \in Standing(D) : b.item = i
      BY <1>7 DEF InHand
    <2> QED BY <1>1, <1>2, <1>5, <2>1 DEF Standing
  <1>8. \A e \in E : e.verdict = "unread" \/ Shown(e)
    BY <1>1, <1>2 DEF InHand, Shown
  <1> QED BY <1>6, <1>7, <1>8 DEF InHand

\* ... and what is looked up in full are the sections.
LEMMA WholeHand ==
    ASSUME TablesOK, StoreOK, NEW r \in Runs, NEW D \in SUBSET CardShape, InHand(r, D),
           \A c \in D : ~Unread(c)
    PROVE  Standing(D) = Sections(r)
  <1>1. ASSUME NEW c \in Standing(D)
        PROVE  c = Card(r, c.item) /\ c \in Sections(r)
    <2>1. c \in D /\ Stands(c) /\ c \in CardShape /\ ~Unread(c)
      BY DEF Standing
    <2>2. c = Card(r, c.item) /\ Shown(c)
      BY <2>1, FinishedType DEF InHand, Unread
    <2>3. c.item \in Ids /\ items[c.item] # Null
      BY <2>1, GateAssumption DEF CardShape, Stands
    <2> QED BY <2>2, <2>3 DEF Sections
  <1>2. ASSUME NEW c \in Sections(r)
        PROVE  c \in Standing(D)
    <2>1. PICK i \in Ids : c = Card(r, i) /\ items[i] # Null /\ Shown(c)
      BY DEF Sections
    <2>2. PICK b \in Standing(D) : b.item = i
      BY <2>1 DEF InHand
    <2> QED BY <1>1, <2>1, <2>2
  <1> QED BY <1>1, <1>2

\* How a run comes to look up its cards, to prune, and to close without having failed.
LEMMA StepPages ==
    ASSUME Typed, NEW r \in Runs, Step(r)
    PROVE  /\ pc'[r] = "cards" =>
                 List(r) \/ \E c \in draft[r] : ReadVerdict(r, c) \/ ReadBody(r, c)
           /\ pc'[r] = "prune" => Write(r)
           /\ pc'[r] = "close" /\ ~failed'[r] =>
                 Write(r) \/ (Prune(r) /\ pc[r] = "prune" /\ Stored(r, {}, {}, 0))
  BY DEF Step, Zone, ZoneRefused, Dropped, Land, LandRefused, PollRefused, Select,
     ReadRefused, Take, TakePurged, Pay, PayRefused, Skip, Judge, JudgeRefused, Extract,
     ExtractRefused, ExtractBreaks, InsertOrphan, List, ReadVerdict, ReadBody, Write,
     WriteFails, Prune, Close, CloseRefused, Polling, Composed, local, Goto, Fail,
     AfterVerdict, Typed, LocalOK

\* A run that is not live has nothing uncommitted.
LEMMA IdleSees ==
    ASSUME Locks, NEW r \in Runs, ~Live(r)
    PROVE  /\ pend[r] = NoPend
           /\ SeenJudgments(r) = judgments /\ SeenExtractions(r) = extractions
  <1>1. pend[r] = NoPend
    BY DEF Locks, PendLocked, LiveLocks, Writes
  <1> QED BY <1>1, NoPendIs DEF SeenJudgments, SeenExtractions

\* Composing changes what is in hand and nothing that is looked up.
LEMMA ReadsOnly ==
    ASSUME Typed, NEW r \in Runs, NEW D \in SUBSET CardShape, InHand(r, D),
           UNCHANGED <<items, judgments, extractions, pend>>, D = draft'[r]
    PROVE  InHand(r, draft[r])'
  <1>1. Alike(r, r)
    BY AlikeSame DEF SeenJudgments, SeenExtractions
  <1>2. InHand(r, D)'
    BY <1>1, AlikeKept DEF Typed
  <1> QED BY <1>2 DEF InHand, Standing

LEMMA HandStep ==
    ASSUME Inv, BlankCards, Kept, NEW r \in Runs, Step(r), pc'[r] = "cards"
    PROVE  InHand(r, draft[r])'
  <1>1. Typed /\ TablesOK /\ StoreOK /\ draft \in [Runs -> SUBSET CardShape]
    BY DEF Inv, Typed, PageOK
  <1>2. PICK D : D = draft'[r]
    OBVIOUS
  <1>3. CASE List(r)
    <2>1. /\ draft' = [draft EXCEPT ![r] = {Blank(i) : i \in {i \in Ids : items[i] # Null}}]
          /\ UNCHANGED <<items, judgments, extractions, pend>>
      BY <1>3 DEF List, tables, verdicts
    <2>2. D = {Blank(i) : i \in {i \in Ids : items[i] # Null}}
      BY <1>1, <1>2, <2>1
    <2>3. InHand(r, D)
      BY <1>1, <2>2, ListHand
    <2>4. D \in SUBSET CardShape
      BY <1>1, <2>2, CardIs
    <2> QED BY <1>1, <1>2, <2>1, <2>3, <2>4, ReadsOnly
  <1>4. ASSUME NEW c \in draft[r], ReadVerdict(r, c)
        PROVE  InHand(r, draft[r])'
    <2>1. /\ draft' = [draft EXCEPT ![r] =
                          (@ \ {c}) \cup {d \in {WithVerdict(r, c)} : Shown(d)}]
          /\ UNCHANGED <<items, judgments, extractions, pend>>
          /\ pc[r] = "cards"
      BY <1>4 DEF ReadVerdict, tables, verdicts
    <2>2. D = (draft[r] \ {c}) \cup {d \in {WithVerdict(r, c)} : Shown(d)}
      BY <1>1, <1>2, <2>1
    <2>3. InHand(r, draft[r]) /\ draft[r] \in SUBSET CardShape
      BY <1>1, <2>1 DEF Kept
    <2>4. InHand(r, D)
      BY <1>1, <2>2, <2>3, VerdictHand
    <2>5. D \in SUBSET CardShape
      BY <1>1, <2>2, <2>3, WithVerdictType
    <2> QED BY <1>1, <1>2, <2>1, <2>4, <2>5, ReadsOnly
  <1>5. ASSUME NEW c \in draft[r], ReadBody(r, c)
        PROVE  InHand(r, draft[r])'
    <2>1. /\ draft' = [draft EXCEPT ![r] = (@ \ {c}) \cup {WithBody(r, c)}]
          /\ UNCHANGED <<items, judgments, extractions, pend>>
          /\ pc[r] = "cards" /\ c.body = "unread"
      BY <1>5 DEF ReadBody, tables, verdicts
    <2>2. D = (draft[r] \ {c}) \cup {WithBody(r, c)}
      BY <1>1, <1>2, <2>1
    <2>3. InHand(r, draft[r]) /\ draft[r] \in SUBSET CardShape /\ c.verdict # "unread"
      BY <1>1, <2>1 DEF Kept, BlankCards
    <2>4. InHand(r, D)
      BY <1>1, <2>2, <2>3, BodyHand
    <2>5. D \in SUBSET CardShape
      BY <1>1, <2>2, <2>3, WithBodyType
    <2> QED BY <1>1, <1>2, <2>1, <2>4, <2>5, ReadsOnly
  <1> QED BY <1>1, <1>3, <1>4, <1>5, StepPages

\* A page that shows what r sees goes on doing so while q comes to see the same.
LEMMA PageKept ==
    ASSUME Typed, NEW q \in Runs, NEW r \in Runs, Alike(q, r), UNCHANGED page,
           Standing(page) = Sections(r)
    PROVE  Standing(page)' = Sections(q)'
  <1>1. PICK D \in SUBSET CardShape : D = page
    BY DEF Typed, PageOK
  <1>2. Standing(D)' = Sections(q)'
    BY <1>1, AlikeKept DEF Typed
  <1> QED BY <1>1, <1>2 DEF Standing

LEMMA KeptStep ==
    ASSUME Inv, Locks, BlankCards, Alone, Kept, DashboardSettles, NEW r \in Runs, Step(r)
    PROVE  Kept' /\ DashboardSettles'
  <1>1. Typed /\ TablesOK /\ StoreOK /\ draft[r] \in SUBSET CardShape
    BY DEF Inv, Typed, PageOK
  <1>2. /\ Live(r) /\ \A q \in Runs \ {r} : ~Live(q) /\ pc'[q] = pc[q]
    BY <1>1, StepLocal DEF Alone
  <1>3. ASSUME Write(r)
        PROVE  Standing(page)' = Sections(r)'
    <2>1. /\ UNCHANGED <<items, judgments, extractions, pend>>
          /\ page' = draft[r] /\ pc[r] = "cards" /\ \A c \in draft[r] : ~Unread(c)
      BY <1>3 DEF Write, Composed, tables, verdicts
    <2>2. PICK D \in SUBSET CardShape : D = draft[r]
      BY <1>1
    <2>3. InHand(r, D)
      BY <2>1, <2>2 DEF Kept
    <2>4. Standing(D) = Sections(r)
      BY <1>1, <2>1, <2>2, <2>3, WholeHand
    <2>5. Alike(r, r)
      BY <2>1, AlikeSame DEF SeenJudgments, SeenExtractions
    <2>6. Standing(D)' = Sections(r)'
      BY <1>1, <2>4, <2>5, AlikeKept
    <2> QED BY <2>1, <2>2, <2>6 DEF Standing
  <1>4. ASSUME Prune(r), pc[r] = "prune", Stored(r, {}, {}, 0)
        PROVE  Standing(page)' = Sections(r)'
    <2>1. Commits(r, {}, {}, 0) /\ UNCHANGED <<items, page>>
      BY <1>1, <1>4, StoredLeaves DEF Prune, tables
    <2>2. /\ SeenJudgments(r)' = SeenJudgments(r)
          /\ SeenExtractions(r)' = SeenExtractions(r)
      BY <2>1, NoPendIs DEF Commits, SeenJudgments, SeenExtractions
    <2>3. Alike(r, r)
      BY <2>1, <2>2, AlikeSame
    <2> QED BY <1>1, <1>4, <2>1, <2>3, PageKept DEF Kept
  <1>5. Kept'
    <2> SUFFICES ASSUME NEW q \in Runs
                 PROVE  /\ pc'[q] = "cards" => InHand(q, draft[q])'
                        /\ pc'[q] = "prune" \/ (pc'[q] = "close" /\ ~failed'[q])
                              => Standing(page)' = Sections(q)'
      BY DEF Kept
    <2>1. CASE q # r
      BY <1>2, <2>1 DEF Live
    <2>2. CASE q = r
      BY <1>1, <1>3, <1>4, <2>2, StepPages, HandStep
    <2> QED BY <2>1, <2>2
  <1>6. ASSUME Settled'
        PROVE  Standing(page)' = Sections(1)'
    <2>1. pc'[r] = "done" /\ runs'[r].status = "ok"
      BY <1>1, <1>6, StepLocal DEF Settled
    <2>2. Close(r)
      <3>1. CloseRefused(r) \/ ZoneRefused(r) => runs'[r].status = "running"
        BY <1>2 DEF CloseRefused, ZoneRefused, Dropped, Locks, Running
      <3> QED BY <1>1, <2>1, <3>1, StepEnds
    <2>3. pc[r] = "close" /\ ~failed[r] /\ pend[r].landed = Null
      <3>1. pc[r] = "close" /\ ~failed[r]
        BY <1>1, <2>1, <2>2 DEF Close, StoreOK
      <3> QED BY <3>1 DEF Locks, Landing
    <2>4. Standing(page) = Sections(r) /\ UNCHANGED <<items, page>>
      BY <2>2, <2>3 DEF Close, Kept
    <2>5. Commits(r, {}, {}, 0) /\ Others(r)
      BY <1>1, <2>2, CloseLeaves
    <2>6. 1 \in Runs
      BY GateAssumption DEF Runs
    <2>7. pend'[1] = NoPend
      <3>1. CASE r = 1
        BY <2>5, <3>1 DEF Commits
      <3>2. CASE r # 1
        BY <1>2, <2>5, <2>6, <3>2, IdleSees DEF Others
      <3> QED BY <3>1, <3>2
    <2>8. /\ SeenJudgments(1)' = SeenJudgments(r)
          /\ SeenExtractions(1)' = SeenExtractions(r)
      BY <2>5, <2>7, NoPendIs DEF Commits, SeenJudgments, SeenExtractions
    <2>9. Alike(1, r)
      BY <2>4, <2>8, AlikeSame
    <2> QED BY <1>1, <2>4, <2>6, <2>9, PageKept
  <1> QED BY <1>5, <1>6 DEF DashboardSettles, Standing

LEMMA KeptOthers ==
    ASSUME Inv, Locks, Kept, DashboardSettles, [Next]_vars,
           ~\E r \in Runs : Step(r), ~\E s \in Sources : Purge(s)
    PROVE  Kept' /\ DashboardSettles'
  <1>1. /\ UNCHANGED <<items, judgments, extractions, failed, page>>
        /\ \A r \in Runs :
              /\ pend'[r] \in {pend[r], NoPend}
              /\ \/ /\ pc'[r] = pc[r] /\ runs'[r] = runs[r] /\ pend'[r] = pend[r]
                    /\ draft'[r] = draft[r]
                 \/ pc[r] = "idle" /\ pc'[r] = "zone"
                 \/ pc'[r] = "done" /\ runs'[r] = runs[r] /\ Live(r)
                 \/ pc'[r] = pc[r] /\ runs'[r] = runs[r] /\ ~Live(r)
    BY OthersQuiet
  <1>2. Typed /\ draft \in [Runs -> SUBSET CardShape]
    BY DEF Inv, Typed, PageOK
  <1>3. Kept'
    <2> SUFFICES ASSUME NEW q \in Runs, pc'[q] \in {"cards", "prune", "close"}
                 PROVE  /\ pc'[q] = "cards" => InHand(q, draft[q])'
                        /\ pc'[q] = "prune" \/ (pc'[q] = "close" /\ ~failed'[q])
                              => Standing(page)' = Sections(q)'
      BY DEF Kept
    <2>1. pc'[q] = pc[q] /\ pend'[q] = pend[q] /\ draft'[q] = draft[q]
      BY <1>1 DEF Live
    <2>2. Alike(q, q)
      BY <1>1, <2>1, AlikeSame DEF SeenJudgments, SeenExtractions
    <2>3. ASSUME pc'[q] = "cards"
          PROVE  InHand(q, draft[q])'
      <3>1. PICK D \in SUBSET CardShape : D = draft[q]
        BY <1>2
      <3>2. InHand(q, D)'
        BY <1>2, <2>1, <2>2, <2>3, <3>1, AlikeKept DEF Kept, Typed
      <3> QED BY <2>1, <3>1, <3>2 DEF InHand, Standing
    <2> QED BY <1>1, <1>2, <2>1, <2>2, <2>3, PageKept DEF Kept
  <1>4. ASSUME Settled'
        PROVE  Standing(page)' = Sections(1)'
    <2>1. ASSUME NEW r \in Runs
          PROVE  /\ pc'[r] = pc[r] /\ runs'[r] = runs[r] /\ ~Live(r)
      <3>1. pc'[r] = "idle" \/ (pc'[r] = "done" /\ runs'[r].status = "ok")
        BY <1>4 DEF Settled
      <3>2. Live(r) => runs[r].status = "running"
        BY DEF Locks, Running
      <3> QED BY <1>1, <3>1, <3>2 DEF Live
    <2>2. Settled
      BY <1>4, <2>1 DEF Settled
    <2>3. 1 \in Runs
      BY <1>4, GateAssumption DEF Settled, Runs
    <2>4. pend'[1] = NoPend /\ pend[1] = NoPend
      BY <1>1, <2>1, <2>3, IdleSees
    <2>5. Alike(1, 1)
      BY <1>1, <2>4, AlikeSame DEF SeenJudgments, SeenExtractions
    <2>6. Standing(page) = Sections(1)
      BY <2>2 DEF DashboardSettles, Standing
    <2> QED BY <1>1, <1>2, <2>3, <2>5, <2>6, PageKept
  <1> QED BY <1>3, <1>4 DEF DashboardSettles, Standing

LEMMA KeptPurge ==
    ASSUME Inv, Locks, Kept, DashboardSettles, NEW s \in Sources, Purge(s)
    PROVE  Kept' /\ DashboardSettles'
  <1>1. UNCHANGED <<pc, runs, failed, draft, page>>
    BY PurgeEffect
  <1>2. Typed /\ draft \in [Runs -> SUBSET CardShape]
    BY DEF Inv, Typed, PageOK
  <1>3. ASSUME NEW r \in Runs
        PROVE  /\ Standing(page) = Sections(r) => Standing(page)' = Sections(r)'
               /\ InHand(r, draft[r]) => InHand(r, draft[r])'
    <2>1. Alike(r, r)
      BY AlikePurge
    <2>2. PICK D \in SUBSET CardShape : D = draft[r]
      BY <1>2
    <2>3. InHand(r, D) => InHand(r, D)'
      BY <1>2, <2>1, AlikeKept DEF Typed
    <2>4. InHand(r, D)' => InHand(r, draft[r])'
      BY <1>1, <2>2 DEF InHand, Standing
    <2> QED BY <1>1, <1>2, <2>1, <2>2, <2>3, <2>4, PageKept
  <1>4. Kept'
    BY <1>1, <1>3 DEF Kept
  <1>5. Settled' => Settled /\ 1 \in Runs
    BY <1>1, GateAssumption DEF Settled, Runs
  <1>6. DashboardSettles'
    BY <1>3, <1>5 DEF DashboardSettles, Standing
  <1> QED BY <1>4, <1>6

\* Once every run has ended well the dashboard shows each item that was not purged
\* with its latest verdict and that verdict's body, as long as runs are live one at
\* a time.
THEOREM DashboardSettlesHolds == Spec /\ []Alone => []DashboardSettles
  <1>1. Init => Inv /\ Locks /\ BlankCards /\ Kept /\ DashboardSettles
    <2>1. Init => \A r \in Runs : pc[r] = "idle" /\ draft[r] = {}
      BY DEF Init
    <2> QED BY <2>1, InvInit, LocksInit DEF BlankCards, Kept, DashboardSettles, Settled
  <1>2. /\ Inv /\ Locks /\ BlankCards /\ Kept /\ DashboardSettles
        /\ Alone
        /\ [Next]_vars
        => (Inv /\ Locks /\ BlankCards /\ Kept /\ DashboardSettles)'
    BY InvNext, LocksNext, BlankNext, KeptStep, KeptPurge, KeptOthers
  <1> QED BY <1>1, <1>2, PTL DEF Spec

\* A live run is of a kind that is started.
KindsKnown == \A r \in Runs : Live(r) => kind[r] \in Kinds

LEMMA KindsKnownNext ==
    ASSUME Inv, KindsKnown, [Next]_vars
    PROVE  KindsKnown'
  <1>1. ASSUME NEW r \in Runs, Step(r)
        PROVE  KindsKnown'
    <2>1. /\ kind' = kind /\ Live(r)
          /\ \A q \in Runs \ {r} : pc'[q] = pc[q]
      BY <1>1, StepLocal DEF Inv
    <2> QED BY <2>1 DEF KindsKnown, Live
  <1>2. ASSUME NEW r \in Runs, NEW k \in Kinds, Start(r, k)
        PROVE  KindsKnown'
    BY <1>2 DEF Start, Goto, KindsKnown, Live, Inv, Typed, LocalOK
  <1>3. CASE SavePrompt \/ Crash \/ \E s \in Sources : SetEnabled(s) \/ Purge(s)
    BY <1>3 DEF SavePrompt, Crash, SetEnabled, Purge, local, KindsKnown, Live
  <1>4. CASE UNCHANGED vars
    BY <1>4 DEF vars, local, KindsKnown, Live
  <1> QED BY <1>1, <1>2, <1>3, <1>4 DEF Next

\* Runs of the scheduler thread alone are live one at a time, so that what they
\* leave on the dashboard is what the tables say.
THEOREM ScheduledDashboardSettles ==
    ASSUME Kinds \subseteq Normal
    PROVE  Spec => []DashboardSettles
  <1>1. Init => Inv /\ KindsKnown
    <2>1. Init => KindsKnown
      BY DEF Init, KindsKnown, Live
    <2> QED BY <2>1, InvInit
  <1>2. Inv /\ KindsKnown /\ [Next]_vars => (Inv /\ KindsKnown)'
    BY InvNext, KindsKnownNext
  <1>3. Inv /\ KindsKnown => Alone
    BY DEF Inv, OneNormal, KindsKnown, Alone
  <1>4. Spec => []Alone
    BY <1>1, <1>2, <1>3, PTL DEF Spec
  <1> QED BY <1>4, DashboardSettlesHolds, PTL
=============================================================================
