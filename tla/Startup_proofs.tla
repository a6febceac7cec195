---------------------------- MODULE Startup_proofs ----------------------------
(***************************************************************************)
(* What Startup promises for any sources, any tables of the first          *)
(* migration, any BackupKeep and any number of starts and deaths.          *)
(***************************************************************************)
EXTENDS Startup, FiniteSetTheorems, TLAPS

USE DEF tables, locals, past

LEMMA UnitFacts ==
    /\ \A u \in 1 .. 3 : Units[u] \subseteq Columns
    /\ Columns = Units[1] \cup Units[2] \cup Units[3]
    /\ Units[3] = {Backfill}
    /\ Backfill \notin Units[1] \cup Units[2]
    /\ Backfill \notin Tables /\ Backfill \in Schema
    /\ \A u \in 1 .. 3 : Units[u] \subseteq Schema
  <1>1. Units[3] = {Backfill} /\ Backfill \notin Units[1] \cup Units[2]
    BY DEF Units, Backfill
  <1>2. 1 .. 3 = {1, 2, 3}
    OBVIOUS
  <1>3. Columns = Units[1] \cup Units[2] \cup Units[3]
    BY <1>2 DEF Columns
  <1> QED BY <1>1, <1>2, <1>3, StartupAssumption DEF Schema

LEMMA StartsIsNat ==
    ASSUME TypeOK PROVE Starts \in Nat
  <1>1. boots \in [Procs -> Nat] /\ "server" \in Procs /\ "cli" \in Procs
    BY DEF TypeOK, Procs
  <1>2. boots["server"] \in Nat /\ boots["cli"] \in Nat
    BY <1>1
  <1> QED BY <1>2 DEF Starts

(***************************************************************************)
(* Types.                                                                  *)
(***************************************************************************)
LEMMA InitTyped == Init => TypeOK
  <1> SUFFICES ASSUME Init PROVE TypeOK
    OBVIOUS
  <1>1. objs \in SUBSET Schema
    <2>1. PICK n \in 0 .. 3 : objs \in {{}, Tables \cup UNION {Units[u] : u \in 1 .. n}}
      BY DEF Init
    <2>2. \A u \in 1 .. n : Units[u] \subseteq Schema
      BY UnitFacts
    <2> QED BY <2>1, <2>2 DEF Schema
  <1>2. /\ cutoff \in [Sources -> {"no row", "null"}] /\ snaps = {}
        /\ pc = [p \in Procs |-> "off"] /\ missing = [p \in Procs |-> {}] /\ origin = objs
        /\ old = IF Backfill \in objs THEN {} ELSE Rows
        /\ polled = {} /\ overtaken = {}
    BY DEF Init
  <1>12. /\ boots = [p \in Procs |-> 0] /\ file = [p \in Procs |-> 0]
         /\ unit = [p \in Procs |-> 1] /\ failures = 0
    BY DEF Init
  <1>3. boots \in [Procs -> Nat] /\ \A p \in Procs : boots[p] <= MaxBoots[p]
    <2>1. MaxBoots \in [Procs -> Nat]
      BY StartupAssumption
    <2> QED BY <1>12, <2>1
  <1>4. Starts = 0
    BY <1>12 DEF Starts, Procs
  <1>5. file \in [Procs -> 0 .. Starts] /\ unit \in [Procs -> 1 .. 3]
    BY <1>12, <1>4
  <1>6. Rows \subseteq Sources /\ failures \in 0 .. MaxFailures
    <2>1. Rows \subseteq Sources
      BY DEF Rows
    <2>2. MaxFailures \in Nat
      BY StartupAssumption
    <2> QED BY <1>12, <2>1, <2>2
  <1>7. old \in SUBSET Sources
    BY <1>2, <1>6
  <1>8. cutoff \in [Sources -> {"no row", "null", "newest item", "migration", "first poll"}]
    BY <1>2
  <1>9. pc \in [Procs -> Stages] /\ missing \in [Procs -> SUBSET Schema]
    BY <1>2 DEF Stages
  <1>10. retired \in BOOLEAN /\ unsaved \in BOOLEAN /\ cutShort \in BOOLEAN
    BY DEF Init
  <1>11. snaps \subseteq [stamp : 1 .. Starts, whole : BOOLEAN, of : SUBSET Schema]
    BY <1>2
  <1> QED BY <1>1, <1>2, <1>3, <1>5, <1>6, <1>7, <1>8, <1>9, <1>10, <1>11 DEF TypeOK

LEMMA BootTyped ==
    ASSUME TypeOK, NEW p \in Procs, Boot(p)
    PROVE  TypeOK' /\ Starts' = Starts + 1
  <1>1. boots' \in [Procs -> Nat] /\ (\A q \in Procs : boots'[q] <= MaxBoots[q])
        /\ Starts' = Starts + 1
    <2>1. boots \in [Procs -> Nat] /\ boots' = [boots EXCEPT ![p] = @ + 1]
          /\ boots[p] < MaxBoots[p]
      BY DEF TypeOK, Boot
    <2>2. MaxBoots \in [Procs -> Nat] /\ \A q \in Procs : boots[q] <= MaxBoots[q]
      BY StartupAssumption DEF TypeOK
    <2>3. p = "server" \/ p = "cli"
      BY DEF Procs
    <2>4. boots["server"] \in Nat /\ boots["cli"] \in Nat
      BY <2>1 DEF Procs
    <2>5. CASE p = "server"
      BY <2>1, <2>2, <2>4, <2>5 DEF Starts, Procs
    <2>6. CASE p = "cli"
      BY <2>1, <2>2, <2>4, <2>6 DEF Starts, Procs
    <2> QED BY <2>3, <2>5, <2>6
  <1>2. Starts \in Nat
    BY StartsIsNat
  <1> HIDE DEF Starts
  <1>3. file' \in [Procs -> 0 .. Starts']
    <2>1. file \in [Procs -> 0 .. Starts] /\ (file' = file \/ file' = [file EXCEPT ![p] = Starts'])
      BY DEF TypeOK, Boot
    <2> QED BY <2>1, <1>1, <1>2
  <1>4. snaps' \subseteq [stamp : 1 .. Starts', whole : BOOLEAN, of : SUBSET Schema]
    <2> DEFINE new == [stamp |-> Starts', whole |-> FALSE, of |-> {}]
    <2>1. /\ snaps \subseteq [stamp : 1 .. Starts, whole : BOOLEAN, of : SUBSET Schema]
          /\ snaps' \subseteq snaps \cup {new}
      BY DEF TypeOK, Boot
    <2>2. new \in [stamp : 1 .. Starts', whole : BOOLEAN, of : SUBSET Schema]
      BY <1>1, <1>2
    <2>3. [stamp : 1 .. Starts, whole : BOOLEAN, of : SUBSET Schema]
              \subseteq [stamp : 1 .. Starts', whole : BOOLEAN, of : SUBSET Schema]
      BY <1>1, <1>2
    <2> QED BY <2>1, <2>2, <2>3
  <1>5. pc' \in [Procs -> Stages]
    BY DEF TypeOK, Boot, Stages
  <1> QED BY <1>1, <1>3, <1>4, <1>5 DEF TypeOK, Boot, Rows

LEMMA TypedStep == TypeOK /\ [Next]_vars => TypeOK'
  <1> SUFFICES ASSUME TypeOK, [Next]_vars PROVE TypeOK'
    OBVIOUS
  <1>a. /\ unit \in [Procs -> 1 .. 3] /\ pc \in [Procs -> Stages]
        /\ missing \in [Procs -> SUBSET Schema] /\ objs \in SUBSET Schema
        /\ failures \in 0 .. MaxFailures
    BY DEF TypeOK
  <1>0. ASSUME UNCHANGED boots PROVE Starts' = Starts
    BY <1>0 DEF Starts
  <1>1. ASSUME NEW p \in Procs, Boot(p) PROVE TypeOK'
    BY <1>1, BootTyped
  <1>2. ASSUME NEW p \in Procs, Copied(p) PROVE TypeOK'
    <2>1. Starts' = Starts
      BY <1>2, <1>0 DEF Copied
    <2>2. snaps' \subseteq [stamp : 1 .. Starts, whole : BOOLEAN, of : SUBSET Schema]
      BY <1>2 DEF TypeOK, Copied
    <2> QED BY <1>2, <2>1, <2>2 DEF TypeOK, Copied, Stages
  <1>3. ASSUME NEW p \in Procs, Prune(p) PROVE TypeOK'
    <2>1. Starts' = Starts
      BY <1>3, <1>0 DEF Prune
    <2> QED BY <1>3, <2>1 DEF TypeOK, Prune, Newest, Stages
  <1>4. ASSUME NEW p \in Procs, Create(p) PROVE TypeOK'
    <2>1. Starts' = Starts
      BY <1>4, <1>0 DEF Create
    <2>2. objs' \in SUBSET Schema
      BY <1>a, <1>4 DEF Create, Schema
    <2>3. pc' \in [Procs -> Stages] /\ unit' \in [Procs -> 1 .. 3]
      BY <1>a, <1>4 DEF Create, Stages
    <2> QED BY <1>4, <2>1, <2>2, <2>3 DEF TypeOK, Create
  <1>5. ASSUME NEW p \in Procs, Look(p) PROVE TypeOK'
    <2>1. Starts' = Starts
      BY <1>5, <1>0 DEF Look
    <2>2. Absent(unit[p]) \in SUBSET Schema
      BY <1>a, UnitFacts DEF Absent
    <2> QED BY <1>5, <2>1, <2>2 DEF TypeOK, Look, Stages
  <1>6. ASSUME NEW p \in Procs, Alter(p) PROVE TypeOK'
    <2>1. Starts' = Starts
      BY <1>6, <1>0 DEF Alter
    <2>2. PICK c \in missing[p] : c \in Schema
      BY <1>a, <1>6 DEF Alter
    <2>3. objs' \in SUBSET Schema
      BY <1>a, <1>6 DEF Alter
    <2>4. missing' \in [Procs -> SUBSET Schema]
      BY <1>a, <1>6 DEF Alter
    <2>5. pc' \in [Procs -> Stages]
      BY <1>a, <1>6 DEF Alter, Stages
    <2> QED BY <1>6, <2>1, <2>3, <2>4, <2>5 DEF TypeOK, Alter
  <1>7. ASSUME NEW p \in Procs, NextUnit(p) PROVE TypeOK'
    <2>1. Starts' = Starts
      BY <1>7, <1>0 DEF NextUnit
    <2>2. unit' \in [Procs -> 1 .. 3]
      BY <1>a, <1>7 DEF NextUnit
    <2>3. pc' \in [Procs -> Stages]
      BY <1>a, <1>7 DEF NextUnit, Stages
    <2> QED BY <1>7, <2>1, <2>2, <2>3 DEF TypeOK, NextUnit
  <1>8. ASSUME NEW p \in Procs, Stamp(p) PROVE TypeOK'
    <2>1. Starts' = Starts
      BY <1>8, <1>0 DEF Stamp
    <2> QED BY <1>8, <2>1 DEF TypeOK, Stamp, BackfillDate, Stages
  <1>9. ASSUME NEW p \in Procs, Clean(p) PROVE TypeOK'
    <2>1. Starts' = Starts
      BY <1>9, <1>0 DEF Clean
    <2> QED BY <1>9, <2>1 DEF TypeOK, Clean, Stages
  <1>10. ASSUME NEW p \in Procs, CopyFails(p) PROVE TypeOK'
    <2>1. Starts' = Starts
      BY <1>10, <1>0 DEF CopyFails
    <2>2. failures' \in 0 .. MaxFailures
      BY <1>a, <1>10, StartupAssumption DEF CopyFails
    <2>3. pc' \in [Procs -> Stages]
      BY <1>a, <1>10 DEF CopyFails, Stages
    <2> QED BY <1>10, <2>1, <2>2, <2>3 DEF TypeOK, CopyFails
  <1>11. ASSUME NEW p \in Procs, Die(p) PROVE TypeOK'
    <2>1. Starts' = Starts
      BY <1>11, <1>0 DEF Die
    <2>2. failures' \in 0 .. MaxFailures
      BY <1>a, <1>11, StartupAssumption DEF Die
    <2>3. pc' \in [Procs -> Stages]
      BY <1>a, <1>11 DEF Die, Stages
    <2> QED BY <1>11, <2>1, <2>2, <2>3 DEF TypeOK, Die
  <1>12. CASE CliInserts
    <2>1. Starts' = Starts
      BY <1>12, <1>0 DEF CliInserts
    <2> QED BY <1>12, <2>1 DEF TypeOK, CliInserts, Insert, Stages
  <1>13. CASE CreateSource
    <2>1. Starts' = Starts
      BY <1>13, <1>0 DEF CreateSource
    <2> QED BY <1>13, <2>1 DEF TypeOK, CreateSource, Insert
  <1>14. ASSUME NEW s \in Sources, FirstPoll(s) PROVE TypeOK'
    <2>1. Starts' = Starts
      BY <1>14, <1>0 DEF FirstPoll
    <2> QED BY <1>14, <2>1 DEF TypeOK, FirstPoll
  <1>15. CASE UNCHANGED vars
    <2>1. Starts' = Starts
      BY <1>15, <1>0 DEF vars
    <2> QED BY <1>15, <2>1 DEF TypeOK, vars
  <1> QED BY <1>1, <1>2, <1>3, <1>4, <1>5, <1>6, <1>7, <1>8, <1>9, <1>10, <1>11, <1>12,
             <1>13, <1>14, <1>15 DEF Next, InitDb

\* Every variable keeps its type: stamps lie below the number of starts, and
\* no process is started more often than its bound.
THEOREM TypeCorrect == Spec => []TypeOK
  BY InitTyped, TypedStep, PTL DEF Spec

(***************************************************************************)
(* What a process has brought the schema to, wherever it stands: no column  *)
(* is ever dropped, so another process cannot undo it.                     *)
(***************************************************************************)
Progressed(p) ==
    /\ pc[p] \in {"look", "alter", "stamp", "clean", "up"} => Tables \subseteq objs
    /\ pc[p] \in {"look", "alter", "stamp"} =>
           \A u \in 1 .. 3 : u < unit[p] => Units[u] \subseteq objs
    /\ pc[p] \in {"alter", "stamp"} =>
           missing[p] \subseteq Units[unit[p]] /\ Units[unit[p]] \subseteq missing[p] \cup objs
    /\ pc[p] = "stamp" => unit[p] = 3 /\ missing[p] = {}
    /\ pc[p] \in {"clean", "up"} => Schema \subseteq objs
    /\ pc[p] = "up" => ~retired

Progress == \A p \in Procs : Progressed(p)

\* The steps that leave the schema and one process's locals alone, or take the
\* process down.
LEMMA ProgressStays ==
    ASSUME NEW q \in Procs, Progressed(q), objs \subseteq objs', retired' => retired,
           unit'[q] = unit[q], missing'[q] = missing[q],
           pc'[q] = pc[q] \/ pc'[q] \in {"off", "copy", "prune", "create"}
    PROVE  Progressed(q)'
  BY DEF Progressed

LEMMA SchemaGrows == TypeOK /\ [Next]_vars => objs \subseteq objs' /\ (retired' => retired)
  <1> SUFFICES ASSUME TypeOK, [Next]_vars PROVE objs \subseteq objs' /\ (retired' => retired)
    OBVIOUS
  <1>1. ASSUME NEW p \in Procs, InitDb(p) PROVE objs \subseteq objs' /\ (retired' => retired)
    <2>1. CASE Boot(p) \/ Copied(p) \/ Prune(p) \/ Look(p) \/ NextUnit(p) \/ Stamp(p)
      <3>1. UNCHANGED <<objs, retired>>
        BY <2>1 DEF Boot, Copied, Prune, Look, NextUnit, Stamp
      <3> QED BY <3>1
    <2>2. CASE Create(p)
      BY <2>2 DEF Create
    <2>3. CASE Alter(p)
      BY <2>3 DEF Alter
    <2>4. CASE Clean(p)
      BY <2>4 DEF Clean
    <2> QED BY <1>1, <2>1, <2>2, <2>3, <2>4 DEF InitDb
  <1>2. ASSUME NEW p \in Procs, CopyFails(p) \/ Die(p)
        PROVE  objs \subseteq objs' /\ (retired' => retired)
    BY <1>2 DEF CopyFails, Die
  <1>3. CASE CliInserts \/ CreateSource
    BY <1>3 DEF CliInserts, CreateSource
  <1>4. ASSUME NEW s \in Sources, FirstPoll(s)
        PROVE  objs \subseteq objs' /\ (retired' => retired)
    BY <1>4 DEF FirstPoll
  <1>5. CASE UNCHANGED vars
    BY <1>5 DEF vars
  <1> QED BY <1>1, <1>2, <1>3, <1>4, <1>5 DEF Next

LEMMA ProgressStep == TypeOK /\ Progress /\ [Next]_vars => Progress'
  <1> SUFFICES ASSUME TypeOK, Progress, [Next]_vars, NEW q \in Procs PROVE Progressed(q)'
    BY DEF Progress
  <1>a. /\ unit \in [Procs -> 1 .. 3] /\ pc \in [Procs -> Stages]
        /\ missing \in [Procs -> SUBSET Schema] /\ objs \in SUBSET Schema
    BY DEF TypeOK
  <1>b. objs \subseteq objs' /\ (retired' => retired) /\ Progressed(q)
    BY SchemaGrows DEF Progress
  <1>1. ASSUME NEW p \in Procs, Boot(p) PROVE Progressed(q)'
    <2>1. pc'[q] = pc[q] \/ pc'[q] \in {"off", "copy", "prune", "create"}
      BY <1>1, <1>a DEF Boot
    <2> QED BY <1>1, <1>b, <2>1, ProgressStays DEF Boot
  <1>2. ASSUME NEW p \in Procs, Copied(p) \/ Prune(p) PROVE Progressed(q)'
    <2>1. pc'[q] = pc[q] \/ pc'[q] \in {"off", "copy", "prune", "create"}
      BY <1>2, <1>a DEF Copied, Prune
    <2> QED BY <1>2, <1>b, <2>1, ProgressStays DEF Copied, Prune
  <1>3. ASSUME NEW p \in Procs, CopyFails(p) \/ Die(p) PROVE Progressed(q)'
    <2>1. pc'[q] = pc[q] \/ pc'[q] \in {"off", "copy", "prune", "create"}
      BY <1>3, <1>a DEF CopyFails, Die
    <2> QED BY <1>3, <1>b, <2>1, ProgressStays DEF CopyFails, Die
  <1>4. ASSUME NEW p \in Procs, Create(p) PROVE Progressed(q)'
    <2>1. CASE Tables \subseteq objs /\ p = q
      <3>1. pc'[q] = "look" /\ unit'[q] = 1 /\ objs' = objs
        BY <1>4, <1>a, <2>1 DEF Create
      <3> QED BY <2>1, <3>1 DEF Progressed
    <2>2. CASE ~(Tables \subseteq objs /\ p = q)
      <3>1. pc'[q] = pc[q] /\ unit'[q] = unit[q] /\ missing'[q] = missing[q]
        BY <1>4, <1>a, <2>2 DEF Create
      <3> QED BY <1>b, <3>1, ProgressStays
    <2> QED BY <2>1, <2>2
  <1>5. ASSUME NEW p \in Procs, Look(p) PROVE Progressed(q)'
    <2>1. CASE p = q
      <3>1. /\ pc[q] = "look" /\ pc'[q] = "alter" /\ unit' = unit /\ objs' = objs
            /\ missing'[q] = Units[unit[q]] \ objs
        BY <1>5, <1>a, <2>1 DEF Look, Absent
      <3> QED BY <1>b, <3>1 DEF Progressed
    <2>2. CASE p # q
      <3>1. pc'[q] = pc[q] /\ unit'[q] = unit[q] /\ missing'[q] = missing[q]
        BY <1>5, <1>a, <2>2 DEF Look
      <3> QED BY <1>b, <3>1, ProgressStays
    <2> QED BY <2>1, <2>2
  <1>6. ASSUME NEW p \in Procs, Alter(p) PROVE Progressed(q)'
    <2>1. PICK c \in missing[p] :
              \/ c \in objs /\ pc' = [pc EXCEPT ![p] = "off"] /\ UNCHANGED <<objs, missing>>
              \/ /\ objs' = objs \cup {c} /\ missing' = [missing EXCEPT ![p] = @ \ {c}]
                 /\ pc' = [pc EXCEPT ![p] = IF c = Backfill THEN "stamp" ELSE "alter"]
      BY <1>6 DEF Alter
    <2>2. unit' = unit /\ pc[p] = "alter"
      BY <1>6 DEF Alter
    <2>3. CASE p # q
      <3>1. pc'[q] = pc[q] /\ missing'[q] = missing[q]
        BY <1>a, <2>1, <2>3
      <3> QED BY <1>b, <2>2, <3>1, ProgressStays
    <2>4. CASE p = q /\ pc'[q] = "off"
      BY <2>4 DEF Progressed
    <2>5. CASE p = q /\ pc'[q] # "off"
      <3>1. /\ objs' = objs \cup {c} /\ missing'[q] = missing[q] \ {c}
            /\ pc'[q] = IF c = Backfill THEN "stamp" ELSE "alter"
        BY <1>a, <2>1, <2>5
      <3>2. missing[q] \subseteq Units[unit[q]] /\ c \in Units[unit[q]] /\ unit[q] \in 1 .. 3
        BY <1>a, <1>b, <2>1, <2>2, <2>5 DEF Progressed
      <3>3. c = Backfill => unit[q] = 3 /\ missing'[q] = {}
        <4>1. c = Backfill => unit[q] # 1 /\ unit[q] # 2
          BY <3>2, UnitFacts
        <4>2. unit[q] = 3 => missing[q] \subseteq {Backfill}
          BY <3>2, UnitFacts
        <4> QED BY <3>1, <3>2, <4>1, <4>2
      <3>4. Units[unit[q]] \subseteq missing'[q] \cup objs'
        BY <1>b, <2>2, <2>5, <3>1 DEF Progressed
      <3> QED BY <1>b, <2>2, <2>5, <3>1, <3>2, <3>3, <3>4 DEF Progressed
    <2> QED BY <2>3, <2>4, <2>5
  <1>7. ASSUME NEW p \in Procs, NextUnit(p) PROVE Progressed(q)'
    <2>1. CASE p # q
      <3>1. pc'[q] = pc[q] /\ unit'[q] = unit[q] /\ missing'[q] = missing[q]
        BY <1>7, <1>a, <2>1 DEF NextUnit
      <3> QED BY <1>b, <3>1, ProgressStays
    <2>2. CASE p = q
      <3>1. /\ Units[unit[q]] \subseteq objs /\ Tables \subseteq objs
            /\ \A u \in 1 .. 3 : u < unit[q] => Units[u] \subseteq objs
        BY <1>7, <1>b, <2>2 DEF NextUnit, Progressed
      <3>2. CASE unit[q] < 3
        <4>1. unit'[q] = unit[q] + 1 /\ pc'[q] = "look" /\ objs' = objs
          BY <1>7, <1>a, <2>2, <3>2 DEF NextUnit
        <4>2. unit[q] \in 1 .. 3
          BY <1>a
        <4>3. \A u \in 1 .. 3 : u < unit[q] + 1 => u < unit[q] \/ u = unit[q]
          BY <4>2
        <4> QED BY <3>1, <4>1, <4>3 DEF Progressed
      <3>3. CASE ~(unit[q] < 3)
        <4>1. unit[q] = 3 /\ pc'[q] = "clean" /\ objs' = objs
          BY <1>7, <1>a, <2>2, <3>3 DEF NextUnit
        <4>2. Schema \subseteq objs
          BY <3>1, <4>1, UnitFacts DEF Schema
        <4> QED BY <3>1, <4>1, <4>2 DEF Progressed
      <3> QED BY <3>2, <3>3
    <2> QED BY <2>1, <2>2
  <1>8. ASSUME NEW p \in Procs, Stamp(p) PROVE Progressed(q)'
    <2>1. unit' = unit /\ missing' = missing /\ pc[p] = "stamp" /\ objs' = objs
      BY <1>8 DEF Stamp
    <2>2. CASE p = q
      <3>1. pc'[q] = "alter"
        BY <1>8, <1>a, <2>2 DEF Stamp
      <3> QED BY <1>b, <2>1, <2>2, <3>1 DEF Progressed
    <2>3. CASE p # q
      <3>1. pc'[q] = pc[q]
        BY <1>8, <1>a, <2>3 DEF Stamp
      <3> QED BY <1>b, <2>1, <3>1, ProgressStays
    <2> QED BY <2>2, <2>3
  <1>9. ASSUME NEW p \in Procs, Clean(p) PROVE Progressed(q)'
    <2>1. unit' = unit /\ missing' = missing /\ pc[p] = "clean" /\ objs' = objs /\ ~retired'
      BY <1>9 DEF Clean
    <2>2. CASE p = q
      <3>1. pc'[q] = "up"
        BY <1>9, <1>a, <2>2 DEF Clean
      <3> QED BY <1>b, <2>1, <2>2, <3>1 DEF Progressed
    <2>3. CASE p # q
      <3>1. pc'[q] = pc[q]
        BY <1>9, <1>a, <2>3 DEF Clean
      <3> QED BY <1>b, <2>1, <3>1, ProgressStays
    <2> QED BY <2>2, <2>3
  <1>10. CASE CliInserts
    <2>1. pc'[q] = pc[q] \/ pc'[q] = "off"
      BY <1>10, <1>a DEF CliInserts
    <2> QED BY <1>10, <1>b, <2>1, ProgressStays DEF CliInserts
  <1>11. CASE CreateSource
    BY <1>11, <1>b, ProgressStays DEF CreateSource
  <1>12. ASSUME NEW s \in Sources, FirstPoll(s) PROVE Progressed(q)'
    BY <1>12, <1>b, ProgressStays DEF FirstPoll
  <1>13. CASE UNCHANGED vars
    BY <1>13, <1>b, ProgressStays DEF vars
  <1> QED BY <1>1, <1>2, <1>3, <1>4, <1>5, <1>6, <1>7, <1>8, <1>9, <1>10, <1>11, <1>12,
             <1>13 DEF Next, InitDb

LEMMA InitProgress == Init => Progress
  <1>1. Init => pc = [p \in Procs |-> "off"]
    BY DEF Init
  <1> QED BY <1>1 DEF Progress, Progressed

LEMMA SpecProgress == Spec => [](TypeOK /\ Progress)
  BY InitTyped, TypedStep, InitProgress, ProgressStep, PTL DEF Spec

LEMMA ProgressServes == TypeOK /\ Progress => ServesComplete
  BY DEF TypeOK, Progress, Progressed, ServesComplete

\* No process is up on half a schema, for any number of processes' deaths and
\* any overlap of the two.
THEOREM ServesCompleteHolds == Spec => []ServesComplete
  BY SpecProgress, ProgressServes, PTL

(***************************************************************************)
(* The cutoffs.  Only the process that adds the column dates rows, and     *)
(* nobody else ever will: the rows there are then are those from before,    *)
(* and those added while it stood between its two statements.              *)
(***************************************************************************)
Dating  == {"newest item", "migration"}
Stamped == \A p \in Procs : pc[p] # "stamp"

\* Before the column is there.
Undated ==
    Backfill \notin objs => Stamped /\ Rows \subseteq old /\ polled = {}

Waits ==
    /\ Undated
    /\ \A p, q \in Procs : pc[p] = "stamp" /\ pc[q] = "stamp" => p = q
    /\ ~Stamped => Rows \subseteq old \cup overtaken
    /\ old \subseteq Rows
    /\ Backfill \in objs /\ ~cutShort /\ Stamped => \A s \in old : cutoff[s] \in Dating
    /\ NewSourceWaits

\* Steps that change no cutoff and do not reach or leave "stamp".
LEMMA WaitsStays ==
    ASSUME Waits, objs \subseteq objs', Backfill \in objs' => Backfill \in objs,
           cutShort => cutShort',
           UNCHANGED <<cutoff, old, polled, overtaken>>,
           \A p \in Procs : pc'[p] = "stamp" <=> pc[p] = "stamp"
    PROVE  Waits'
  <1>1. Rows' = Rows /\ (Stamped' <=> Stamped)
    BY DEF Rows, Stamped
  <1> QED BY <1>1 DEF Waits, Undated, NewSourceWaits

\* A row added, with the column there.
LEMMA WaitsInserted ==
    ASSUME TypeOK, Waits, NEW s \in Sources, Insert(s), Backfill \in objs,
           UNCHANGED <<objs, cutShort, old, polled>>,
           \A p \in Procs : pc'[p] = "stamp" <=> pc[p] = "stamp"
    PROVE  Waits'
  <1>1. /\ cutoff[s] = "no row" /\ cutoff' = [cutoff EXCEPT ![s] = "null"]
        /\ overtaken' = IF ~Stamped THEN overtaken \cup {s} ELSE overtaken
    BY DEF Insert, Stamped
  <1>2. Rows' = Rows \cup {s} /\ s \notin Rows
    BY <1>1 DEF TypeOK, Rows
  <1>3. Stamped' <=> Stamped
    BY DEF Stamped
  <1>4. NewSourceWaits'
    BY <1>1, <1>2 DEF TypeOK, Waits, NewSourceWaits, Rows
  <1>5. \A t \in old : cutoff'[t] = cutoff[t]
    BY <1>1, <1>2 DEF TypeOK, Waits, Rows
  <1> QED BY <1>1, <1>2, <1>3, <1>4, <1>5 DEF Waits, Undated

LEMMA WaitsStep == TypeOK /\ Progress /\ Waits /\ [Next]_vars => Waits'
  <1> SUFFICES ASSUME TypeOK, Progress, Waits, [Next]_vars PROVE Waits'
    OBVIOUS
  <1>a. /\ unit \in [Procs -> 1 .. 3] /\ pc \in [Procs -> Stages]
        /\ objs \in SUBSET Schema /\ old \in SUBSET Sources
        /\ cutoff \in [Sources -> {"no row", "null", "newest item", "migration", "first poll"}]
    BY DEF TypeOK
  <1>b. objs \subseteq objs' /\ \A q \in Procs : Progressed(q)
    BY SchemaGrows DEF Progress
  <1>c. \A q \in Procs : pc[q] = "up" => Backfill \in objs
    BY <1>b, UnitFacts DEF Progressed
  <1>d. "cli" \in Procs /\ "server" \in Procs
    BY DEF Procs
  <1>1. ASSUME NEW p \in Procs,
               Boot(p) \/ Copied(p) \/ Prune(p) \/ Look(p) \/ NextUnit(p) \/ Clean(p) \/ CopyFails(p)
        PROVE  Waits'
    <2>1. UNCHANGED <<objs, cutoff, cutShort, old, polled, overtaken>>
      BY <1>1 DEF Boot, Copied, Prune, Look, NextUnit, Clean, CopyFails
    <2>2. \A q \in Procs : pc'[q] = "stamp" <=> pc[q] = "stamp"
      BY <1>1, <1>a DEF Boot, Copied, Prune, Look, NextUnit, Clean, CopyFails
    <2> QED BY <2>1, <2>2, WaitsStays
  <1>2. ASSUME NEW p \in Procs, Create(p) PROVE Waits'
    <2>1. UNCHANGED <<cutoff, cutShort, old, polled, overtaken>>
      BY <1>2 DEF Create
    <2>2. \A q \in Procs : pc'[q] = "stamp" <=> pc[q] = "stamp"
      BY <1>2, <1>a DEF Create
    <2>3. Backfill \in objs' => Backfill \in objs
      BY <1>2, UnitFacts DEF Create
    <2> QED BY <1>b, <2>1, <2>2, <2>3, WaitsStays
  <1>3. ASSUME NEW p \in Procs, Alter(p) PROVE Waits'
    <2>0. UNCHANGED <<cutoff, cutShort, old, polled, overtaken>> /\ pc[p] = "alter"
      BY <1>3 DEF Alter
    <2>1. CASE pc' = [pc EXCEPT ![p] = "off"] /\ objs' = objs
      <3>1. \A q \in Procs : pc'[q] = "stamp" <=> pc[q] = "stamp"
        BY <1>a, <2>0, <2>1
      <3> QED BY <2>0, <2>1, <3>1, WaitsStays
    <2>2. CASE ~(pc' = [pc EXCEPT ![p] = "off"] /\ objs' = objs)
      <3>1. PICK c \in missing[p] :
                /\ c \notin objs /\ objs' = objs \cup {c}
                /\ pc' = [pc EXCEPT ![p] = IF c = Backfill THEN "stamp" ELSE "alter"]
        BY <1>3, <2>2 DEF Alter
      <3>2. CASE c # Backfill
        <4>1. \A q \in Procs : pc'[q] = "stamp" <=> pc[q] = "stamp"
          BY <1>a, <2>0, <3>1, <3>2
        <4> QED BY <2>0, <3>1, <3>2, <4>1, WaitsStays
      <3>3. CASE c = Backfill
        <4>1. Stamped /\ Rows \subseteq old /\ polled = {}
          BY <3>1, <3>3 DEF Waits, Undated
        <4>2. pc'[p] = "stamp" /\ \A q \in Procs : q # p => pc'[q] # "stamp"
          BY <1>a, <3>1, <3>3, <4>1 DEF Stamped
        <4>3. Rows' = Rows /\ ~Stamped' /\ Backfill \in objs'
          BY <2>0, <3>1, <3>3, <4>2 DEF Rows, Stamped
        <4> QED BY <2>0, <4>1, <4>2, <4>3 DEF Waits, Undated, NewSourceWaits
      <3> QED BY <3>2, <3>3
    <2> QED BY <2>1, <2>2
  <1>4. ASSUME NEW p \in Procs, Stamp(p) PROVE Waits'
    <2>1. /\ cutoff' = [s \in Sources |-> IF s \in Rows THEN BackfillDate(s) ELSE "no row"]
          /\ UNCHANGED <<objs, cutShort, old, polled, overtaken>>
          /\ pc[p] = "stamp" /\ pc' = [pc EXCEPT ![p] = "alter"]
      BY <1>4 DEF Stamp
    <2>2. Backfill \in objs /\ Rows \subseteq old \cup overtaken
      BY <2>1 DEF Waits, Undated, Stamped
    <2>3. Rows' = Rows
      BY <2>1 DEF Rows, BackfillDate
    <2>4. Stamped'
      BY <1>a, <2>1 DEF Waits, Stamped
    <2>5. \A s \in old : cutoff'[s] \in Dating
      BY <1>a, <2>1 DEF Waits, BackfillDate, Dating
    <2>6. NewSourceWaits'
      BY <2>1, <2>2, <2>3 DEF NewSourceWaits
    <2>7. Undated' /\ \A q, r \in Procs : pc'[q] = "stamp" /\ pc'[r] = "stamp" => q = r
      BY <2>1, <2>2, <2>4 DEF Undated, Stamped
    <2>8. old' \subseteq Rows' /\ old' = old
      BY <2>1, <2>3 DEF Waits
    <2> QED BY <2>4, <2>5, <2>6, <2>7, <2>8 DEF Waits
  <1>5. ASSUME NEW p \in Procs, Die(p) PROVE Waits'
    <2>1. /\ UNCHANGED <<objs, cutoff, old, polled, overtaken>>
          /\ cutShort' = (cutShort \/ pc[p] = "stamp") /\ pc' = [pc EXCEPT ![p] = "off"]
      BY <1>5 DEF Die
    <2>2. CASE pc[p] # "stamp"
      <3>1. \A q \in Procs : pc'[q] = "stamp" <=> pc[q] = "stamp"
        BY <1>a, <2>1, <2>2
      <3> QED BY <2>1, <2>2, <3>1, WaitsStays
    <2>3. CASE pc[p] = "stamp"
      <3>1. Backfill \in objs /\ cutShort' /\ Rows' = Rows
        BY <2>1, <2>3 DEF Waits, Undated, Stamped, Rows
      <3>2. Stamped'
        BY <1>a, <2>1, <2>3 DEF Waits, Stamped
      <3> QED BY <2>1, <3>1, <3>2 DEF Waits, Undated, NewSourceWaits
    <2> QED BY <2>2, <2>3
  <1>6. CASE CliInserts
    <2>1. PICK s \in Sources : Insert(s)
      BY <1>6 DEF CliInserts
    <2>2. \A q \in Procs : pc'[q] = "stamp" <=> pc[q] = "stamp"
      BY <1>6, <1>a DEF CliInserts
    <2> QED BY <1>6, <1>c, <1>d, <2>1, <2>2, WaitsInserted DEF CliInserts
  <1>7. CASE CreateSource
    <2>1. PICK s \in Sources : Insert(s)
      BY <1>7 DEF CreateSource
    <2> QED BY <1>7, <1>c, <1>d, <2>1, WaitsInserted DEF CreateSource
  <1>8. ASSUME NEW s \in Sources, FirstPoll(s) PROVE Waits'
    <2>1. /\ cutoff[s] = "null" /\ cutoff' = [cutoff EXCEPT ![s] = "first poll"]
          /\ polled' = polled \cup {s} /\ UNCHANGED <<objs, pc, cutShort, old, overtaken>>
      BY <1>8 DEF FirstPoll
    <2>2. Rows' = Rows
      BY <1>a, <2>1 DEF Rows
    <2>3. Backfill \in objs
      BY <1>8, <1>c, <1>d DEF FirstPoll
    <2>4. Stamped' <=> Stamped
      BY <2>1 DEF Stamped
    <2>5. \A t \in old : cutoff[t] \in Dating => cutoff'[t] = cutoff[t]
      BY <1>a, <2>1 DEF Dating
    <2>6. NewSourceWaits'
      BY <1>a, <2>1, <2>2 DEF Waits, NewSourceWaits, Rows
    <2> QED BY <2>1, <2>2, <2>3, <2>4, <2>5, <2>6 DEF Waits, Undated
  <1>9. CASE UNCHANGED vars
    BY <1>9, WaitsStays DEF vars
  <1> QED BY <1>1, <1>2, <1>3, <1>4, <1>5, <1>6, <1>7, <1>8, <1>9 DEF Next, InitDb

LEMMA InitWaits == Init => Waits
  <1> SUFFICES ASSUME Init PROVE Waits
    OBVIOUS
  <1>1. /\ pc = [p \in Procs |-> "off"] /\ old = IF Backfill \in objs THEN {} ELSE Rows
        /\ cutoff \in [Sources -> {"no row", "null"}] /\ polled = {}
    BY DEF Init
  <1>2. Stamped
    BY <1>1 DEF Stamped
  <1>3. NewSourceWaits
    BY <1>1 DEF NewSourceWaits, Rows
  <1> QED BY <1>1, <1>2, <1>3 DEF Waits, Undated

LEMMA SpecWaits == Spec => [](TypeOK /\ Progress /\ Waits)
  BY InitTyped, TypedStep, InitProgress, ProgressStep, InitWaits, WaitsStep, PTL DEF Spec

LEMMA WaitsWhole == TypeOK /\ Progress /\ Waits => BackfillWhole
  <1> SUFFICES ASSUME TypeOK, Progress, Waits,
                      pc["server"] = "up", ~cutShort, Stamped
               PROVE  \A s \in old : cutoff[s] \in Dating
    BY DEF BackfillWhole, Dating, Stamped
  <1>1. Backfill \in objs
    BY UnitFacts DEF Progress, Progressed, Procs
  <1> QED BY <1>1 DEF Waits

\* For any sources and dates: what was there before the upgrade is dated by the
\* time the server is up, unless the one process that could was cut short.
THEOREM BackfillWholeHolds == Spec => []BackfillWhole
  BY SpecWaits, WaitsWhole, PTL

LEMMA WaitsNew == Waits => NewSourceWaits
  BY DEF Waits

\* What came after the upgrade waits for its own first poll through every
\* further start, of the server and of the command line tool: a migration dates
\* a new source only if it was added between the ALTER and the UPDATE of 003 in
\* another process.
THEOREM NewSourceWaitsHolds == Spec => []NewSourceWaits
  BY SpecWaits, WaitsNew, PTL

\* Without the command line tool there is no second process to add a source
\* while 003 stands between its two statements.
LEMMA NoneOvertaken ==
    ASSUME MaxBoots["cli"] = 0
    PROVE  Spec => [](overtaken = {})
  <1> DEFINE Untold == pc["cli"] = "off" /\ overtaken = {}
  <1>1. Init => Untold
    BY DEF Init, Procs
  <1>2. TypeOK /\ Untold /\ [Next]_vars => Untold'
    <2> SUFFICES ASSUME TypeOK, Untold, [Next]_vars PROVE Untold'
      OBVIOUS
    <2>0. "cli" \in Procs /\ boots["cli"] \in Nat /\ boots["cli"] <= MaxBoots["cli"]
          /\ pc \in [Procs -> Stages]
      BY DEF TypeOK, Procs
    <2>1. ASSUME NEW p \in Procs, InitDb(p) \/ CopyFails(p) \/ Die(p) PROVE Untold'
      <3>1. pc[p] # "off" \/ Boot(p)
        BY <2>1 DEF InitDb, Copied, Prune, Create, Look, Alter, NextUnit, Stamp, Clean,
                    CopyFails, Die
      <3>2. p # "cli"
        <4>1. ASSUME Boot(p), p = "cli" PROVE FALSE
          <5>1. boots["cli"] < MaxBoots["cli"]
            BY <4>1 DEF Boot
          <5> QED BY <2>0, <5>1
        <4> QED BY <3>1, <4>1
      <3>3. pc'["cli"] = pc["cli"]
        BY <2>0, <2>1, <3>2 DEF InitDb, Boot, Copied, Prune, Create, Look, Alter, NextUnit, Stamp,
                    Clean, CopyFails, Die
      <3>4. overtaken' = overtaken
        BY <2>1 DEF InitDb, Boot, Copied, Prune, Create, Look, Alter, NextUnit, Stamp, Clean,
                    CopyFails, Die, past
      <3> QED BY <3>3, <3>4
    <2>2. CASE CreateSource
      <3>1. \A p \in Procs : pc[p] # "stamp"
        BY <2>2 DEF CreateSource, Procs
      <3> QED BY <2>2, <3>1 DEF CreateSource, Insert
    <2>3. CASE CliInserts
      BY <2>3 DEF CliInserts
    <2>4. CASE \E s \in Sources : FirstPoll(s)
      BY <2>4 DEF FirstPoll
    <2>5. CASE UNCHANGED vars
      BY <2>5 DEF vars, past
    <2> QED BY <2>1, <2>2, <2>3, <2>4, <2>5 DEF Next
  <1>3. Spec => []TypeOK
    BY SpecWaits, PTL
  <1> QED BY <1>1, <1>2, <1>3, PTL DEF Spec

\* A server restarted as often as one likes, with a death at any statement, never
\* dates a source that waits, with no exception but for the command line tool.
THEOREM RestartsDateNothing ==
    ASSUME MaxBoots["cli"] = 0
    PROVE  Spec => [](NewSourceWaits /\ overtaken = {})
  BY NewSourceWaitsHolds, NoneOvertaken, PTL

(***************************************************************************)
(* The snapshot of the old schema.                                         *)
(***************************************************************************)

\* As long as BackupKeep starts have not been made, nothing is pruned away: each
\* snapshot has a stamp of its own among 1 .. Starts.
Roomy    == Starts <= BackupKeep \/ BackupKeep <= 0
Distinct == \A s, t \in snaps : s.stamp = t.stamp => s = t

LEMMA NothingPruned ==
    ASSUME TypeOK, Distinct, Roomy
    PROVE  Newest(snaps) = snaps
  <1>1. CASE BackupKeep <= 0
    BY <1>1 DEF Newest
  <1>2. CASE ~(BackupKeep <= 0)
    <2>1. /\ Starts \in Nat /\ BackupKeep \in Int /\ Starts <= BackupKeep
          /\ snaps \subseteq [stamp : 1 .. Starts, whole : BOOLEAN, of : SUBSET Schema]
      BY <1>2, StartsIsNat, StartupAssumption DEF TypeOK, Roomy
    <2>2. ASSUME NEW s \in snaps
          PROVE  Cardinality({t \in snaps : t.stamp > s.stamp}) < BackupKeep
      <3> DEFINE T == {t \in snaps : t.stamp > s.stamp}
                 I == s.stamp + 1 .. Starts
                 f == [t \in T |-> t.stamp]
      <3>1. s.stamp \in 1 .. Starts /\ \A t \in snaps : t.stamp \in 1 .. Starts
        BY <2>1
      <3>2. f \in [T -> I]
        BY <2>1, <3>1
      <3>3. f \in Injection(T, I)
        <4>1. \A t, u \in T : f[t] = f[u] => t = u
          BY DEF Distinct
        <4> QED BY <3>2, <4>1 DEF Injection, IsInjective
      <3>4. s.stamp + 1 \in Int /\ Starts \in Int
        BY <2>1, <3>1
      <3>5. IsFiniteSet(I) /\ Cardinality(I) = IF s.stamp + 1 > Starts THEN 0 ELSE Starts - (s.stamp + 1) + 1
        <4> HIDE DEF T, f
        <4> QED BY <3>4, FS_Interval
      <3>6. Cardinality(T) <= Cardinality(I) /\ IsFiniteSet(T)
        <4> HIDE DEF T, I, f
        <4> QED BY <3>3, <3>5, FS_Injection
      <3>7. Cardinality(T) \in Nat
        BY <3>6, FS_CardinalityType
      <3> QED BY <2>1, <3>1, <3>5, <3>6, <3>7, <1>2
    <2> QED BY <1>2, <2>2 DEF Newest
  <1> QED BY <1>1, <1>2

Good(s) == s.whole /\ s.of = origin

Saved ==
    /\ origin \subseteq objs
    /\ Distinct
    /\ \A p \in Procs : pc[p] = "copy" => \A s \in snaps : s.stamp = file[p] => ~s.whole
    /\ \A p, q \in Procs : pc[p] = "copy" /\ pc[q] = "copy" /\ file[p] = file[q] => p = q
    /\ origin # {} /\ ~unsaved /\ Roomy =>
           /\ \A p \in Procs : pc[p] = "copy" => \E s \in snaps : s.stamp = file[p]
           /\ (\E p \in Procs : pc[p] \notin {"off", "copy"}) \/ objs # origin =>
                  \E s \in snaps : Good(s)

\* Steps that make no snapshot and let no process past its own.
LEMMA SavedStays ==
    ASSUME TypeOK, Saved, objs \subseteq objs',
           UNCHANGED <<snaps, file, origin, unsaved, boots>>,
           \A p \in Procs : pc'[p] \in {"off", pc[p]} \/ (pc[p] \notin {"off", "copy"} /\ pc'[p] # "copy"),
           objs' # objs => \E p \in Procs : pc[p] \notin {"off", "copy"}
    PROVE  Saved'
  <1>1. Starts' = Starts /\ (Roomy' <=> Roomy) /\ (Distinct' <=> Distinct)
    BY DEF Starts, Roomy, Distinct
  <1>2. \A p \in Procs : /\ pc'[p] = "copy" => pc[p] = "copy"
                         /\ pc'[p] \notin {"off", "copy"} => pc[p] \notin {"off", "copy"}
    OBVIOUS
  <1>3. (\E p \in Procs : pc'[p] \notin {"off", "copy"}) \/ objs' # origin' =>
            (\E p \in Procs : pc[p] \notin {"off", "copy"}) \/ objs # origin
    BY <1>2
  <1> QED BY <1>1, <1>2, <1>3 DEF Saved, Good

LEMMA SavedBoot ==
    ASSUME TypeOK, Saved, NEW p \in Procs, Boot(p)
    PROVE  Saved'
  <1>1. Starts' = Starts + 1 /\ Starts \in Nat
    BY BootTyped, StartsIsNat
  <1>2. /\ snaps \subseteq [stamp : 1 .. Starts, whole : BOOLEAN, of : SUBSET Schema]
        /\ file \in [Procs -> 0 .. Starts] /\ pc \in [Procs -> Stages]
    BY DEF TypeOK
  <1>3. UNCHANGED <<objs, origin, unsaved>> /\ pc[p] = "off"
    BY DEF Boot
  <1>4. Roomy' => Roomy
    BY <1>1, StartupAssumption DEF Roomy
  <1>5. CASE objs = {}
    <2>1. pc' = [pc EXCEPT ![p] = "create"] /\ UNCHANGED <<snaps, file>>
      BY <1>5 DEF Boot
    <2>2. origin = {}
      BY <1>5 DEF Saved
    <2>3. \A q \in Procs : pc'[q] = "copy" => pc[q] = "copy"
      BY <1>2, <2>1
    <2> QED BY <1>3, <2>1, <2>2, <2>3 DEF Saved, Distinct
  <1>6. CASE objs # {}
    <2> DEFINE new == [stamp |-> Starts', whole |-> FALSE, of |-> {}]
    <2>1. /\ pc' = [pc EXCEPT ![p] = "copy"] /\ file' = [file EXCEPT ![p] = Starts']
          /\ snaps' = snaps \cup {new}
      BY <1>6 DEF Boot
    <2>2. \A s \in snaps : s.stamp \in 1 .. Starts /\ s.stamp # Starts'
      BY <1>1, <1>2
    <2>3. new.stamp = Starts' /\ ~new.whole
      OBVIOUS
    <2>4. Distinct'
      BY <2>1, <2>2, <2>3 DEF Saved, Distinct
    <2>5. file'[p] = Starts' /\ \A q \in Procs : q # p => /\ file'[q] = file[q] /\ file[q] # Starts'
                                                        /\ pc'[q] = pc[q]
      BY <1>1, <1>2, <2>1
    <2>6. \A q \in Procs : pc'[q] = "copy" => \A s \in snaps' : s.stamp = file'[q] => ~s.whole
      BY <2>1, <2>2, <2>3, <2>5 DEF Saved
    <2>7. \A q, r \in Procs : pc'[q] = "copy" /\ pc'[r] = "copy" /\ file'[q] = file'[r] => q = r
      BY <2>5 DEF Saved
    <2>8. ASSUME origin' # {}, ~unsaved', Roomy'
          PROVE  /\ \A q \in Procs : pc'[q] = "copy" => \E s \in snaps' : s.stamp = file'[q]
                 /\ (\E q \in Procs : pc'[q] \notin {"off", "copy"}) \/ objs' # origin' =>
                        \E s \in snaps' : Good(s)'
      <3>1. \A q \in Procs : pc'[q] = "copy" => \E s \in snaps' : s.stamp = file'[q]
        BY <1>3, <1>4, <2>1, <2>3, <2>5, <2>8 DEF Saved
      <3>2. (\E q \in Procs : pc'[q] \notin {"off", "copy"}) =>
                \E q \in Procs : pc[q] \notin {"off", "copy"}
        BY <1>2, <2>1
      <3> QED BY <1>3, <1>4, <2>1, <2>8, <3>1, <3>2 DEF Saved, Good
    <2> QED BY <1>3, <2>4, <2>6, <2>7, <2>8 DEF Saved
  <1> QED BY <1>5, <1>6

LEMMA SavedCopied ==
    ASSUME TypeOK, Saved, NEW p \in Procs, Copied(p)
    PROVE  Saved'
  <1> DEFINE full(s) == IF s.stamp = file[p] THEN [s EXCEPT !.whole = TRUE, !.of = objs] ELSE s
  <1>1. /\ snaps' = {full(s) : s \in snaps} /\ pc[p] = "copy" /\ pc' = [pc EXCEPT ![p] = "prune"]
        /\ UNCHANGED <<objs, file, origin, unsaved, boots>>
    BY DEF Copied
  <1>2. /\ snaps \subseteq [stamp : 1 .. Starts, whole : BOOLEAN, of : SUBSET Schema]
        /\ pc \in [Procs -> Stages]
    BY DEF TypeOK
  <1>3. \A s \in snaps : /\ full(s).stamp = s.stamp
                         /\ s.stamp # file[p] => full(s) = s
                         /\ s.stamp = file[p] => full(s).whole /\ full(s).of = objs
    BY <1>2
  <1>4. Roomy' <=> Roomy
    BY <1>1 DEF Roomy, Starts
  <1> HIDE DEF full
  <1>5. Distinct'
    BY <1>1, <1>3 DEF Saved, Distinct
  <1>6. pc'[p] = "prune" /\ \A q \in Procs : q # p => pc'[q] = pc[q]
    BY <1>1, <1>2
  <1>7. \A q \in Procs : pc'[q] = "copy" => q # p /\ pc[q] = "copy" /\ file[q] # file[p]
    BY <1>1, <1>6 DEF Saved
  <1>8. \A q \in Procs : pc'[q] = "copy" => \A s \in snaps' : s.stamp = file'[q] => ~s.whole
    BY <1>1, <1>3, <1>7 DEF Saved
  <1>9. ASSUME origin' # {}, ~unsaved', Roomy'
        PROVE  /\ \A q \in Procs : pc'[q] = "copy" => \E s \in snaps' : s.stamp = file'[q]
               /\ \E s \in snaps' : Good(s)'
    <2>1. \A q \in Procs : pc[q] = "copy" => \E s \in snaps : s.stamp = file[q]
      BY <1>1, <1>4, <1>9 DEF Saved
    <2>2. \A q \in Procs : pc'[q] = "copy" => \E s \in snaps' : s.stamp = file'[q]
      BY <1>1, <1>3, <1>7, <2>1
    <2>3. CASE objs = origin
      <3>1. PICK s \in snaps : s.stamp = file[p]
        BY <1>1, <2>1
      <3>2. full(s) \in snaps' /\ full(s).whole /\ full(s).of = origin'
        BY <1>1, <1>3, <2>3, <3>1
      <3> QED BY <2>2, <3>2 DEF Good
    <2>4. CASE objs # origin
      <3>1. PICK s \in snaps : s.whole /\ s.of = origin
        BY <1>1, <1>4, <1>9, <2>4 DEF Saved, Good
      <3>2. s.stamp # file[p]
        BY <1>1, <3>1 DEF Saved
      <3>3. s \in snaps' /\ s.whole /\ s.of = origin'
        BY <1>1, <1>3, <3>1, <3>2
      <3> QED BY <2>2, <3>3 DEF Good
    <2> QED BY <2>3, <2>4
  <1> QED BY <1>1, <1>5, <1>7, <1>8, <1>9 DEF Saved

LEMMA SavedStep == TypeOK /\ Progress /\ Saved /\ [Next]_vars => Saved'
  <1> SUFFICES ASSUME TypeOK, Progress, Saved, [Next]_vars PROVE Saved'
    OBVIOUS
  <1>a. pc \in [Procs -> Stages] /\ objs \subseteq objs'
    BY SchemaGrows DEF TypeOK
  <1>1. ASSUME NEW p \in Procs, Boot(p) PROVE Saved'
    BY <1>1, SavedBoot
  <1>2. ASSUME NEW p \in Procs, Copied(p) PROVE Saved'
    BY <1>2, SavedCopied
  <1>3. ASSUME NEW p \in Procs, Prune(p) PROVE Saved'
    <2>1. /\ snaps' = Newest(snaps) /\ pc[p] = "prune" /\ pc' = [pc EXCEPT ![p] = "create"]
          /\ UNCHANGED <<objs, file, origin, unsaved, boots>>
      BY <1>3 DEF Prune
    <2>2. Roomy' <=> Roomy
      BY <2>1 DEF Roomy, Starts
    <2>3. snaps' \subseteq snaps /\ (Roomy => snaps' = snaps)
      BY <2>1, NothingPruned DEF Newest, Saved
    <2>4. Distinct'
      BY <2>3 DEF Saved, Distinct
    <2>5. \A q \in Procs : /\ pc'[q] = "copy" => pc[q] = "copy"
                           /\ pc'[q] \notin {"off", "copy"} => pc[q] \notin {"off", "copy"}
      BY <1>a, <2>1
    <2> QED BY <2>1, <2>2, <2>3, <2>4, <2>5 DEF Saved, Good
  <1>4. ASSUME NEW p \in Procs, CopyFails(p) PROVE Saved'
    <2>1. /\ snaps' \subseteq snaps /\ pc' = [pc EXCEPT ![p] = "create"] /\ unsaved'
          /\ UNCHANGED <<objs, file, origin>>
      BY <1>4 DEF CopyFails
    <2>2. \A q \in Procs : pc'[q] = "copy" => pc[q] = "copy"
      BY <1>a, <2>1
    <2> QED BY <2>1, <2>2 DEF Saved, Distinct
  <1>5. ASSUME NEW p \in Procs,
               Create(p) \/ Look(p) \/ Alter(p) \/ NextUnit(p) \/ Stamp(p) \/ Clean(p) \/ Die(p)
        PROVE  Saved'
    <2>1. UNCHANGED <<snaps, file, origin, unsaved, boots>>
      BY <1>5 DEF Create, Look, Alter, NextUnit, Stamp, Clean, Die
    <2>2. \A q \in Procs : pc'[q] \in {"off", pc[q]} \/ (pc[q] \notin {"off", "copy"} /\ pc'[q] # "copy")
      <3>1. CASE Create(p) \/ Look(p) \/ NextUnit(p)
        BY <1>a, <3>1 DEF Create, Look, NextUnit
      <3>2. CASE Alter(p)
        BY <1>a, <3>2 DEF Alter
      <3>3. CASE Stamp(p) \/ Clean(p) \/ Die(p)
        BY <1>a, <3>3 DEF Stamp, Clean, Die
      <3> QED BY <1>5, <3>1, <3>2, <3>3
    <2>3. objs' # objs => \E q \in Procs : pc[q] \notin {"off", "copy"}
      BY <1>5 DEF Create, Look, Alter, NextUnit, Stamp, Clean, Die
    <2> QED BY <1>a, <2>1, <2>2, <2>3, SavedStays
  <1>6. CASE CliInserts
    <2>1. \A q \in Procs : pc'[q] \in {"off", pc[q]}
      BY <1>a, <1>6 DEF CliInserts
    <2> QED BY <1>a, <1>6, <2>1, SavedStays DEF CliInserts
  <1>7. CASE CreateSource
    BY <1>a, <1>7, SavedStays DEF CreateSource
  <1>8. ASSUME NEW s \in Sources, FirstPoll(s) PROVE Saved'
    BY <1>a, <1>8, SavedStays DEF FirstPoll
  <1>9. CASE UNCHANGED vars
    BY <1>a, <1>9, SavedStays DEF vars
  <1> QED BY <1>1, <1>2, <1>3, <1>4, <1>5, <1>6, <1>7, <1>8, <1>9 DEF Next, InitDb

LEMMA InitSaved == Init => Saved
  <1> SUFFICES ASSUME Init PROVE Saved
    OBVIOUS
  <1>1. pc = [p \in Procs |-> "off"] /\ origin = objs /\ snaps = {}
    BY DEF Init
  <1> QED BY <1>1 DEF Saved, Distinct

LEMMA SpecSaved == Spec => [](TypeOK /\ Progress /\ Saved)
  BY InitTyped, TypedStep, InitProgress, ProgressStep, InitSaved, SavedStep, PTL DEF Spec

LEMMA SavedKept == TypeOK /\ Progress /\ Saved => OriginalKept
  BY DEF Saved, OriginalKept, Good, Roomy

\* For any BackupKeep: a whole copy of the database as it was outlives that many
\* starts of the two processes together, whatever they snapshot meanwhile.
THEOREM OriginalKeptHolds == Spec => []OriginalKept
  BY SpecSaved, SavedKept, PTL

=============================================================================
