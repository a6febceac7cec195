------------------------------- MODULE Startup -------------------------------
(***************************************************************************)
(* From an old database to a serving process: init_db of                   *)
(* src/tattoo/database.py, the snapshot and its pruning (backup.py), the   *)
(* four migrations and the first lines of the lifespan (main.py).          *)
(*                                                                         *)
(* The server boots whenever it is down (docker restarts it).  The command *)
(* line tool add_source.py runs the same init_db in a process of its own,   *)
(* at any time, against the same file.                                     *)
(*                                                                         *)
(* DDL under Python's sqlite3 commits by itself: each CREATE and each ALTER *)
(* is a transaction, and a process that dies leaves those it has made.     *)
(* There is no version table; each migration looks which columns a table   *)
(* has and adds the others.  objs is what the schema has.                  *)
(***************************************************************************)
EXTENDS Integers, FiniteSets

CONSTANTS
    Sources,     \* the rows sources may come to have
    Dated,       \* those that have an item with a date
    Tables,      \* what migration 001 creates
    BackupKeep,  \* TATTOO_BACKUP_KEEP
    MaxBoots,    \* bounds: starts of each process, ...
    MaxFailures  \* ... those that die or are refused, and snapshots that fail

Procs == {"server", "cli"}

\* The columns added since 001, in the units in which migrations 002 (two
\* tables) and 003 look for them.
Backfill == "sources.backfill_cutoff"
Units    == <<{"judgments.input_tokens", "judgments.output_tokens"},
              {"extractions.input_tokens", "extractions.output_tokens"},
              {Backfill}>>
Columns  == UNION {Units[u] : u \in 1 .. 3}
Schema   == Tables \cup Columns

ASSUME StartupAssumption ==
    /\ Dated \subseteq Sources
    /\ Tables # {} /\ Tables \cap Columns = {}
    /\ BackupKeep \in Int /\ MaxBoots \in [Procs -> Nat] /\ MaxFailures \in Nat

VARIABLES
    objs,        \* the tables and columns there are
    cutoff,      \* of each source: "no row", "null", or which date it is
    retired,     \* the settings rows that migration 004 deletes are there
    snaps,       \* backups/: what each file holds, by its stamp
    pc,          \* where each process stands
    unit,        \* the unit of columns it is at, ...
    missing,     \* ... and what it did not find of it
    file,        \* the stamp of the snapshot it writes
    boots,       \* how often each process has been started
    failures,
    origin,      \* history: the schema before the first boot
    old,         \* the sources there before the first boot without a cutoff
    unsaved,     \* a snapshot failed
    cutShort,    \* a process ended between 003's ALTER and its UPDATE
    polled,      \* the sources that had their first poll
    overtaken    \* the sources added while a process stood between those two

tables == <<objs, cutoff, retired>>
locals == <<unit, missing, file>>
past   == <<origin, old, unsaved, cutShort, polled, overtaken>>
vars   == <<tables, snaps, pc, locals, boots, failures, past>>

Rows == {s \in Sources : cutoff[s] # "no row"}

\* A new installation, or what one of the releases since has left.
Init ==
    /\ \E n \in 0 .. 3 :
           objs \in {{}, Tables \cup UNION {Units[u] : u \in 1 .. n}}
    /\ cutoff \in [Sources -> {"no row", "null"}]
    /\ objs = {} => Rows = {}
    /\ retired = (objs # {})
    /\ snaps = {}
    /\ pc = [p \in Procs |-> "off"]
    /\ unit = [p \in Procs |-> 1]
    /\ missing = [p \in Procs |-> {}]
    /\ file = [p \in Procs |-> 0]
    /\ boots = [p \in Procs |-> 0] /\ failures = 0
    /\ origin = objs
    /\ old = IF Backfill \in objs THEN {} ELSE Rows
    /\ unsaved = FALSE /\ cutShort = FALSE
    /\ polled = {} /\ overtaken = {}

\* Stamps tell the time: the file opened last has the greatest.
Starts == boots["server"] + boots["cli"]

(***************************************************************************)
(* backup_database: a file is opened, filled, and old ones are unlinked.   *)
(***************************************************************************)

\* There is nothing to save in a new installation.  The command line tool is
\* run when there is a source to add.
Boot(p) ==
    /\ pc[p] = "off" /\ boots[p] < MaxBoots[p]
    /\ p = "cli" => Rows # Sources
    /\ boots' = [boots EXCEPT ![p] = @ + 1]
    /\ IF objs = {}
       THEN /\ pc' = [pc EXCEPT ![p] = "create"]
            /\ UNCHANGED <<snaps, file>>
       ELSE /\ pc' = [pc EXCEPT ![p] = "copy"]
            /\ file' = [file EXCEPT ![p] = Starts']
            /\ snaps' = snaps \cup {[stamp |-> Starts', whole |-> FALSE, of |-> {}]}
    /\ UNCHANGED <<tables, unit, missing, failures, past>>

Copied(p) ==
    /\ pc[p] = "copy"
    /\ snaps' = {IF s.stamp = file[p] THEN [s EXCEPT !.whole = TRUE, !.of = objs] ELSE s :
                     s \in snaps}
    /\ pc' = [pc EXCEPT ![p] = "prune"]
    /\ UNCHANGED <<tables, locals, boots, failures, past>>

\* sqlite3.Error: the file goes, the start goes on.
CopyFails(p) ==
    /\ pc[p] = "copy" /\ failures < MaxFailures
    /\ failures' = failures + 1
    /\ snaps' = {s \in snaps : s.stamp # file[p]}
    /\ unsaved' = TRUE
    /\ pc' = [pc EXCEPT ![p] = "create"]
    /\ UNCHANGED <<tables, locals, boots, origin, old, cutShort, polled, overtaken>>

\* Mutant: one file less is kept.
NewestShort(S) ==
    IF BackupKeep <= 0 THEN S
    ELSE {s \in S : Cardinality({t \in S : t.stamp > s.stamp}) < BackupKeep - 1}

\* _prune: the newest BackupKeep files, whole or not.
Newest(S) ==
    IF BackupKeep <= 0 THEN S
    ELSE {s \in S : Cardinality({t \in S : t.stamp > s.stamp}) < BackupKeep}

Prune(p) ==
    /\ pc[p] = "prune"
    /\ snaps' = Newest(snaps)
    /\ pc' = [pc EXCEPT ![p] = "create"]
    /\ UNCHANGED <<tables, locals, boots, failures, past>>

(***************************************************************************)
(* run_all: 001 to 004, the first failure ends the process.                *)
(***************************************************************************)

\* Migration 001: CREATE IF NOT EXISTS.
Create(p) ==
    /\ pc[p] = "create"
    /\ IF Tables \subseteq objs
       THEN /\ pc' = [pc EXCEPT ![p] = "look"]
            /\ unit' = [unit EXCEPT ![p] = 1]
            /\ UNCHANGED objs
       ELSE /\ \E t \in Tables \ objs : objs' = objs \cup {t}
            /\ UNCHANGED <<pc, unit>>
    /\ UNCHANGED <<cutoff, retired, snaps, missing, file, boots, failures, past>>

\* Mutant: the migration does not look.
AbsentBlindly(u) == Units[u]

\* Migrations 002 and 003: PRAGMA table_info ...
Absent(u) == Units[u] \ objs

\* Mutant: the UPDATE of 003 stands outside the branch that adds the column.
LookStamping(p) ==
    /\ pc[p] = "look"
    /\ missing' = [missing EXCEPT ![p] = Absent(unit[p])]
    /\ pc' = [pc EXCEPT ![p] = IF Backfill \in objs /\ unit[p] = 3 THEN "stamp" ELSE "alter"]
    /\ UNCHANGED <<tables, snaps, unit, file, boots, failures, past>>

Look(p) ==
    /\ pc[p] = "look"
    /\ missing' = [missing EXCEPT ![p] = Absent(unit[p])]
    /\ pc' = [pc EXCEPT ![p] = "alter"]
    /\ UNCHANGED <<tables, snaps, unit, file, boots, failures, past>>

\* Mutant: run_all goes on after a migration that returned False.
AlterAnyway(p) ==
    /\ pc[p] = "alter"
    /\ \E c \in missing[p] :
           IF c \in objs
           THEN /\ missing' = [missing EXCEPT ![p] = {}]
                /\ UNCHANGED <<pc, objs>>
           ELSE /\ objs' = objs \cup {c}
                /\ missing' = [missing EXCEPT ![p] = @ \ {c}]
                /\ pc' = [pc EXCEPT ![p] = IF c = Backfill THEN "stamp" ELSE "alter"]
    /\ UNCHANGED <<cutoff, retired, snaps, unit, file, boots, failures, past>>

\* ... and ALTER TABLE for what it did not list.  A column another process has
\* added meanwhile is an error, and the process ends.
Alter(p) ==
    /\ pc[p] = "alter"
    /\ \E c \in missing[p] :
           IF c \in objs
           THEN /\ pc' = [pc EXCEPT ![p] = "off"]
                /\ UNCHANGED <<objs, missing>>
           ELSE /\ objs' = objs \cup {c}
                /\ missing' = [missing EXCEPT ![p] = @ \ {c}]
                /\ pc' = [pc EXCEPT ![p] = IF c = Backfill THEN "stamp" ELSE "alter"]
    /\ UNCHANGED <<cutoff, retired, snaps, unit, file, boots, failures, past>>

\* Mutant: the list of migrations is read one too far.
NextUnitPast(p) ==
    /\ pc[p] = "alter" /\ missing[p] = {}
    /\ unit' = [unit EXCEPT ![p] = @ + 1]
    /\ pc' = [pc EXCEPT ![p] = IF unit[p] < 3 THEN "look" ELSE "clean"]
    /\ UNCHANGED <<tables, snaps, missing, file, boots, failures, past>>

NextUnit(p) ==
    /\ pc[p] = "alter" /\ missing[p] = {}
    /\ IF unit[p] < 3
       THEN /\ unit' = [unit EXCEPT ![p] = @ + 1]
            /\ pc' = [pc EXCEPT ![p] = "look"]
       ELSE /\ pc' = [pc EXCEPT ![p] = "clean"]
            /\ UNCHANGED unit
    /\ UNCHANGED <<tables, snaps, missing, file, boots, failures, past>>

\* Mutant: no COALESCE.
BackfillDateOrNull(s) == IF s \in Dated THEN "newest item" ELSE cutoff[s]

\* Migration 003's UPDATE of every row: the newest date the source has, or now.
BackfillDate(s) == IF s \in Dated THEN "newest item" ELSE "migration"

Stamp(p) ==
    /\ pc[p] = "stamp"
    /\ cutoff' = [s \in Sources |-> IF s \in Rows THEN BackfillDate(s) ELSE "no row"]
    /\ pc' = [pc EXCEPT ![p] = "alter"]
    /\ UNCHANGED <<objs, retired, snaps, locals, boots, failures, past>>

\* Migration 004, and the end of init_db.
Clean(p) ==
    /\ pc[p] = "clean"
    /\ retired' = FALSE
    /\ pc' = [pc EXCEPT ![p] = "up"]
    /\ UNCHANGED <<objs, cutoff, snaps, locals, boots, failures, past>>

\* A process dies, or the database refuses a statement and run_all returns
\* False: what was committed stays.  A server may also die later.
Die(p) ==
    /\ pc[p] # "off" /\ failures < MaxFailures
    /\ failures' = failures + 1
    /\ pc' = [pc EXCEPT ![p] = "off"]
    /\ cutShort' = (cutShort \/ pc[p] = "stamp")
    /\ UNCHANGED <<tables, snaps, locals, boots, origin, old, unsaved, polled, overtaken>>

(***************************************************************************)
(* What goes on once a process is up.                                      *)
(***************************************************************************)

\* The row of a new source: no cutoff yet.
Insert(s) ==
    /\ cutoff[s] = "no row"
    /\ cutoff' = [cutoff EXCEPT ![s] = "null"]
    /\ overtaken' = IF \E p \in Procs : pc[p] = "stamp" THEN overtaken \cup {s} ELSE overtaken

\* The command line tool adds its source and ends.
CliInserts ==
    /\ pc["cli"] = "up"
    /\ \E s \in Sources : Insert(s)
    /\ pc' = [pc EXCEPT !["cli"] = "off"]
    /\ UNCHANGED <<objs, retired, snaps, locals, boots, failures,
                   origin, old, unsaved, cutShort, polled>>

CreateSource ==
    /\ pc["server"] = "up"
    /\ \E s \in Sources : Insert(s)
    /\ UNCHANGED <<objs, retired, snaps, pc, locals, boots, failures,
                   origin, old, unsaved, cutShort, polled>>

\* A poll of a source without a cutoff takes it for a first one.
FirstPoll(s) ==
    /\ pc["server"] = "up"
    /\ cutoff[s] = "null"
    /\ cutoff' = [cutoff EXCEPT ![s] = "first poll"]
    /\ polled' = polled \cup {s}
    /\ UNCHANGED <<objs, retired, snaps, pc, locals, boots, failures,
                   origin, old, unsaved, cutShort, overtaken>>

InitDb(p) ==
    \/ Boot(p) \/ Copied(p) \/ Prune(p) \/ Create(p)
    \/ Look(p) \/ Alter(p) \/ NextUnit(p) \/ Stamp(p) \/ Clean(p)

Next ==
    \/ \E p \in Procs : InitDb(p) \/ CopyFails(p) \/ Die(p)
    \/ CliInserts \/ CreateSource
    \/ \E s \in Sources : FirstPoll(s)

Spec == Init /\ [][Next]_vars

\* docker starts the server whenever it is down, and a process that starts
\* goes on.  Nobody has to run the command line tool.
FairSpec == Spec /\ WF_vars(InitDb("server"))

-----------------------------------------------------------------------------
Stages == {"off", "copy", "prune", "create", "look", "alter", "stamp", "clean", "up"}

TypeOK ==
    /\ objs \in SUBSET Schema
    /\ cutoff \in [Sources -> {"no row", "null", "newest item", "migration", "first poll"}]
    /\ retired \in BOOLEAN
    /\ snaps \subseteq [stamp : 1 .. Starts, whole : BOOLEAN, of : SUBSET Schema]
    /\ pc \in [Procs -> Stages]
    /\ unit \in [Procs -> 1 .. 3]
    /\ missing \in [Procs -> SUBSET Schema]
    /\ file \in [Procs -> 0 .. Starts]
    /\ boots \in [Procs -> Nat] /\ \A p \in Procs : boots[p] <= MaxBoots[p]
    /\ failures \in 0 .. MaxFailures
    /\ origin \in SUBSET Schema
    /\ old \in SUBSET Sources
    /\ unsaved \in BOOLEAN /\ cutShort \in BOOLEAN
    /\ polled \in SUBSET Sources
    /\ overtaken \in SUBSET Sources

\* A process is up on a whole schema only, whatever died before and whatever
\* another process did to the schema meanwhile.
ServesComplete == \A p \in Procs : pc[p] = "up" => objs = Schema /\ ~retired

\* The database as it was before the upgrade can be had back: once the schema
\* has changed, a whole copy of the old one is there, until BackupKeep starts
\* have pushed it out, unless a snapshot failed.
OriginalKept ==
    objs # origin /\ origin # {} /\ ~unsaved /\ (Starts <= BackupKeep \/ BackupKeep <= 0) =>
        \E s \in snaps : s.whole /\ s.of = origin

\* Every source from before the upgrade is given its date before anybody polls
\* it, save when the process that added the column ended there and then, or
\* is still at it while another serves.
BackfillWhole ==
    pc["server"] = "up" /\ ~cutShort /\ (\A p \in Procs : pc[p] # "stamp") =>
        \A s \in old : cutoff[s] \in {"newest item", "migration"}

\* A source added since the upgrade keeps its NULL until its own first poll,
\* however often the migrations run again and die.  The exception is a source
\* that one process adds while another stands between the ALTER and the UPDATE
\* of 003, which the UPDATE dates.
NewSourceWaits ==
    \A s \in Rows \ (old \cup polled \cup overtaken) : cutoff[s] = "null"

\* However often a process dies in the middle of a migration, the server comes
\* up in the end.
Recovers == <>[](pc["server"] = "up")
=============================================================================
