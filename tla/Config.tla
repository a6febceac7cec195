-------------------------------- MODULE Config --------------------------------
(***************************************************************************)
(* The configuration and the requests that change it: the versions of the  *)
(* prompts (judge.py), the settings (store.py, routers/settings.py), the    *)
(* editable columns of a source (routers/sources.py) and the import of an   *)
(* exported file (routers/actions.py).                                     *)
(*                                                                         *)
(* Requests run on a pool of threads, each with a connection of its own,    *)
(* and commit often: a version and the pointer to it are two commits, an    *)
(* edit reads the row before the transaction that writes it, an import      *)
(* commits setting by setting and prompt by prompt.  Between any two        *)
(* commits other requests may come in, a write may be refused, or the      *)
(* process may die.                                                        *)
(*                                                                         *)
(* There is one source; creating and purging are in Ingest.  Texts and      *)
(* values are members of small sets, timestamps are left out.              *)
(***************************************************************************)
EXTENDS Integers, Sequences

CONSTANTS
    Clients,     \* requests that may be in progress at once
    Prompts,     \* PROMPT_NAMES
    Texts,       \* what a prompt may say
    FileText,    \* what its file in the repository says
    Keys,        \* PUBLIC_SETTINGS
    Values,      \* what a setting or a column may be
    Fields,      \* the columns of a source that PUT may change, ...
    Exported,    \* ... those the file carries, ...
    Counts,      \* ... and those in which an import takes 0 for "not given"
    Default,     \* the value such a column gets then
    Files,       \* what may be imported
    MaxId,       \* bounds: the version ids a rollback may name,
    MaxRequests, \* requests, ...
    MaxFailures  \* ... and process deaths and refused writes

Zero    == 0
Unset   == 0          \* no row current_<name>_history_id
Startup == "startup"  \* the lifespan, which seeds before any request

\* What export_config writes and import_config reads.
FileType == [setting : [Keys -> Values], prompt : [Prompts -> Texts],
             row : [Exported -> Values]]

ASSUME ConfigAssumption ==
    /\ Startup \notin Clients /\ Keys \cap Prompts = {}
    /\ FileText \in Texts
    /\ Counts \subseteq Fields /\ Exported \subseteq Fields
    /\ {Zero, Default} \subseteq Values
    /\ Files \subseteq FileType
    /\ MaxId \in Nat /\ MaxRequests \in Nat /\ MaxFailures \in Nat

Workers == Clients \cup {Startup}

\* Some of the members of D and a value for each.
Changes(D) == UNION {[S -> Values] : S \in SUBSET D}

\* The bodies of the requests.
Bodies ==
    [kind : {"settings"}, change : Changes(Keys)]
    \cup [kind : {"save"}, name : Prompts, text : Texts]
    \cup [kind : {"rollback"}, name : Prompts, id : 1 .. MaxId]
    \cup [kind : {"edit"}, change : Changes(Fields)]
    \cup [kind : {"import"}, file : Files]

VARIABLES
    history,     \* prompt_history: the name and value of each version, by id
    pointer,     \* settings: the id of the version in force
    setting,     \* settings: the public keys
    row,         \* sources: the editable columns
    serving,     \* the lifespan has come to its yield
    req,         \* the locals of each worker
    requests,
    failures,
    mixed        \* history: the requests that were not alone

tables == <<history, pointer, setting, row>>
bounds == <<requests, failures>>
vars   == <<tables, serving, req, bounds, mixed>>

\* A worker: where it stands, its request, the call of save_prompt or
\* rollback_prompt it is in and where it goes on after it, the keys and prompts
\* it has still to write, the columns it will write; and, as a history variable,
\* the configuration it was asked for.
NoBody == [kind |-> "none"]
NoCall == [name |-> "none", text |-> "none", id |-> Unset, after |-> "idle"]
Idle   == [at |-> "idle", body |-> NoBody, call |-> NoCall, todo |-> {}, copy |-> <<>>,
           want |-> NoBody]

At(w)     == req[w].at
Goes(w, r) == req' = [req EXCEPT ![w] = r]
Busy      == {c \in Clients : At(c) # "idle"}

\* current_prompt looks a version up by its id alone.
Current(n) == history[pointer[n]].value

Merge(change, old) ==
    [f \in DOMAIN old |-> IF f \in DOMAIN change THEN change[f] ELSE old[f]]

Config == [setting |-> setting, prompt |-> [n \in Prompts |-> Current(n)], row |-> row]

Init ==
    /\ history = <<>>
    /\ pointer = [n \in Prompts |-> Unset]
    /\ setting \in [Keys -> {Zero}]
    /\ row = [f \in Fields |-> Default]
    /\ serving = FALSE
    /\ req = [w \in Workers |-> Idle]
    /\ requests = 0 /\ failures = 0
    /\ mixed = {}

(***************************************************************************)
(* What the requests share.                                                *)
(***************************************************************************)

IsVersion(b)  == b.id \in 1 .. Len(history) /\ history[b.id].name = b.name
Imported(new) == [f \in Exported |-> IF f \in Counts /\ new[f] = Zero THEN Default ELSE new[f]]

\* What a request asks for: of an import, what its file says.
Asked(b) ==
    CASE b.kind = "settings" -> [Config EXCEPT !.setting = Merge(b.change, @)]
      [] b.kind = "save"     -> [Config EXCEPT !.prompt[b.name] = b.text]
      [] b.kind = "rollback" -> IF IsVersion(b)
                                THEN [Config EXCEPT !.prompt[b.name] = history[b.id].value]
                                ELSE Config
      [] b.kind = "edit"     -> [Config EXCEPT !.row = Merge(b.change, @)]
      [] b.kind = "import"   -> [b.file EXCEPT !.row = Merge(@, row)]

\* Where a request starts and what it has to write one by one.
First(b) ==
    CASE b.kind \in {"settings", "import"} -> "keys"
      [] b.kind \in {"save", "rollback"}   -> "seed"
      [] b.kind = "edit"                   -> "write"

Owed(b) ==
    CASE b.kind = "settings"                   -> DOMAIN b.change
      [] b.kind = "import"                     -> Keys \cup Prompts
      [] b.kind \in {"save", "rollback", "edit"} -> {}

\* A request comes in.  An edit reads the row and merges its body onto it.
Begin(c) ==
    /\ serving /\ At(c) = "idle" /\ requests < MaxRequests
    /\ requests' = requests + 1
    /\ \E b \in Bodies :
          Goes(c, [at |-> First(b), body |-> b, call |-> NoCall, todo |-> Owed(b),
                   copy |-> IF b.kind = "edit" THEN Merge(b.change, row) ELSE <<>>,
                   want |-> Asked(b)])
    /\ mixed' = IF Busy = {} THEN {} ELSE mixed \cup Busy \cup {c}
    /\ UNCHANGED <<tables, serving, failures>>

\* set_setting for one key, in a commit of its own.
PutKey(c) ==
    /\ At(c) = "keys"
    /\ \E k \in req[c].todo \cap Keys :
          /\ setting' = [setting EXCEPT ![k] =
                 IF req[c].body.kind = "import" THEN req[c].body.file.setting[k]
                                                ELSE req[c].body.change[k]]
          /\ Goes(c, [req[c] EXCEPT !.todo = @ \ {k}])
    /\ UNCHANGED <<history, pointer, row, serving, bounds, mixed>>

KeysDone(c) ==
    /\ At(c) = "keys" /\ req[c].todo \cap Keys = {}
    /\ Goes(c, IF req[c].body.kind = "import" THEN [req[c] EXCEPT !.at = "seed"] ELSE Idle)
    /\ UNCHANGED <<tables, serving, bounds, mixed>>

(***************************************************************************)
(* Prompts.                                                                *)
(***************************************************************************)
Calls(w, n, t, after) ==
    Goes(w, [req[w] EXCEPT !.at = "insert",
                           !.call = [name |-> n, text |-> t, id |-> Unset, after |-> after]])

\* Mutant of Seed: a prompt that differs from its file is seeded again.
SeedAgain(w) ==
    /\ At(w) = "seed"
    /\ \E n \in Prompts :
          /\ pointer[n] # Unset => Current(n) # FileText
          /\ Calls(w, n, FileText, "seed")
    /\ UNCHANGED <<tables, serving, bounds, mixed>>

\* ensure_prompts, at the start of the process and of every route about prompts.
Seed(w) ==
    /\ At(w) = "seed"
    /\ \E n \in Prompts : pointer[n] = Unset /\ Calls(w, n, FileText, "seed")
    /\ UNCHANGED <<tables, serving, bounds, mixed>>

Seeded(w) == At(w) = "seed" /\ \A n \in Prompts : pointer[n] # Unset

LifespanYields ==
    /\ Seeded(Startup)
    /\ Goes(Startup, Idle)
    /\ serving' = TRUE
    /\ UNCHANGED <<tables, bounds, mixed>>

\* What each route does next.
Ensured(c) ==
    /\ Seeded(c)
    /\ LET b == req[c].body IN
       CASE b.kind = "save"     -> Calls(c, b.name, b.text, "idle")
         [] b.kind = "rollback" -> Goes(c, [req[c] EXCEPT !.at = "check"])
         [] b.kind = "import"   -> Goes(c, [req[c] EXCEPT !.at = "prompts"])
    /\ UNCHANGED <<tables, serving, bounds, mixed>>

\* save_prompt: the version, ...
Insert(w) ==
    /\ At(w) = "insert"
    /\ history' = Append(history, [name |-> req[w].call.name, value |-> req[w].call.text])
    /\ Goes(w, [req[w] EXCEPT !.at = "point", !.call.id = Len(history')])
    /\ UNCHANGED <<pointer, setting, row, serving, bounds, mixed>>

\* ... and the pointer to it.
Point(w) ==
    /\ At(w) = "point"
    /\ pointer' = [pointer EXCEPT ![req[w].call.name] = req[w].call.id]
    /\ Goes(w, IF req[w].call.after = "idle" THEN Idle
               ELSE [req[w] EXCEPT !.at = req[w].call.after, !.call = NoCall])
    /\ UNCHANGED <<history, setting, row, serving, bounds, mixed>>

\* rollback_prompt: a version of that prompt is pointed to, or 404.
RollbackOf(c, found) ==
    /\ At(c) = "check"
    /\ LET b == req[c].body IN
       Goes(c, IF found
               THEN [req[c] EXCEPT !.at = "point",
                                   !.call = [NoCall EXCEPT !.name = b.name, !.id = b.id]]
               ELSE Idle)
    /\ UNCHANGED <<tables, serving, bounds, mixed>>

\* Mutants of Rollback: the version is looked up by its id alone, or not at all.
RollbackById(c)      == RollbackOf(c, req[c].body.id \in 1 .. Len(history))
RollbackUnchecked(c) == RollbackOf(c, TRUE)

Rollback(c) == RollbackOf(c, IsVersion(req[c].body))

(***************************************************************************)
(* The rest of an import, and the write of the row.                        *)
(***************************************************************************)

\* Mutant of ImportPrompt: a text the history has is not saved again.
ImportPromptNew(c) ==
    /\ At(c) = "prompts"
    /\ \E n \in req[c].todo :
          LET t == req[c].body.file.prompt[n]
          IN  Goes(c, IF \E i \in 1 .. Len(history) : history[i] = [name |-> n, value |-> t]
                  THEN [req[c] EXCEPT !.todo = @ \ {n}]
                  ELSE [req[c] EXCEPT !.todo = @ \ {n}, !.at = "insert",
                                      !.call = [name |-> n, text |-> t, id |-> Unset,
                                                after |-> "prompts"]])
    /\ UNCHANGED <<tables, serving, bounds, mixed>>

\* A prompt is saved if the file says something else than what is in force.
ImportPrompt(c) ==
    /\ At(c) = "prompts"
    /\ \E n \in req[c].todo :
          LET t == req[c].body.file.prompt[n]
          IN  Goes(c, IF t = Current(n)
                  THEN [req[c] EXCEPT !.todo = @ \ {n}]
                  ELSE [req[c] EXCEPT !.todo = @ \ {n}, !.at = "insert",
                                      !.call = [name |-> n, text |-> t, id |-> Unset,
                                                after |-> "prompts"]])
    /\ UNCHANGED <<tables, serving, bounds, mixed>>

PromptsDone(c) ==
    /\ At(c) = "prompts" /\ req[c].todo = {}
    /\ Goes(c, [req[c] EXCEPT !.at = "write", !.copy = Imported(req[c].body.file.row)])
    /\ UNCHANGED <<tables, serving, bounds, mixed>>

\* An edit writes every editable column back, an import those it carries.
WriteRow(c) ==
    /\ At(c) = "write"
    /\ row' = Merge(req[c].copy, row)
    /\ Goes(c, Idle)
    /\ UNCHANGED <<history, pointer, setting, serving, bounds, mixed>>

(***************************************************************************)
(* The process.                                                            *)
(***************************************************************************)
Start ==
    /\ ~serving /\ At(Startup) = "idle"
    /\ Goes(Startup, [Idle EXCEPT !.at = "seed"])
    /\ UNCHANGED <<tables, serving, bounds, mixed>>

Crash ==
    /\ failures < MaxFailures
    /\ failures' = failures + 1
    /\ serving' = FALSE
    /\ req' = [w \in Workers |-> Idle]
    /\ UNCHANGED <<tables, requests, mixed>>

\* A run holds the write lock for longer than a write waits: the request ends
\* with an error where it is.
Refused(c) ==
    /\ At(c) \in {"keys", "check", "insert", "point", "write"}
    /\ At(c) = "keys" => req[c].todo \cap Keys # {}
    /\ failures < MaxFailures
    /\ failures' = failures + 1
    /\ Goes(c, Idle)
    /\ mixed' = mixed \cup {c}
    /\ UNCHANGED <<tables, serving, requests>>

Next ==
    \/ \E w \in Workers : Seed(w) \/ Insert(w) \/ Point(w)
    \/ \E c \in Clients :
          \/ Begin(c) \/ PutKey(c) \/ KeysDone(c) \/ Ensured(c) \/ Rollback(c)
          \/ ImportPrompt(c) \/ PromptsDone(c) \/ WriteRow(c)
          \/ Refused(c)
    \/ LifespanYields \/ Start \/ Crash

Spec == Init /\ [][Next]_vars

(***************************************************************************)
(* Properties.                                                             *)
(***************************************************************************)
Ats      == {"idle", "keys", "seed", "check", "insert", "point", "prompts", "write"}
CallType == [name : Prompts \cup {"none"}, text : Texts \cup {"none"},
             id : 0 .. Len(history), after : {"idle", "seed", "prompts"}]
Copies   == [Fields -> Values] \cup [Exported -> Values] \cup {<<>>}
Wants    == [setting : [Keys -> Values], prompt : [Prompts -> Texts], row : [Fields -> Values]]
ReqType  == [at : Ats, body : Bodies \cup {NoBody}, call : CallType,
             todo : SUBSET (Keys \cup Prompts), copy : Copies, want : Wants \cup {NoBody}]

TypeOK ==
    /\ history \in Seq([name : Prompts, value : Texts])
    /\ pointer \in [Prompts -> 0 .. Len(history)]
    /\ setting \in [Keys -> Values]
    /\ row \in [Fields -> Values]
    /\ serving \in BOOLEAN
    /\ req \in [Workers -> ReqType]
    /\ requests \in 0 .. MaxRequests /\ failures \in 0 .. MaxFailures
    /\ mixed \in SUBSET Clients

\* While requests are served every prompt has a version in force, of its own
\* name, whatever saves, rollbacks and imports overlap and whatever died or
\* was refused between a version and its pointer.
PointersStand ==
    serving => \A n \in Prompts :
                   pointer[n] \in 1 .. Len(history) /\ history[pointer[n]].name = n

\* A start seeds what was never set and touches no prompt that stands.
RestartKeepsPrompts ==
    [][~serving => \A n \in Prompts : pointer[n] # Unset => pointer'[n] = pointer[n]]_vars

\* The counts a file gives as 0.
Zeroed(b) == IF b.kind = "import" THEN {f \in Exported \cap Counts : b.file.row[f] = Zero} ELSE {}

\* What was asked for, with the default for these.
Granted(want, b) ==
    [want EXCEPT !.row = [f \in Fields |-> IF f \in Zeroed(b) THEN Default ELSE @[f]]]

\* A request comes to its end.
Ends(c) == At(c) # "idle" /\ req'[c] = Idle /\ serving'

\* A request that ran alone leaves exactly what it asked for: the one setting,
\* prompt or column it named changed and nothing else, an imported file in force
\* throughout, whatever deaths, errors and overlaps came before.  The exception is
\* a threshold or cap that an imported file gives as 0: the default is stored.
AloneIsExact ==
    [][\A c \in Clients \ mixed' :
           Ends(c) => Config' = Granted(req[c].want, req[c].body)]_vars

(***************************************************************************)
(* What comments say of the code, and the code does not do.                *)
(***************************************************************************)

\* actions.py, deploy.md, test_actions_api.py: an import is an upsert of an
\* exported snapshot, from which the configuration is restored; it round-trips.
ImportIsExact ==
    [][\A c \in Clients \ mixed' :
           Ends(c) /\ req[c].body.kind = "import" => Config' = req[c].want]_vars
=============================================================================
