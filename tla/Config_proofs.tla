---------------------------- MODULE Config_proofs ----------------------------
(***************************************************************************)
(* What Config promises for any clients, prompts, keys, fields and files.  *)
(***************************************************************************)
EXTENDS Config, TLAPS

Valid(i, n) == i \in 1 .. Len(history) /\ history[i].name = n

\* Where a worker may stand with which body, and what it holds there.
Holds(w) ==
    LET r == req[w]
        b == req[w].body
    IN  /\ r.at # "idle" /\ w \in Clients => b \in Bodies
        /\ r.at = "keys" => b.kind \in {"settings", "import"}
        /\ r.at = "keys" /\ b.kind = "settings" => r.todo \subseteq DOMAIN b.change
        /\ r.at \in {"seed", "insert", "point"} /\ w \in Clients =>
               b.kind \in {"save", "rollback", "import"}
        /\ r.at = "check" => b.kind = "rollback"
        /\ r.at = "prompts" => b.kind = "import"
        /\ r.at \in {"seed", "check", "insert", "point", "prompts"} => r.todo \subseteq Prompts
        /\ r.at = "write" => b.kind \in {"edit", "import"} /\ r.todo = {}
        /\ r.at = "write" /\ b.kind = "edit" => r.copy \in [Fields -> Values]
        /\ r.at = "write" /\ b.kind = "import" => r.copy \in [Exported -> Values]
        /\ r.at \in {"insert", "point"} =>
               /\ r.call.name \in Prompts
               /\ w \in Clients /\ b.kind = "import" => r.call.after = "prompts"
               /\ w \in Clients /\ b.kind # "import" => r.call.after = "idle"
        /\ r.at = "insert" => r.call.text \in Texts /\ (w \in Clients => b.kind # "rollback")
        /\ r.at = "point" => Valid(r.call.id, r.call.name)

\* Before requests are served only the lifespan is at work, on what was never
\* set.
Seeding ==
    /\ ~serving => \A c \in Clients : At(c) = "idle"
    /\ serving => At(Startup) = "idle"
    /\ At(Startup) \in {"idle", "seed", "insert", "point"}
    /\ At(Startup) \in {"insert", "point"} =>
           pointer[req[Startup].call.name] = Unset /\ req[Startup].call.after = "seed"

Pointed ==
    /\ \A n \in Prompts : pointer[n] # Unset => Valid(pointer[n], n)
    /\ serving => \A n \in Prompts : pointer[n] # Unset

Inv == TypeOK /\ Pointed /\ Seeding /\ \A w \in Workers : Holds(w)

(***************************************************************************)
(* The data.                                                               *)
(***************************************************************************)
USE DEF tables, bounds

Kinds == {"settings", "save", "rollback", "edit", "import"}

LEMMA BodyFacts ==
    ASSUME NEW b \in Bodies
    PROVE  /\ b.kind \in Kinds
           /\ b.kind = "settings" => b.change \in Changes(Keys)
           /\ b.kind = "save" => b.name \in Prompts /\ b.text \in Texts
           /\ b.kind = "rollback" => b.name \in Prompts /\ b.id \in 1 .. MaxId
           /\ b.kind = "edit" => b.change \in Changes(Fields)
           /\ b.kind = "import" => b.file \in Files
  BY DEF Bodies, Kinds

LEMMA ChangeFacts ==
    ASSUME NEW D, NEW g \in Changes(D)
    PROVE  DOMAIN g \subseteq D /\ \A k \in DOMAIN g : g[k] \in Values
  <1>1. PICK S \in SUBSET D : g \in [S -> Values]
    BY DEF Changes
  <1>2. DOMAIN g = S /\ \A k \in S : g[k] \in Values
    BY <1>1
  <1> QED BY <1>1, <1>2

LEMMA MergeTyped ==
    ASSUME NEW D, NEW old \in [D -> Values], NEW g, \A k \in DOMAIN g : g[k] \in Values
    PROVE  Merge(g, old) \in [D -> Values]
  BY DEF Merge

LEMMA FileFacts ==
    ASSUME NEW f \in Files
    PROVE  /\ f \in FileType
           /\ f.setting \in [Keys -> Values] /\ f.prompt \in [Prompts -> Texts]
           /\ f.row \in [Exported -> Values]
           /\ Imported(f.row) \in [Exported -> Values]
  <1>1. f \in FileType /\ Default \in Values
    BY ConfigAssumption
  <1>2. f.row \in [Exported -> Values]
    BY <1>1 DEF FileType
  <1> QED BY <1>1, <1>2 DEF FileType, Imported

LEMMA RowTyped ==
    ASSUME TypeOK, NEW f \in Files
    PROVE  Merge(f.row, row) \in [Fields -> Values]
  <1>1. \A k \in DOMAIN f.row : f.row[k] \in Values
    BY FileFacts
  <1> QED BY <1>1, MergeTyped DEF TypeOK

LEMMA VersionFacts ==
    ASSUME TypeOK
    PROVE  /\ Len(history) \in Nat
           /\ \A k \in 1 .. Len(history) : history[k].name \in Prompts /\ history[k].value \in Texts
  <1> DEFINE V == [name : Prompts, value : Texts]
  <1>1. history \in Seq(V)
    BY DEF TypeOK
  <1>2. Len(history) \in Nat /\ \A k \in 1 .. Len(history) : history[k] \in V
    <2> HIDE DEF V
    <2> QED BY <1>1
  <1> QED BY <1>2

LEMMA PromptsTyped ==
    ASSUME TypeOK, Pointed, serving
    PROVE  \A n \in Prompts : Current(n) \in Texts
  BY VersionFacts DEF Pointed, Valid, Current

\* What a request is asked for, part by part.
LEMMA AskedParts ==
    ASSUME TypeOK, NEW b \in Bodies
    PROVE  /\ Asked(b).setting = IF b.kind = "settings" THEN Merge(b.change, setting)
                                 ELSE IF b.kind = "import" THEN b.file.setting ELSE setting
           /\ \A n \in Prompts :
                  Asked(b).prompt[n] =
                      IF b.kind = "save" /\ n = b.name THEN b.text
                      ELSE IF b.kind = "rollback" /\ n = b.name /\ IsVersion(b)
                           THEN history[b.id].value
                      ELSE IF b.kind = "import" THEN b.file.prompt[n]
                      ELSE Current(n)
           /\ Asked(b).row = IF b.kind = "edit" THEN Merge(b.change, row)
                             ELSE IF b.kind = "import" THEN Merge(b.file.row, row)
                             ELSE row
           /\ Asked(b) = [setting |-> Asked(b).setting, prompt |-> Asked(b).prompt,
                          row |-> Asked(b).row]
           /\ Asked(b).prompt = [n \in Prompts |-> Asked(b).prompt[n]]
  <1>0. /\ Config.setting = setting /\ Config.row = row
        /\ Config.prompt = [n \in Prompts |-> Current(n)]
        /\ Config = [setting |-> Config.setting, prompt |-> Config.prompt, row |-> Config.row]
    BY DEF Config
  <1>1. CASE b.kind = "settings"
    <2>1. Asked(b) = [Config EXCEPT !.setting = Merge(b.change, @)]
      BY <1>1 DEF Asked
    <2>2. /\ Asked(b).setting = Merge(b.change, Config.setting)
          /\ Asked(b).row = Config.row
          /\ Asked(b).prompt = Config.prompt
          /\ Asked(b) = [setting |-> Asked(b).setting, prompt |-> Asked(b).prompt,
                         row |-> Asked(b).row]
      BY <1>0, <2>1
    <2> QED BY <1>1, <1>0, <2>2
  <1>2. CASE b.kind = "save"
    <2>1. Asked(b) = [Config EXCEPT !.prompt[b.name] = b.text]
      BY <1>2 DEF Asked
    <2> QED BY <1>0, <1>2, <2>1, BodyFacts
  <1>3. CASE b.kind = "rollback"
    <2>1. Asked(b) = IF IsVersion(b) THEN [Config EXCEPT !.prompt[b.name] = history[b.id].value]
                     ELSE Config
      BY <1>3 DEF Asked
    <2> QED BY <1>0, <1>3, <2>1, BodyFacts
  <1>4. CASE b.kind = "edit"
    <2>1. Asked(b) = [Config EXCEPT !.row = Merge(b.change, @)]
      BY <1>4 DEF Asked
    <2>2. /\ Asked(b).setting = Config.setting
          /\ Asked(b).row = Merge(b.change, Config.row)
          /\ Asked(b).prompt = Config.prompt
          /\ Asked(b) = [setting |-> Asked(b).setting, prompt |-> Asked(b).prompt,
                         row |-> Asked(b).row]
      BY <1>0, <2>1
    <2> QED BY <1>4, <1>0, <2>2
  <1>5. CASE b.kind = "import"
    <2>1. Asked(b) = [b.file EXCEPT !.row = Merge(@, row)]
      BY <1>5 DEF Asked
    <2>2. b.file \in FileType
      BY <1>5, BodyFacts, FileFacts
    <2> QED BY <1>5, <2>1, <2>2 DEF FileType
  <1> QED BY <1>1, <1>2, <1>3, <1>4, <1>5, BodyFacts DEF Kinds

LEMMA AskedTyped ==
    ASSUME TypeOK, Pointed, serving, NEW b \in Bodies
    PROVE  Asked(b) \in Wants
  <1>1. Asked(b).setting \in [Keys -> Values]
    <2>1. CASE b.kind = "settings"
      <3>1. \A k \in DOMAIN b.change : b.change[k] \in Values
        BY <2>1, BodyFacts, ChangeFacts
      <3>2. setting \in [Keys -> Values]
        BY DEF TypeOK
      <3>3. Merge(b.change, setting) \in [Keys -> Values]
        BY <3>1, <3>2, MergeTyped
      <3> QED BY <2>1, <3>3, AskedParts
    <2>2. CASE b.kind # "settings"
      BY <2>2, AskedParts, BodyFacts, FileFacts DEF TypeOK
    <2> QED BY <2>1, <2>2
  <1>2. \A n \in Prompts : Asked(b).prompt[n] \in Texts
    BY AskedParts, BodyFacts, FileFacts, PromptsTyped, VersionFacts DEF IsVersion
  <1>3. Asked(b).row \in [Fields -> Values]
    <2>1. CASE b.kind = "edit"
      <3>1. \A k \in DOMAIN b.change : b.change[k] \in Values
        BY <2>1, BodyFacts, ChangeFacts
      <3>2. row \in [Fields -> Values]
        BY DEF TypeOK
      <3>3. Merge(b.change, row) \in [Fields -> Values]
        BY <3>1, <3>2, MergeTyped
      <3> QED BY <2>1, <3>3, AskedParts
    <2>2. CASE b.kind # "edit"
      BY <2>2, AskedParts, BodyFacts, RowTyped DEF TypeOK
    <2> QED BY <2>1, <2>2
  <1>4. Asked(b).prompt \in [Prompts -> Texts]
    BY <1>2, AskedParts DEF Wants
  <1> QED BY <1>1, <1>3, <1>4, AskedParts DEF Wants

(***************************************************************************)
(* The invariant.                                                          *)
(***************************************************************************)

\* Versions are only ever added.
Grows ==
    /\ Len(history) <= Len(history')
    /\ \A k \in 1 .. Len(history) : history'[k] = history[k]

Versions == Seq([name : Prompts, value : Texts])

LEMMA Appended ==
    ASSUME TypeOK, NEW v \in [name : Prompts, value : Texts], history' = Append(history, v)
    PROVE  /\ Grows /\ history' \in Versions
           /\ Len(history') = Len(history) + 1 /\ history'[Len(history')] = v
  <1> DEFINE V == [name : Prompts, value : Texts]
  <1>1. history \in Seq(V) /\ v \in V
    BY DEF TypeOK
  <1> HIDE DEF V
  <1>2. history' \in Seq(V) /\ Len(history') = Len(history) + 1 /\ Len(history) \in Nat
    BY <1>1
  <1>3. history'[Len(history')] = v /\ \A k \in 1 .. Len(history) : history'[k] = history[k]
    BY <1>1, <1>2
  <1> QED BY <1>2, <1>3 DEF Grows, Versions, V

LEMMA SameVersions ==
    ASSUME TypeOK, history' = history
    PROVE  Grows /\ history' \in Versions
  BY VersionFacts DEF Grows, Versions, TypeOK

LEMMA GrowsTypes ==
    ASSUME TypeOK, Grows, history' \in Versions
    PROVE  ReqType \subseteq ReqType' /\ CallType \subseteq CallType' /\ Len(history') \in Nat
  <1>1. Len(history) \in Nat
    BY VersionFacts
  <1>2. Len(history') \in Nat
    <2> DEFINE V == [name : Prompts, value : Texts]
    <2>1. history' \in Seq(V)
      BY DEF Versions
    <2> HIDE DEF V
    <2> QED BY <2>1
  <1>3. CallType \subseteq CallType'
    BY <1>1, <1>2 DEF Grows, CallType
  <1>4. ReqType \subseteq ReqType'
    BY <1>3 DEF ReqType
  <1> QED BY <1>2, <1>3, <1>4

LEMMA ValidGrows ==
    ASSUME TypeOK, Grows, NEW k, NEW n, Valid(k, n), history' \in Versions
    PROVE  k \in 1 .. Len(history') /\ history'[k].name = n
  <1>1. Len(history) \in Nat /\ Len(history') \in Nat
    BY VersionFacts, GrowsTypes
  <1> QED BY <1>1 DEF Valid, Grows

\* One worker steps; what the others hold stays held.
LEMMA WorkerSteps ==
    ASSUME Inv, Grows, history' \in Versions, NEW w \in Workers, NEW r,
           Goes(w, r), r \in ReqType', Holds(w)'
    PROVE  /\ req' \in [Workers -> ReqType'] /\ req'[w] = r
           /\ \A v \in Workers : v # w => req'[v] = req[v]
           /\ \A v \in Workers : Holds(v)'
  <1>1. req \in [Workers -> ReqType] /\ ReqType \subseteq ReqType'
    BY GrowsTypes DEF Inv, TypeOK
  <1>2. /\ req' \in [Workers -> ReqType'] /\ req'[w] = r
        /\ \A v \in Workers : v # w => req'[v] = req[v]
    BY <1>1 DEF Goes
  <1>3. ASSUME NEW v \in Workers, v # w PROVE Holds(v)'
    <2>1. Holds(v) /\ req'[v] = req[v]
      BY <1>2, <1>3 DEF Inv
    <2>2. Valid(req[v].call.id, req[v].call.name) =>
              /\ req[v].call.id \in 1 .. Len(history')
              /\ history'[req[v].call.id].name = req[v].call.name
      BY ValidGrows DEF Inv
    <2> QED BY <2>1, <2>2 DEF Holds, Valid
  <1> QED BY <1>2, <1>3

Rest ==
    /\ setting \in [Keys -> Values] /\ row \in [Fields -> Values]
    /\ requests \in 0 .. MaxRequests /\ failures \in 0 .. MaxFailures
    /\ mixed \in SUBSET Clients

LEMMA PointedStays ==
    ASSUME Inv, Grows, history' \in Versions, UNCHANGED <<pointer, serving>>
    PROVE  Pointed' /\ pointer' \in [Prompts -> 0 .. Len(history')]
  <1>1. \A n \in Prompts : pointer[n] # Unset =>
            pointer[n] \in 1 .. Len(history') /\ history'[pointer[n]].name = n
    BY ValidGrows DEF Inv, Pointed
  <1>2. Len(history) \in Nat /\ Len(history') \in Nat /\ Len(history) <= Len(history')
    BY VersionFacts, GrowsTypes DEF Inv, Grows
  <1>3. pointer \in [Prompts -> 0 .. Len(history)]
    BY DEF Inv, TypeOK
  <1>4. pointer' \in [Prompts -> 0 .. Len(history')]
    BY <1>2, <1>3
  <1> QED BY <1>1, <1>4 DEF Inv, Pointed, Valid

\* A client's request steps, once requests are served.
LEMMA ClientSteps ==
    ASSUME Inv, Grows, history' \in Versions, NEW c \in Clients, NEW r,
           Goes(c, r), r \in ReqType', Holds(c)', serving, UNCHANGED <<pointer, serving>>, Rest'
    PROVE  Inv'
  <1>1. c \in Workers /\ c # Startup /\ Startup \in Workers
    BY ConfigAssumption DEF Workers
  <1>2. /\ req' \in [Workers -> ReqType'] /\ req'[Startup] = req[Startup]
        /\ \A v \in Workers : Holds(v)'
    BY <1>1, WorkerSteps
  <1>3. Seeding'
    BY <1>2 DEF Inv, Seeding, At
  <1>4. Pointed' /\ pointer' \in [Prompts -> 0 .. Len(history')]
    BY PointedStays
  <1>5. TypeOK'
    BY <1>2, <1>4 DEF TypeOK, Rest, Versions, Inv
  <1> QED BY <1>2, <1>3, <1>4, <1>5 DEF Inv

LEMMA ClientServed ==
    ASSUME Inv, NEW c \in Clients, At(c) # "idle"
    PROVE  /\ serving /\ c \in Workers /\ c # Startup
           /\ req[c] \in ReqType /\ req[c].body \in Bodies /\ Holds(c)
           /\ \A n \in Prompts : pointer[n] # Unset /\ Valid(pointer[n], n)
  BY ConfigAssumption DEF Inv, TypeOK, Seeding, Holds, At, Workers, Pointed

LEMMA RestStays ==
    ASSUME Inv, UNCHANGED <<setting, row, requests, failures, mixed>>
    PROVE  Rest'
  BY DEF Inv, TypeOK, Rest

LEMMA IdleFits ==
    ASSUME Inv, Grows, history' \in Versions
    PROVE  Idle \in ReqType'
  <1>1. Len(history') \in Nat
    BY GrowsTypes DEF Inv
  <1>2. NoCall \in CallType'
    BY <1>1 DEF NoCall, CallType, Unset
  <1> QED BY <1>2 DEF Idle, ReqType, Ats, Copies

LEMMA IdleHolds ==
    ASSUME NEW w \in Workers, req'[w] = Idle
    PROVE  Holds(w)'
  BY DEF Holds, Idle

LEMMA GoesThere ==
    ASSUME Inv, NEW w \in Workers, NEW r, Goes(w, r)
    PROVE  req'[w] = r
  BY DEF Inv, TypeOK, Goes

\* A request ends.
LEMMA ClientEnds ==
    ASSUME Inv, NEW c \in Clients, At(c) # "idle", Goes(c, Idle),
           UNCHANGED <<history, pointer, serving>>, Rest'
    PROVE  Inv'
  <1>1. serving /\ c \in Workers
    BY ClientServed
  <1>2. Grows /\ history' \in Versions
    BY SameVersions DEF Inv
  <1>3. Idle \in ReqType' /\ Holds(c)'
    BY <1>1, <1>2, IdleFits, IdleHolds, GoesThere
  <1> QED BY <1>1, <1>2, <1>3, ClientSteps

LEMMA BeginStep ==
    ASSUME Inv, NEW c \in Clients, Begin(c)
    PROVE  Inv'
  <1>1. PICK b \in Bodies :
            Goes(c, [at |-> First(b), body |-> b, call |-> NoCall, todo |-> Owed(b),
                     copy |-> IF b.kind = "edit" THEN Merge(b.change, row) ELSE <<>>,
                     want |-> Asked(b)])
    BY DEF Begin
  <1> DEFINE copy == IF b.kind = "edit" THEN Merge(b.change, row) ELSE <<>>
             r == [at |-> First(b), body |-> b, call |-> NoCall, todo |-> Owed(b),
                   copy |-> copy, want |-> Asked(b)]
  <1>2. serving /\ UNCHANGED <<tables, serving, failures>>
        /\ requests < MaxRequests /\ requests' = requests + 1
        /\ mixed' \in {{}, mixed \cup Busy \cup {c}}
    BY DEF Begin
  <1>3. /\ b.kind \in {"settings", "import"} => First(b) = "keys"
        /\ b.kind \in {"save", "rollback"} => First(b) = "seed"
        /\ b.kind = "edit" => First(b) = "write"
    BY DEF First
  <1>4. /\ b.kind = "settings" => Owed(b) = DOMAIN b.change
        /\ b.kind = "import" => Owed(b) = Keys \cup Prompts
        /\ b.kind \in {"save", "rollback", "edit"} => Owed(b) = {}
    BY DEF Owed
  <1>5. Grows /\ history' \in Versions /\ Len(history') \in Nat
    BY <1>2, SameVersions, GrowsTypes DEF Inv
  <1>6. NoCall \in CallType'
    BY <1>5 DEF NoCall, CallType, Unset
  <1>7. Asked(b) \in Wants
    BY <1>2, AskedTyped DEF Inv
  <1>8. b.kind = "edit" => copy \in [Fields -> Values]
    <2> SUFFICES ASSUME b.kind = "edit" PROVE Merge(b.change, row) \in [Fields -> Values]
      OBVIOUS
    <2>1. \A k \in DOMAIN b.change : b.change[k] \in Values
      BY BodyFacts, ChangeFacts
    <2>2. row \in [Fields -> Values]
      BY DEF Inv, TypeOK
    <2> QED BY <2>1, <2>2, MergeTyped
  <1>9. copy \in Copies
    BY <1>8 DEF Copies
  <1>10. First(b) \in Ats
    BY <1>3, BodyFacts DEF Ats, Kinds
  <1>11. Owed(b) \in SUBSET (Keys \cup Prompts)
    BY <1>4, BodyFacts, ChangeFacts DEF Kinds
  <1>12. r \in ReqType'
    <2> HIDE DEF copy
    <2> QED BY <1>6, <1>7, <1>9, <1>10, <1>11 DEF ReqType
  <1>13. c \in Workers /\ req'[c] = r
    BY <1>1, GoesThere DEF Workers
  <1>14. Holds(c)'
    <2>1. /\ req'[c].at = First(b) /\ req'[c].body = b /\ req'[c].todo = Owed(b)
          /\ req'[c].copy = copy
      BY <1>13
    <2> HIDE DEF copy, r
    <2> QED BY <2>1, <1>3, <1>4, <1>8, BodyFacts DEF Holds, Kinds
  <1>15. Rest'
    <2>1. requests' \in 0 .. MaxRequests
      BY <1>2, ConfigAssumption DEF Inv, TypeOK
    <2> QED BY <1>2, <2>1 DEF Inv, TypeOK, Rest, Busy
  <1> QED BY <1>1, <1>2, <1>5, <1>12, <1>14, <1>15, ClientSteps

\* A request stays where it is or goes on, with the tables that hold versions
\* as they are.
LEMMA ClientGoes ==
    ASSUME Inv, NEW c \in Clients, At(c) # "idle", NEW r \in ReqType, Goes(c, r),
           UNCHANGED <<history, pointer, serving>>, Rest', Holds(c)'
    PROVE  Inv'
  <1>1. serving /\ c \in Workers
    BY ClientServed
  <1>2. Grows /\ history' \in Versions
    BY SameVersions DEF Inv
  <1>3. r \in ReqType'
    BY <1>2, GrowsTypes DEF Inv
  <1> QED BY <1>1, <1>2, <1>3, ClientSteps

LEMMA PutKeyStep ==
    ASSUME Inv, NEW c \in Clients, PutKey(c)
    PROVE  Inv'
  <1> DEFINE b == req[c].body
  <1>1. PICK k \in req[c].todo \cap Keys :
            /\ setting' = [setting EXCEPT ![k] = IF b.kind = "import" THEN b.file.setting[k]
                                                                      ELSE b.change[k]]
            /\ Goes(c, [req[c] EXCEPT !.todo = @ \ {k}])
    BY DEF PutKey
  <1> DEFINE r == [req[c] EXCEPT !.todo = @ \ {k}]
  <1>2. /\ At(c) = "keys" /\ req[c].at = "keys"
        /\ UNCHANGED <<history, pointer, row, serving, bounds, mixed>>
    BY DEF PutKey, At
  <1>3. /\ c \in Workers /\ req[c] \in ReqType /\ b \in Bodies /\ Holds(c)
    BY <1>2, ClientServed
  <1>4. r \in ReqType /\ r.at = "keys" /\ r.body = b /\ r.todo = req[c].todo \ {k}
    BY <1>2, <1>3 DEF ReqType
  <1>5. Holds(c)'
    <2>1. req'[c] = r
      BY <1>1, <1>3, GoesThere
    <2> QED BY <1>2, <1>3, <1>4, <2>1 DEF Holds
  <1>6. Rest'
    <2>1. b.kind = "import" => b.file.setting[k] \in Values
      BY <1>3, BodyFacts, FileFacts
    <2>2. b.kind # "import" => b.change[k] \in Values
      BY <1>2, <1>3, BodyFacts, ChangeFacts DEF Holds
    <2>3. setting' \in [Keys -> Values]
      BY <1>1, <2>1, <2>2 DEF Inv, TypeOK
    <2> QED BY <1>2, <2>3 DEF Inv, TypeOK, Rest
  <1> QED BY <1>1, <1>2, <1>4, <1>5, <1>6, ClientGoes

LEMMA KeysDoneStep ==
    ASSUME Inv, NEW c \in Clients, KeysDone(c)
    PROVE  Inv'
  <1>1. /\ At(c) = "keys" /\ req[c].at = "keys" /\ req[c].todo \cap Keys = {}
        /\ UNCHANGED <<tables, serving, bounds, mixed>>
    BY DEF KeysDone, At
  <1>2. /\ c \in Workers /\ req[c] \in ReqType /\ req[c].body \in Bodies /\ Holds(c) /\ Rest'
    BY <1>1, ClientServed, RestStays
  <1>3. CASE req[c].body.kind = "import"
    <2> DEFINE r == [req[c] EXCEPT !.at = "seed"]
    <2>1. Goes(c, r)
      BY <1>3 DEF KeysDone
    <2>2. r \in ReqType /\ r.at = "seed" /\ r.body = req[c].body /\ r.todo = req[c].todo
      BY <1>2 DEF ReqType, Ats
    <2>3. req[c].todo \subseteq Prompts
      BY <1>1, <1>2 DEF ReqType
    <2>4. Holds(c)'
      <3>1. req'[c] = r
        BY <1>2, <2>1, GoesThere
      <3> QED BY <1>2, <1>3, <2>2, <2>3, <3>1 DEF Holds
    <2> QED BY <1>1, <1>2, <2>1, <2>2, <2>4, ClientGoes
  <1>4. CASE req[c].body.kind # "import"
    <2>1. Goes(c, Idle)
      BY <1>4 DEF KeysDone
    <2> QED BY <1>1, <1>2, <2>1, ClientEnds
  <1> QED BY <1>3, <1>4

LEMMA EnsuredStep ==
    ASSUME Inv, NEW c \in Clients, Ensured(c)
    PROVE  Inv'
  <1> DEFINE b == req[c].body
  <1>1. /\ At(c) = "seed" /\ req[c].at = "seed" /\ UNCHANGED <<tables, serving, bounds, mixed>>
    BY DEF Ensured, Seeded, At
  <1>2. /\ c \in Workers /\ req[c] \in ReqType /\ b \in Bodies /\ Holds(c) /\ Rest'
    BY <1>1, ClientServed, RestStays
  <1>3. b.kind \in {"save", "rollback", "import"} /\ req[c].todo \subseteq Prompts
    BY <1>1, <1>2 DEF Holds
  <1>4. CASE b.kind = "save"
    <2> DEFINE r == [req[c] EXCEPT !.at = "insert",
                         !.call = [name |-> b.name, text |-> b.text, id |-> Unset, after |-> "idle"]]
    <2>1. Calls(c, b.name, b.text, "idle")
      BY <1>4 DEF Ensured
    <2>2. Goes(c, r)
      BY <2>1 DEF Calls
    <2>3. b.name \in Prompts /\ b.text \in Texts
      BY <1>2, <1>4, BodyFacts
    <2>4. [name |-> b.name, text |-> b.text, id |-> Unset, after |-> "idle"] \in CallType
      BY <2>3, VersionFacts DEF CallType, Unset, Inv
    <2>5. r \in ReqType
      BY <1>2, <2>4 DEF ReqType, Ats
    <2>6. Holds(c)'
      <3>1. /\ req'[c].at = "insert" /\ req'[c].body = b /\ req'[c].todo = req[c].todo
            /\ req'[c].call.name = b.name /\ req'[c].call.text = b.text
            /\ req'[c].call.after = "idle"
        <4>1. req'[c] = r
          BY <1>2, <2>2, GoesThere
        <4> QED BY <1>2, <4>1 DEF ReqType
      <3> QED BY <1>2, <1>3, <1>4, <2>3, <3>1 DEF Holds
    <2> QED BY <1>1, <1>2, <2>2, <2>5, <2>6, ClientGoes
  <1>5. CASE b.kind = "rollback"
    <2> DEFINE r == [req[c] EXCEPT !.at = "check"]
    <2>1. Goes(c, r)
      BY <1>5 DEF Ensured
    <2>2. r \in ReqType /\ r.at = "check" /\ r.body = b /\ r.todo = req[c].todo
      BY <1>2 DEF ReqType, Ats
    <2>3. Holds(c)'
      <3>1. req'[c] = r
        BY <1>2, <2>1, GoesThere
      <3> QED BY <1>2, <1>3, <1>5, <2>2, <3>1 DEF Holds
    <2> QED BY <1>1, <1>2, <2>1, <2>2, <2>3, ClientGoes
  <1>6. CASE b.kind = "import"
    <2> DEFINE r == [req[c] EXCEPT !.at = "prompts"]
    <2>1. Goes(c, r)
      BY <1>6 DEF Ensured
    <2>2. r \in ReqType /\ r.at = "prompts" /\ r.body = b /\ r.todo = req[c].todo
      BY <1>2 DEF ReqType, Ats
    <2>3. Holds(c)'
      <3>1. req'[c] = r
        BY <1>2, <2>1, GoesThere
      <3> QED BY <1>2, <1>3, <1>6, <2>2, <3>1 DEF Holds
    <2> QED BY <1>1, <1>2, <2>1, <2>2, <2>3, ClientGoes
  <1> QED BY <1>3, <1>4, <1>5, <1>6

LEMMA RollbackStep ==
    ASSUME Inv, NEW c \in Clients, Rollback(c)
    PROVE  Inv'
  <1> DEFINE b == req[c].body
  <1>1. /\ At(c) = "check" /\ req[c].at = "check" /\ UNCHANGED <<tables, serving, bounds, mixed>>
    BY DEF Rollback, RollbackOf, At
  <1>2. /\ c \in Workers /\ req[c] \in ReqType /\ b \in Bodies /\ Holds(c) /\ Rest'
    BY <1>1, ClientServed, RestStays
  <1>3. b.kind = "rollback"
    BY <1>1, <1>2 DEF Holds
  <1>4. CASE ~IsVersion(b)
    <2>1. Goes(c, Idle)
      BY <1>4 DEF Rollback, RollbackOf
    <2> QED BY <1>1, <1>2, <2>1, ClientEnds
  <1>5. CASE IsVersion(b)
    <2> DEFINE call == [NoCall EXCEPT !.name = b.name, !.id = b.id]
               r    == [req[c] EXCEPT !.at = "point", !.call = call]
    <2>1. Goes(c, r)
      BY <1>5 DEF Rollback, RollbackOf
    <2>2. NoCall \in CallType /\ NoCall.after = "idle"
      BY VersionFacts DEF NoCall, CallType, Unset, Inv
    <2>3. b.name \in Prompts /\ b.id \in 0 .. Len(history) /\ Valid(b.id, b.name)
      BY <1>2, <1>3, <1>5, BodyFacts, VersionFacts DEF IsVersion, Inv, Valid
    <2>4. call \in CallType
      BY <2>2, <2>3 DEF CallType
    <2>5. call.name = b.name /\ call.id = b.id /\ call.after = "idle"
      BY <2>2 DEF CallType
    <2>6. r \in ReqType /\ r.at = "point" /\ r.body = b /\ r.call = call /\ r.todo = req[c].todo
      <3> HIDE DEF call
      <3> QED BY <1>2, <2>4 DEF ReqType, Ats
    <2>7. req'[c] = r
      BY <1>2, <2>1, GoesThere
    <2>8. Holds(c)'
      <3> HIDE DEF call, r
      <3>1. b.id \in 1 .. Len(history') /\ history'[b.id].name = b.name
        BY <1>1, <2>3 DEF Valid
      <3> QED BY <1>1, <1>2, <1>3, <2>6, <2>7, <2>3, <2>5, <3>1 DEF Holds, Valid
    <2> QED BY <1>1, <1>2, <2>1, <2>6, <2>8, ClientGoes
  <1> QED BY <1>4, <1>5

LEMMA ImportPromptStep ==
    ASSUME Inv, NEW c \in Clients, ImportPrompt(c)
    PROVE  Inv'
  <1> DEFINE b == req[c].body
  <1>1. /\ At(c) = "prompts" /\ req[c].at = "prompts"
        /\ UNCHANGED <<tables, serving, bounds, mixed>>
    BY DEF ImportPrompt, At
  <1>2. /\ c \in Workers /\ req[c] \in ReqType /\ b \in Bodies /\ Holds(c) /\ Rest'
    BY <1>1, ClientServed, RestStays
  <1>3. b.kind = "import" /\ req[c].todo \subseteq Prompts
    BY <1>1, <1>2 DEF Holds
  <1>4. PICK n \in req[c].todo :
            Goes(c, IF b.file.prompt[n] = Current(n)
                    THEN [req[c] EXCEPT !.todo = @ \ {n}]
                    ELSE [req[c] EXCEPT !.todo = @ \ {n}, !.at = "insert",
                                        !.call = [name |-> n, text |-> b.file.prompt[n],
                                                  id |-> Unset, after |-> "prompts"]])
    BY DEF ImportPrompt
  <1> DEFINE t == b.file.prompt[n]
             r == [req[c] EXCEPT !.todo = @ \ {n}]
             call == [name |-> n, text |-> t, id |-> Unset, after |-> "prompts"]
             q == [req[c] EXCEPT !.todo = @ \ {n}, !.at = "insert", !.call = call]
  <1>5. r \in ReqType /\ r.at = "prompts" /\ r.body = b /\ r.todo = req[c].todo \ {n}
    BY <1>1, <1>2 DEF ReqType
  <1>6. CASE t = Current(n)
    <2>1. Goes(c, r)
      BY <1>4, <1>6
    <2>2. Holds(c)'
      <3>1. req'[c] = r
        BY <1>2, <2>1, GoesThere
      <3> QED BY <1>2, <1>3, <1>5, <3>1 DEF Holds
    <2> QED BY <1>1, <1>2, <1>5, <2>1, <2>2, ClientGoes
  <1>7. CASE t # Current(n)
    <2>1. Goes(c, q)
      BY <1>4, <1>7
    <2>2. n \in Prompts /\ t \in Texts
      BY <1>2, <1>3, BodyFacts, FileFacts
    <2>3. call \in CallType
      BY <2>2, VersionFacts DEF CallType, Unset, Inv
    <2>4. q \in ReqType /\ q.at = "insert" /\ q.body = b /\ q.todo = r.todo /\ q.call = call
      <3> HIDE DEF call
      <3> QED BY <1>2, <2>3 DEF ReqType, Ats
    <2>5. Holds(c)'
      <3>1. req'[c] = q
        BY <1>2, <2>1, GoesThere
      <3>2. call.name = n /\ call.text = t /\ call.after = "prompts"
        OBVIOUS
      <3> HIDE DEF call, r, q
      <3> QED BY <1>2, <1>3, <1>5, <2>2, <2>4, <3>1, <3>2 DEF Holds
    <2> QED BY <1>1, <1>2, <2>1, <2>4, <2>5, ClientGoes
  <1> QED BY <1>6, <1>7

LEMMA PromptsDoneStep ==
    ASSUME Inv, NEW c \in Clients, PromptsDone(c)
    PROVE  Inv'
  <1> DEFINE b == req[c].body
             r == [req[c] EXCEPT !.at = "write", !.copy = Imported(b.file.row)]
  <1>1. /\ At(c) = "prompts" /\ req[c].at = "prompts" /\ req[c].todo = {} /\ Goes(c, r)
        /\ UNCHANGED <<tables, serving, bounds, mixed>>
    BY DEF PromptsDone, At
  <1>2. /\ c \in Workers /\ req[c] \in ReqType /\ b \in Bodies /\ Holds(c) /\ Rest'
    BY <1>1, ClientServed, RestStays
  <1>3. b.kind = "import"
    BY <1>1, <1>2 DEF Holds
  <1>4. Imported(b.file.row) \in [Exported -> Values]
    BY <1>2, <1>3, BodyFacts, FileFacts
  <1>5. /\ r \in ReqType /\ r.at = "write" /\ r.body = b /\ r.todo = {}
        /\ r.copy = Imported(b.file.row)
    BY <1>1, <1>2, <1>4 DEF ReqType, Ats, Copies
  <1>6. Holds(c)'
    <2>1. req'[c] = r
      BY <1>1, <1>2, GoesThere
    <2> HIDE DEF r
    <2> QED BY <1>2, <1>3, <1>4, <1>5, <2>1 DEF Holds
  <1> QED BY <1>1, <1>2, <1>5, <1>6, ClientGoes

LEMMA WriteRowStep ==
    ASSUME Inv, NEW c \in Clients, WriteRow(c)
    PROVE  Inv'
  <1>1. /\ At(c) = "write" /\ req[c].at = "write" /\ Goes(c, Idle) /\ row' = Merge(req[c].copy, row)
        /\ UNCHANGED <<history, pointer, setting, serving, bounds, mixed>>
    BY DEF WriteRow, At
  <1>2. Holds(c)
    BY <1>1, ClientServed
  <1>3. \A k \in DOMAIN req[c].copy : req[c].copy[k] \in Values
    <2>1. \E D : req[c].copy \in [D -> Values]
      BY <1>1, <1>2 DEF Holds
    <2> QED BY <2>1
  <1>4. row' \in [Fields -> Values]
    <2>1. row \in [Fields -> Values]
      BY DEF Inv, TypeOK
    <2> QED BY <1>1, <1>3, <2>1, MergeTyped
  <1>5. Rest'
    BY <1>1, <1>4 DEF Inv, TypeOK, Rest
  <1> QED BY <1>1, <1>5, ClientEnds

LEMMA RefusedStep ==
    ASSUME Inv, NEW c \in Clients, Refused(c)
    PROVE  Inv'
  <1>1. /\ At(c) # "idle" /\ Goes(c, Idle) /\ UNCHANGED <<tables, serving, requests>>
        /\ failures < MaxFailures /\ failures' = failures + 1 /\ mixed' = mixed \cup {c}
    BY DEF Refused
  <1>2. Rest'
    <2>1. failures' \in 0 .. MaxFailures
      BY <1>1, ConfigAssumption DEF Inv, TypeOK
    <2> QED BY <1>1, <2>1 DEF Inv, TypeOK, Rest
  <1> QED BY <1>1, <1>2, ClientEnds

\* A worker that has a version to insert or to point to is the lifespan, which
\* is at it only while nothing is served, or a client, only while something is.
LEMMA WorkerFacts ==
    ASSUME Inv, NEW w \in Workers, At(w) # "idle"
    PROVE  /\ req[w] \in ReqType /\ Holds(w) /\ (w = Startup \/ w \in Clients)
           /\ serving <=> w \in Clients
           /\ w = Startup => \A c \in Clients : At(c) = "idle"
  <1>1. w = Startup \/ w \in Clients
    BY DEF Workers
  <1>2. req[w] \in ReqType /\ Holds(w)
    BY DEF Inv, TypeOK
  <1>3. w \in Clients => serving /\ w # Startup
    BY ClientServed
  <1>4. w = Startup => ~serving
    BY DEF Inv, Seeding
  <1>5. ~serving => \A c \in Clients : At(c) = "idle"
    BY DEF Inv, Seeding
  <1>6. w = Startup => w \notin Clients
    BY ConfigAssumption
  <1> QED BY <1>1, <1>2, <1>3, <1>4, <1>5, <1>6

LEMMA InsertStep ==
    ASSUME Inv, NEW w \in Workers, Insert(w)
    PROVE  Inv'
  <1> DEFINE v == [name |-> req[w].call.name, value |-> req[w].call.text]
             r == [req[w] EXCEPT !.at = "point", !.call.id = Len(history')]
  <1>1. /\ At(w) = "insert" /\ req[w].at = "insert" /\ history' = Append(history, v) /\ Goes(w, r)
        /\ UNCHANGED <<pointer, setting, row, serving, bounds, mixed>>
    BY DEF Insert, At
  <1>2. /\ req[w] \in ReqType /\ Holds(w) /\ Rest' /\ (w = Startup \/ w \in Clients)
        /\ serving <=> w \in Clients
    BY <1>1, WorkerFacts, RestStays
  <1>3. req[w].call.name \in Prompts /\ req[w].call.text \in Texts /\ req[w].call \in CallType
    BY <1>1, <1>2 DEF Holds, ReqType
  <1>4. v \in [name : Prompts, value : Texts]
    BY <1>3
  <1>5. /\ Grows /\ history' \in Versions /\ history'[Len(history')] = v
        /\ Len(history') = Len(history) + 1 /\ Len(history) \in Nat
    <2> HIDE DEF v
    <2> QED BY <1>1, <1>4, Appended, VersionFacts DEF Inv
  <1>6. /\ r \in ReqType' /\ r.at = "point" /\ r.body = req[w].body /\ r.todo = req[w].todo
        /\ r.call.name = req[w].call.name /\ r.call.after = req[w].call.after
        /\ r.call.id = Len(history')
    <2> DEFINE call == [req[w].call EXCEPT !.id = Len(history')]
    <2>1. call \in CallType'
      BY <1>3, <1>5 DEF CallType
    <2>2. /\ call.name = req[w].call.name /\ call.after = req[w].call.after
          /\ call.id = Len(history')
      BY <1>3 DEF CallType
    <2>3. req[w] \in ReqType'
      BY <1>2, <1>5, GrowsTypes DEF Inv
    <2>4. r = [req[w] EXCEPT !.at = "point", !.call = call]
      BY <1>2 DEF ReqType
    <2> HIDE DEF call
    <2> QED BY <1>2, <2>1, <2>2, <2>3, <2>4 DEF ReqType, Ats
  <1>7. req'[w] = r
    BY <1>1, GoesThere
  <1>8. Holds(w)'
    <2>1. Len(history') \in 1 .. Len(history') /\ history'[Len(history')].name = req[w].call.name
      BY <1>5
    <2> HIDE DEF r, v
    <2> QED BY <1>1, <1>2, <1>3, <1>6, <1>7, <2>1 DEF Holds, Valid
  <1>9. CASE w \in Clients
    <2> HIDE DEF r, v
    <2> QED BY <1>1, <1>2, <1>5, <1>6, <1>8, <1>9, ClientSteps
  <1>10. CASE w = Startup
    <2> HIDE DEF r, v
    <2>1. /\ req' \in [Workers -> ReqType'] /\ \A u \in Workers : u # w => req'[u] = req[u]
          /\ \A u \in Workers : Holds(u)'
      BY <1>1, <1>5, <1>6, <1>8, WorkerSteps
    <2>2. Pointed' /\ pointer' \in [Prompts -> 0 .. Len(history')]
      BY <1>1, <1>5, PointedStays
    <2>3. Seeding'
      <3>1. \A c \in Clients : c # Startup /\ c \in Workers
        BY ConfigAssumption DEF Workers
      <3>2. ~serving' /\ \A c \in Clients : At(c)' = "idle"
        BY <1>1, <1>2, <1>10, <2>1, <3>1 DEF Inv, Seeding, At
      <3> QED BY <1>1, <1>6, <1>7, <1>10, <3>2 DEF Inv, Seeding, At
    <2>4. TypeOK'
      BY <1>1, <1>2, <1>5, <2>1, <2>2 DEF TypeOK, Rest, Versions, Inv
    <2> QED BY <2>1, <2>2, <2>3, <2>4 DEF Inv
  <1> QED BY <1>2, <1>9, <1>10

LEMMA PointStep ==
    ASSUME Inv, NEW w \in Workers, Point(w)
    PROVE  Inv'
  <1> DEFINE r == IF req[w].call.after = "idle" THEN Idle
                  ELSE [req[w] EXCEPT !.at = req[w].call.after, !.call = NoCall]
             n == req[w].call.name
  <1>1. /\ At(w) = "point" /\ req[w].at = "point" /\ Goes(w, r)
        /\ pointer' = [pointer EXCEPT ![n] = req[w].call.id]
        /\ UNCHANGED <<history, setting, row, serving, bounds, mixed>>
    BY DEF Point, At
  <1>2. /\ req[w] \in ReqType /\ Holds(w) /\ Rest' /\ (w = Startup \/ w \in Clients)
        /\ serving <=> w \in Clients
    BY <1>1, WorkerFacts, RestStays
  <1>3. /\ n \in Prompts /\ Valid(req[w].call.id, n) /\ req[w].call \in CallType
        /\ req[w].todo \subseteq Prompts
    BY <1>1, <1>2 DEF Holds, ReqType
  <1>4. /\ Grows /\ history' \in Versions /\ Len(history) \in Nat
    BY <1>1, SameVersions, VersionFacts DEF Inv
  <1>5. /\ pointer' \in [Prompts -> 0 .. Len(history')] /\ pointer'[n] = req[w].call.id
        /\ \A m \in Prompts : m # n => pointer'[m] = pointer[m]
    BY <1>1, <1>3, <1>4 DEF Inv, TypeOK, Valid
  <1>6. Pointed'
    <2>1. \A m \in Prompts : pointer'[m] # Unset =>
              pointer'[m] \in 1 .. Len(history') /\ history'[pointer'[m]].name = m
      BY <1>1, <1>3, <1>5 DEF Inv, Pointed, Valid
    <2>2. serving' => \A m \in Prompts : pointer'[m] # Unset
      BY <1>1, <1>3, <1>4, <1>5 DEF Inv, Pointed, Valid, Unset
    <2> QED BY <2>1, <2>2 DEF Pointed, Valid
  <1>7. r \in ReqType
    <2>1. Idle \in ReqType'
      BY <1>4, IdleFits
    <2>2. ReqType' = ReqType
      BY <1>1 DEF ReqType, CallType
    <2>3. NoCall \in CallType
      BY <1>4 DEF NoCall, CallType, Unset
    <2>4. req[w].call.after \in {"idle", "seed", "prompts"}
      BY <1>3 DEF CallType
    <2>5. [req[w] EXCEPT !.at = req[w].call.after, !.call = NoCall] \in ReqType
      BY <1>2, <2>3, <2>4 DEF ReqType, Ats
    <2> QED BY <2>1, <2>2, <2>5
  <1>8. req'[w] = r
    BY <1>1, GoesThere
  <1>9. /\ req[w].call.after = "idle" => r.at = "idle"
        /\ req[w].call.after # "idle" =>
               r.at = req[w].call.after /\ r.body = req[w].body /\ r.todo = req[w].todo
    BY <1>2 DEF ReqType, Idle
  <1> HIDE DEF r
  <1>10. /\ w = Startup => req[w].call.after = "seed"
         /\ w \in Clients => \/ req[w].call.after = "idle"
                             \/ req[w].call.after = "prompts" /\ req[w].body.kind = "import"
    <2>1. w = Startup => req[w].call.after = "seed"
      BY <1>1 DEF Inv, Seeding
    <2>2. w \in Clients => \/ req[w].call.after = "idle"
                           \/ req[w].call.after = "prompts" /\ req[w].body.kind = "import"
      <3>1. /\ w \in Clients /\ req[w].body.kind = "import" => req[w].call.after = "prompts"
            /\ w \in Clients /\ req[w].body.kind # "import" => req[w].call.after = "idle"
        BY <1>1, <1>2 DEF Holds
      <3> QED BY <3>1
    <2> QED BY <2>1, <2>2
  <1>11. Holds(w)'
    <2>1. w \in Clients => req[w].body \in Bodies
      BY <1>1, <1>2 DEF Holds
    <2>2. w \in Clients => w # Startup
      BY ConfigAssumption
    <2> QED BY <1>2, <1>3, <1>8, <1>9, <1>10, <2>1, <2>2 DEF Holds
  <1>12. /\ req' \in [Workers -> ReqType'] /\ \A u \in Workers : u # w => req'[u] = req[u]
         /\ \A u \in Workers : Holds(u)'
    <2>1. r \in ReqType'
      BY <1>4, <1>7, GrowsTypes DEF Inv
    <2> QED BY <1>1, <1>4, <1>11, <2>1, WorkerSteps
  <1>13. Seeding'
    <2>1. \A c \in Clients : c # Startup /\ c \in Workers
      BY ConfigAssumption DEF Workers
    <2>2. CASE w = Startup
      <3>1. ~serving' /\ \A c \in Clients : At(c)' = "idle"
        BY <1>1, <1>2, <1>12, <2>1, <2>2 DEF Inv, Seeding, At
      <3>2. At(Startup)' = "seed"
        BY <1>8, <1>9, <1>10, <2>2 DEF At
      <3> QED BY <3>1, <3>2 DEF Seeding
    <2>3. CASE w \in Clients
      <3>1. serving' /\ req'[Startup] = req[Startup] /\ At(Startup) = "idle"
        BY <1>1, <1>2, <1>12, <2>1, <2>3 DEF Inv, Seeding, Workers
      <3> QED BY <3>1 DEF Seeding, At
    <2> QED BY <1>2, <2>2, <2>3
  <1>14. TypeOK'
    BY <1>1, <1>2, <1>4, <1>5, <1>12 DEF TypeOK, Rest, Versions, Inv
  <1> QED BY <1>6, <1>12, <1>13, <1>14 DEF Inv

LEMMA SeedStep ==
    ASSUME Inv, NEW w \in Workers, Seed(w)
    PROVE  Inv'
  <1>1. /\ At(w) = "seed" /\ req[w].at = "seed" /\ UNCHANGED <<tables, serving, bounds, mixed>>
    BY DEF Seed, At
  <1>2. PICK n \in Prompts : pointer[n] = Unset /\ Calls(w, n, FileText, "seed")
    BY DEF Seed
  <1> DEFINE call == [name |-> n, text |-> FileText, id |-> Unset, after |-> "seed"]
             r == [req[w] EXCEPT !.at = "insert", !.call = call]
  <1>3. Goes(w, r)
    BY <1>2 DEF Calls
  <1>4. /\ req[w] \in ReqType /\ Holds(w) /\ Rest' /\ (w = Startup \/ w \in Clients)
        /\ serving <=> w \in Clients
    BY <1>1, WorkerFacts, RestStays
  <1>5. w = Startup /\ ~serving /\ w \notin Clients
    <2>1. w \notin Clients
      BY <1>1, <1>2, ClientServed
    <2> QED BY <1>4, <2>1
  <1>6. Grows /\ history' \in Versions /\ Len(history) \in Nat
    BY <1>1, SameVersions, VersionFacts DEF Inv
  <1>7. call \in CallType
    BY <1>2, <1>6, ConfigAssumption DEF CallType, Unset
  <1>8. r \in ReqType /\ r.at = "insert" /\ r.body = req[w].body /\ r.todo = req[w].todo /\ r.call = call
    <2> HIDE DEF call
    <2> QED BY <1>4, <1>7 DEF ReqType, Ats
  <1>9. req'[w] = r
    BY <1>3, GoesThere
  <1>10. Holds(w)'
    <2>1. call.name = n /\ call.text = FileText /\ FileText \in Texts
      BY ConfigAssumption
    <2> HIDE DEF call, r
    <2> QED BY <1>1, <1>2, <1>4, <1>5, <1>8, <1>9, <2>1 DEF Holds
  <1>11. /\ req' \in [Workers -> ReqType'] /\ \A u \in Workers : u # w => req'[u] = req[u]
         /\ \A u \in Workers : Holds(u)'
    <2>1. r \in ReqType'
      BY <1>6, <1>8, GrowsTypes DEF Inv
    <2> HIDE DEF r
    <2> QED BY <1>3, <1>6, <1>10, <2>1, WorkerSteps
  <1>12. Pointed' /\ pointer' \in [Prompts -> 0 .. Len(history')]
    BY <1>1, <1>6, PointedStays
  <1>13. Seeding'
    <2>1. ~serving' /\ \A c \in Clients : At(c)' = "idle"
      BY <1>1, <1>5, <1>11 DEF Inv, Seeding, At, Workers
    <2>2. call.name = n /\ call.after = "seed"
      OBVIOUS
    <2> HIDE DEF call, r
    <2> QED BY <1>1, <1>2, <1>5, <1>8, <1>9, <2>1, <2>2 DEF Seeding, At
  <1>14. TypeOK'
    BY <1>1, <1>4, <1>6, <1>11, <1>12 DEF TypeOK, Rest, Versions, Inv
  <1> QED BY <1>11, <1>12, <1>13, <1>14 DEF Inv

\* The steps of the process: a start, the end of the lifespan's first half, and
\* a death.
LEMMA ProcessStep ==
    ASSUME Inv, LifespanYields \/ Start \/ Crash
    PROVE  Inv'
  <1>0. /\ UNCHANGED tables /\ Grows /\ history' \in Versions /\ Len(history) \in Nat
    BY SameVersions, VersionFacts DEF LifespanYields, Start, Crash, Inv
  <1>1. /\ req \in [Workers -> ReqType] /\ ReqType' = ReqType /\ Idle \in ReqType'
        /\ Startup \in Workers /\ \A c \in Clients : c \in Workers /\ c # Startup
    BY <1>0, IdleFits, ConfigAssumption DEF Inv, TypeOK, ReqType, CallType, Workers
  <1>2. /\ \A n \in Prompts : pointer'[n] # Unset =>
               pointer'[n] \in 1 .. Len(history') /\ history'[pointer'[n]].name = n
        /\ pointer' \in [Prompts -> 0 .. Len(history')]
    BY <1>0 DEF Inv, TypeOK, Pointed, Valid
  <1>3. CASE LifespanYields
    <2>1. /\ Goes(Startup, Idle) /\ serving' /\ serving' \in BOOLEAN
          /\ UNCHANGED <<tables, bounds, mixed>> /\ At(Startup) = "seed"
          /\ \A n \in Prompts : pointer[n] # Unset
      BY <1>3 DEF LifespanYields, Seeded
    <2>2. req'[Startup] = Idle
      BY <1>1, <2>1, GoesThere
    <2>3. /\ req' \in [Workers -> ReqType'] /\ \A u \in Workers : Holds(u)'
      BY <1>0, <1>1, <2>1, <2>2, IdleHolds, WorkerSteps
    <2>4. Seeding'
      BY <2>1, <2>2 DEF Seeding, At, Idle
    <2>5. Pointed'
      BY <1>0, <1>2, <2>1 DEF Pointed, Valid
    <2>6. TypeOK'
      BY <1>0, <1>2, <2>1, <2>3 DEF TypeOK, Versions, Inv
    <2> QED BY <2>3, <2>4, <2>5, <2>6 DEF Inv
  <1>4. CASE Start
    <2> DEFINE r == [Idle EXCEPT !.at = "seed"]
    <2>1. /\ Goes(Startup, r) /\ ~serving /\ At(Startup) = "idle"
          /\ UNCHANGED <<tables, serving, bounds, mixed>>
      BY <1>4 DEF Start
    <2>2. r.at = "seed" /\ r.todo = {} /\ r \in ReqType'
      <3>1. Idle.todo = {}
        BY DEF Idle
      <3> QED BY <1>1, <3>1 DEF ReqType, Ats
    <2>3. req'[Startup] = r
      BY <1>1, <2>1, GoesThere
    <2> HIDE DEF r
    <2>4. Holds(Startup)'
      BY <1>1, <2>2, <2>3 DEF Holds
    <2>5. /\ req' \in [Workers -> ReqType'] /\ \A u \in Workers : Holds(u)'
          /\ \A u \in Workers : u # Startup => req'[u] = req[u]
      BY <1>0, <1>1, <2>1, <2>2, <2>4, WorkerSteps
    <2>6. Seeding'
      BY <1>1, <2>1, <2>2, <2>3, <2>5 DEF Inv, Seeding, At
    <2>7. Pointed'
      BY <1>0, <1>2, <2>1 DEF Pointed, Valid
    <2>8. TypeOK'
      BY <1>0, <1>2, <2>1, <2>5 DEF TypeOK, Versions, Inv
    <2> QED BY <2>5, <2>6, <2>7, <2>8 DEF Inv
  <1>5. CASE Crash
    <2>1. /\ failures < MaxFailures /\ failures' = failures + 1 /\ ~serving' /\ serving' \in BOOLEAN
          /\ req' = [w \in Workers |-> Idle] /\ UNCHANGED <<tables, requests, mixed>>
      BY <1>5 DEF Crash
    <2>2. failures' \in 0 .. MaxFailures
      BY <2>1, ConfigAssumption DEF Inv, TypeOK
    <2>3. req' \in [Workers -> ReqType'] /\ \A u \in Workers : Holds(u)'
      BY <1>1, <2>1, IdleHolds
    <2>4. Seeding'
      BY <1>1, <2>1 DEF Seeding, At, Idle
    <2>5. Pointed'
      BY <1>0, <1>2, <2>1 DEF Pointed, Valid
    <2>6. TypeOK'
      BY <1>0, <1>2, <2>1, <2>2, <2>3 DEF TypeOK, Versions, Inv
    <2> QED BY <2>3, <2>4, <2>5, <2>6 DEF Inv
  <1> QED BY <1>3, <1>4, <1>5

LEMMA InvStep == Inv /\ [Next]_vars => Inv'
  <1> SUFFICES ASSUME Inv, [Next]_vars PROVE Inv'
    OBVIOUS
  <1>1. CASE UNCHANGED vars
    <2>1. UNCHANGED <<history, pointer, setting, row, serving, req, requests, failures, mixed>>
      BY <1>1 DEF vars
    <2>2. TypeOK'
      BY <2>1 DEF Inv, TypeOK, ReqType, CallType
    <2>3. Pointed' /\ Seeding' /\ \A w \in Workers : Holds(w)'
      BY <2>1 DEF Inv, Pointed, Seeding, Holds, Valid, At
    <2> QED BY <2>2, <2>3 DEF Inv
  <1> QED BY <1>1, BeginStep, PutKeyStep, KeysDoneStep, EnsuredStep, RollbackStep,
             ImportPromptStep, PromptsDoneStep, WriteRowStep, RefusedStep, InsertStep,
             PointStep, SeedStep, ProcessStep DEF Next

LEMMA InitInv == Init => Inv
  <1> SUFFICES ASSUME Init PROVE Inv
    OBVIOUS
  <1>1. /\ history = <<>> /\ pointer = [n \in Prompts |-> Unset] /\ setting \in [Keys -> {Zero}]
        /\ row = [f \in Fields |-> Default] /\ req = [w \in Workers |-> Idle]
        /\ requests = 0 /\ failures = 0 /\ mixed = {}
    BY DEF Init
  <1>2. ~serving /\ serving \in BOOLEAN
    BY DEF Init
  <1>3. Len(history) = 0 /\ history \in Versions
    BY <1>1 DEF Versions
  <1>4. NoCall \in CallType
    BY <1>3 DEF NoCall, CallType, Unset
  <1>5. Idle \in ReqType
    BY <1>4 DEF Idle, ReqType, Ats, Copies
  <1>6. TypeOK
    <2>1. pointer \in [Prompts -> 0 .. Len(history)]
      BY <1>1, <1>3 DEF Unset
    <2>2. setting \in [Keys -> Values] /\ row \in [Fields -> Values]
      BY <1>1, ConfigAssumption
    <2>3. requests \in 0 .. MaxRequests /\ failures \in 0 .. MaxFailures
      BY <1>1, ConfigAssumption
    <2>4. req \in [Workers -> ReqType]
      BY <1>1, <1>5
    <2> QED BY <1>1, <1>2, <1>3, <2>1, <2>2, <2>3, <2>4 DEF TypeOK, Versions
  <1>7. \A w \in Workers : req[w] = Idle /\ At(w) = "idle"
    BY <1>1 DEF Idle, At
  <1>8. Pointed
    BY <1>1, <1>2 DEF Pointed
  <1>9. Seeding
    BY <1>2, <1>7 DEF Seeding, Workers
  <1>10. \A w \in Workers : Holds(w)
    BY <1>7 DEF Holds, Idle
  <1> QED BY <1>6, <1>8, <1>9, <1>10 DEF Inv

LEMMA SpecInv == Spec => []Inv
  BY InitInv, InvStep, PTL DEF Spec

LEMMA InvTyped == Inv => TypeOK
  BY DEF Inv

LEMMA InvStands == Inv => PointersStand
  BY DEF Inv, Pointed, PointersStand, Valid

\* Tables, requests and their locals keep their types.
THEOREM TypeCorrect == Spec => []TypeOK
  BY SpecInv, InvTyped, PTL

\* For any prompts and any clients: whatever is served has a version in force.
THEOREM PointersStandHolds == Spec => []PointersStand
  BY SpecInv, InvStands, PTL

LEMMA SeedsOnce ==
    ASSUME Inv, [Next]_vars
    PROVE  [~serving => \A n \in Prompts : pointer[n] # Unset => pointer'[n] = pointer[n]]_vars
  <1> SUFFICES ASSUME Next, ~serving, NEW n \in Prompts, pointer[n] # Unset
               PROVE  pointer'[n] = pointer[n]
    OBVIOUS
  <1>1. ASSUME NEW w \in Workers, Point(w) PROVE pointer'[n] = pointer[n]
    <2>1. At(w) = "point" /\ pointer' = [pointer EXCEPT ![req[w].call.name] = req[w].call.id]
      BY <1>1 DEF Point
    <2>2. w = Startup
      BY <2>1, WorkerFacts
    <2>3. pointer[req[w].call.name] = Unset
      BY <2>1, <2>2 DEF Inv, Seeding
    <2> QED BY <2>1, <2>3 DEF Inv, TypeOK
  <1>2. CASE \E w \in Workers : Seed(w) \/ Insert(w)
    BY <1>2 DEF Seed, Insert
  <1>3. CASE \E c \in Clients : \/ Begin(c) \/ PutKey(c) \/ KeysDone(c) \/ Ensured(c) \/ Rollback(c)
                               \/ ImportPrompt(c) \/ PromptsDone(c) \/ WriteRow(c) \/ Refused(c)
    BY <1>3 DEF Begin, PutKey, KeysDone, Ensured, Rollback, RollbackOf, ImportPrompt, PromptsDone,
                WriteRow, Refused
  <1>4. CASE LifespanYields \/ Start \/ Crash
    BY <1>4 DEF LifespanYields, Start, Crash
  <1> QED BY <1>1, <1>2, <1>3, <1>4 DEF Next

\* A restart never takes an edited prompt back to its file.
THEOREM RestartKeepsPromptsHolds == Spec => RestartKeepsPrompts
  BY SpecInv, SeedsOnce, PTL DEF Spec, RestartKeepsPrompts

(***************************************************************************)
(* A request that is alone: what is done and what it has still to do make   *)
(* up what it was asked for.                                               *)
(***************************************************************************)
Alone(c) == c \notin mixed /\ At(c) # "idle"

SettingOwed(c, k) ==
    IF At(c) # "keys" \/ k \notin req[c].todo THEN setting[k]
    ELSE IF req[c].body.kind = "import" THEN req[c].body.file.setting[k]
    ELSE req[c].body.change[k]

PromptOwed(c, n) ==
    LET r == req[c]
        b == req[c].body
    IN  IF b.kind = "import" /\ n \in r.todo THEN b.file.prompt[n]
        ELSE IF b.kind = "import" /\ r.at = "insert" /\ n = r.call.name THEN r.call.text
        ELSE IF b.kind = "import" /\ r.at = "point" /\ n = r.call.name
             THEN history[r.call.id].value
        ELSE IF b.kind = "save" /\ n = b.name THEN b.text
        ELSE IF b.kind = "rollback" /\ n = b.name /\ IsVersion(b) THEN history[b.id].value
        ELSE Current(n)

RowOwed(c) ==
    IF At(c) = "write" THEN Merge(req[c].copy, row)
    ELSE IF req[c].body.kind = "import" THEN Merge(Imported(req[c].body.file.row), row)
    ELSE row

\* The call of a save or a rollback is what its body says.
CallRight(c) ==
    LET r == req[c]
        b == req[c].body
    IN  /\ b.kind = "save" /\ r.at = "insert" => r.call.name = b.name /\ r.call.text = b.text
        /\ b.kind = "save" /\ r.at = "point" =>
               r.call.name = b.name /\ history[r.call.id].value = b.text
        /\ b.kind = "rollback" /\ r.at = "point" =>
               r.call.name = b.name /\ r.call.id = b.id /\ IsVersion(b)

Settled(c) ==
    /\ req[c].want \in Wants
    /\ \A k \in Keys : req[c].want.setting[k] = SettingOwed(c, k)
    /\ \A n \in Prompts : req[c].want.prompt[n] = PromptOwed(c, n)
    /\ Granted(req[c].want, req[c].body).row = RowOwed(c)
    /\ CallRight(c)

\* What is granted differs in the row alone.
LEMMA GrantedFacts ==
    ASSUME NEW want \in Wants, NEW b
    PROVE  LET g == Granted(want, b)
           IN  /\ g \in Wants /\ g.setting = want.setting /\ g.prompt = want.prompt
               /\ g.row = [f \in Fields |-> IF f \in Zeroed(b) THEN Default ELSE want.row[f]]
  <1>1. Default \in Values
    BY ConfigAssumption
  <1>2. /\ want.setting \in [Keys -> Values] /\ want.prompt \in [Prompts -> Texts]
        /\ want.row \in [Fields -> Values]
        /\ want = [setting |-> want.setting, prompt |-> want.prompt, row |-> want.row]
    BY DEF Wants
  <1> DEFINE given == [f \in Fields |-> IF f \in Zeroed(b) THEN Default ELSE want.row[f]]
  <1>3. given \in [Fields -> Values]
    BY <1>1, <1>2
  <1>4. Granted(want, b) = [want EXCEPT !.row = given]
    BY DEF Granted
  <1> HIDE DEF given
  <1>5. Granted(want, b) = [setting |-> want.setting, prompt |-> want.prompt, row |-> given]
    BY <1>2, <1>4
  <1>6. [setting |-> want.setting, prompt |-> want.prompt, row |-> given] \in Wants
    BY <1>2, <1>3 DEF Wants
  <1> QED BY <1>5, <1>6 DEF given

Alones == \A c \in Clients : Alone(c) => Busy = {c} /\ Settled(c)

\* Nobody else is disturbed by a request, for an alone one has nobody beside it.
LEMMA AlonesKept ==
    ASSUME Inv, Alones, NEW d \in Clients, At(d) # "idle", NEW r, Goes(d, r),
           mixed' = mixed, r.at # "idle" /\ Alone(d) => Settled(d)'
    PROVE  Alones'
  <1>1. d \in Workers /\ req'[d] = r
    BY GoesThere DEF Workers
  <1>2. \A v \in Workers : v # d => req'[v] = req[v]
    BY DEF Inv, TypeOK, Goes
  <1>3. ASSUME NEW c \in Clients, Alone(c)' PROVE Busy' = {c} /\ Settled(c)'
    <2>1. d \in Busy
      BY DEF Busy
    <2>2. CASE c = d
      <3>1. Alone(d) /\ r.at # "idle"
        BY <1>1, <1>3, <2>2 DEF Alone, At
      <3>2. Busy = {d}
        BY <3>1 DEF Alones
      <3>3. Busy' = {d}
        BY <1>1, <1>2, <3>1, <3>2 DEF Busy, At, Workers
      <3> QED BY <2>2, <3>1, <3>3
    <2>3. CASE c # d
      <3>1. Alone(c)
        BY <1>2, <1>3, <2>3 DEF Alone, At, Workers
      <3> QED BY <2>1, <2>3, <3>1 DEF Alones
    <2> QED BY <2>2, <2>3
  <1> QED BY <1>3 DEF Alones

LEMMA AloneBegins ==
    ASSUME Inv, Alones, NEW d \in Clients, Begin(d)
    PROVE  Alones'
  <1>1. PICK b \in Bodies :
            Goes(d, [at |-> First(b), body |-> b, call |-> NoCall, todo |-> Owed(b),
                     copy |-> IF b.kind = "edit" THEN Merge(b.change, row) ELSE <<>>,
                     want |-> Asked(b)])
    BY DEF Begin
  <1>2. /\ serving /\ At(d) = "idle" /\ UNCHANGED tables
        /\ mixed' = IF Busy = {} THEN {} ELSE mixed \cup Busy \cup {d}
    BY DEF Begin
  <1>3. /\ d \in Workers /\ \A v \in Workers : v # d => req'[v] = req[v]
        /\ req'[d].at = First(b) /\ req'[d].body = b /\ req'[d].todo = Owed(b)
        /\ req'[d].want = Asked(b)
        /\ req'[d].copy = IF b.kind = "edit" THEN Merge(b.change, row) ELSE <<>>
    <2>1. d \in Workers /\ \A v \in Workers : v # d => req'[v] = req[v]
      BY <1>1 DEF Workers, Inv, TypeOK, Goes
    <2> QED BY <1>1, <2>1, GoesThere
  <1>4. ASSUME Busy # {} PROVE Alones'
    <2>1. \A c \in Clients : c # d /\ At(c)' # "idle" => c \in Busy
      BY <1>3 DEF Busy, At, Workers
    <2>2. \A c \in Clients : c \in mixed' \/ At(c)' = "idle"
      BY <1>2, <1>4, <2>1
    <2> QED BY <2>2 DEF Alones, Alone
  <1>5. ASSUME Busy = {} PROVE Alones'
    <2>1. \A c \in Clients : c # d => At(c)' = "idle"
      BY <1>3, <1>5 DEF Busy, At, Workers
    <2>2. /\ b.kind \in {"settings", "import"} => First(b) = "keys"
          /\ b.kind \in {"save", "rollback"} => First(b) = "seed"
          /\ b.kind = "edit" => First(b) = "write"
      BY DEF First
    <2>3. /\ b.kind = "settings" => Owed(b) = DOMAIN b.change
          /\ b.kind = "import" => Owed(b) = Keys \cup Prompts
          /\ b.kind \in {"save", "rollback", "edit"} => Owed(b) = {}
      BY DEF Owed
    <2>4. Asked(b) \in Wants
      BY <1>2, AskedTyped DEF Inv
    <2>5. ASSUME NEW k \in Keys PROVE Asked(b).setting[k] = SettingOwed(d, k)'
      <3>1. setting \in [Keys -> Values] /\ setting' = setting
        BY <1>2 DEF Inv, TypeOK
      <3>2. Merge(b.change, setting)[k] = IF k \in DOMAIN b.change THEN b.change[k] ELSE setting[k]
        BY <3>1 DEF Merge
      <3>3. Asked(b).setting = IF b.kind = "settings" THEN Merge(b.change, setting)
                               ELSE IF b.kind = "import" THEN b.file.setting ELSE setting
        BY AskedParts DEF Inv
      <3> QED BY <1>3, <2>2, <2>3, <3>1, <3>2, <3>3, BodyFacts DEF SettingOwed, At, Kinds
    <2>6. ASSUME NEW n \in Prompts PROVE Asked(b).prompt[n] = PromptOwed(d, n)'
      <3>1. Asked(b).prompt[n] =
                IF b.kind = "save" /\ n = b.name THEN b.text
                ELSE IF b.kind = "rollback" /\ n = b.name /\ IsVersion(b) THEN history[b.id].value
                ELSE IF b.kind = "import" THEN b.file.prompt[n]
                ELSE Current(n)
        BY AskedParts DEF Inv
      <3>2. history' = history /\ Current(n)' = Current(n) /\ (IsVersion(b)' <=> IsVersion(b))
        BY <1>2 DEF Current, IsVersion
      <3> QED BY <1>3, <2>2, <2>3, <3>1, <3>2, BodyFacts DEF PromptOwed, IsVersion, Kinds
    <2>7. Granted(Asked(b), b).row = RowOwed(d)'
      <3>1. row \in [Fields -> Values] /\ row' = row
        BY <1>2 DEF Inv, TypeOK
      <3>2. Asked(b).row = IF b.kind = "edit" THEN Merge(b.change, row)
                           ELSE IF b.kind = "import" THEN Merge(b.file.row, row) ELSE row
        BY AskedParts DEF Inv
      <3>7. Granted(Asked(b), b).row =
                [f \in Fields |-> IF f \in Zeroed(b) THEN Default ELSE Asked(b).row[f]]
        BY <2>4, GrantedFacts
      <3>8. ASSUME b.kind # "import" PROVE Granted(Asked(b), b).row = Asked(b).row
        <4>1. Zeroed(b) = {}
          BY <3>8 DEF Zeroed
        <4>2. Asked(b).row \in [Fields -> Values]
          BY <2>4 DEF Wants
        <4> QED BY <3>7, <4>1, <4>2
      <3>9. ASSUME b.kind = "import"
            PROVE  Granted(Asked(b), b).row = Merge(Imported(b.file.row), row)
        <4>1. b.file.row \in [Exported -> Values]
          BY <3>9, BodyFacts, FileFacts
        <4>2. Zeroed(b) = {f \in Exported \cap Counts : b.file.row[f] = Zero}
          BY <3>9 DEF Zeroed
        <4>3. /\ DOMAIN b.file.row = Exported
              /\ Imported(b.file.row) =
                     [f \in Exported |-> IF f \in Counts /\ b.file.row[f] = Zero
                                        THEN Default ELSE b.file.row[f]]
          BY <4>1 DEF Imported
        <4>4. Asked(b).row = [f \in Fields |-> IF f \in Exported THEN b.file.row[f] ELSE row[f]]
          BY <3>1, <3>2, <3>9, <4>3 DEF Merge
        <4> QED BY <3>1, <3>7, <4>2, <4>3, <4>4 DEF Merge
      <3>3. b.kind = "edit" => Merge(Merge(b.change, row), row) = Merge(b.change, row)
        BY <3>1 DEF Merge
      <3>4. b.kind = "edit" => RowOwed(d)' = Merge(Merge(b.change, row), row)
        BY <1>3, <2>2, <3>1 DEF RowOwed, At, Merge
      <3>5. b.kind = "import" => RowOwed(d)' = Merge(Imported(b.file.row), row)
        BY <1>3, <2>2, <3>1 DEF RowOwed, At, Merge, Imported
      <3>6. b.kind \in {"settings", "save", "rollback"} => RowOwed(d)' = row
        BY <1>3, <2>2, <3>1 DEF RowOwed, At
      <3> QED BY <3>2, <3>3, <3>4, <3>5, <3>6, <3>8, <3>9, BodyFacts DEF Kinds
    <2>8. CallRight(d)'
      BY <1>3, <2>2, BodyFacts DEF CallRight, Kinds
    <2>9. Settled(d)'
      BY <1>3, <2>4, <2>5, <2>6, <2>7, <2>8 DEF Settled
    <2>10. At(d)' # "idle"
      BY <1>3, <2>2, BodyFacts DEF At, Kinds
    <2>11. Busy' = {d}
      BY <2>1, <2>10 DEF Busy
    <2> QED BY <2>1, <2>9, <2>11 DEF Alones, Alone
  <1> QED BY <1>4, <1>5

LEMMA AlonePutsKey ==
    ASSUME Inv, Alones, NEW c \in Clients, PutKey(c)
    PROVE  Alones'
  <1> DEFINE b == req[c].body
  <1>1. PICK k \in req[c].todo \cap Keys :
            /\ setting' = [setting EXCEPT ![k] = IF b.kind = "import" THEN b.file.setting[k]
                                                                      ELSE b.change[k]]
            /\ Goes(c, [req[c] EXCEPT !.todo = @ \ {k}])
    BY DEF PutKey
  <1> DEFINE r == [req[c] EXCEPT !.todo = @ \ {k}]
  <1>2. /\ At(c) = "keys" /\ req[c].at = "keys"
        /\ UNCHANGED <<history, pointer, row, serving, bounds, mixed>>
    BY DEF PutKey, At
  <1>3. c \in Workers /\ req[c] \in ReqType
    BY <1>2, ClientServed
  <1>4. /\ req'[c] = r /\ r.at = "keys" /\ r.body = b /\ r.todo = req[c].todo \ {k}
        /\ r.want = req[c].want
    BY <1>1, <1>2, <1>3, GoesThere DEF ReqType
  <1> HIDE DEF r
  <1>5. ASSUME Alone(c) PROVE Settled(c)'
    <2>1. Settled(c)
      BY <1>5 DEF Alones
    <2>2. \A m \in Keys : req[c].want.setting[m] = SettingOwed(c, m)'
      <3>1. setting \in [Keys -> Values]
        BY DEF Inv, TypeOK
      <3> QED BY <1>1, <1>2, <1>4, <2>1, <3>1 DEF Settled, SettingOwed, At
    <2>3. \A n \in Prompts : PromptOwed(c, n)' = PromptOwed(c, n)
      <3>1. \A n \in Prompts : n # k
        BY ConfigAssumption
      <3> QED BY <1>2, <1>4, <3>1 DEF PromptOwed, IsVersion, Current
    <2>4. RowOwed(c)' = RowOwed(c)
      BY <1>2, <1>4 DEF RowOwed, At, Merge, Imported
    <2>5. CallRight(c)'
      BY <1>4 DEF CallRight
    <2> QED BY <1>4, <2>1, <2>2, <2>3, <2>4, <2>5 DEF Settled
  <1>6. Goes(c, r)
    BY <1>1 DEF r
  <1> QED BY <1>2, <1>5, <1>6, AlonesKept

LEMMA AloneKeysDone ==
    ASSUME Inv, Alones, NEW c \in Clients, KeysDone(c)
    PROVE  Alones'
  <1>1. /\ At(c) = "keys" /\ req[c].at = "keys" /\ req[c].todo \cap Keys = {}
        /\ UNCHANGED <<tables, serving, bounds, mixed>>
    BY DEF KeysDone, At
  <1>2. c \in Workers /\ req[c] \in ReqType
    BY <1>1, ClientServed
  <1>3. CASE req[c].body.kind = "import"
    <2> DEFINE r == [req[c] EXCEPT !.at = "seed"]
    <2>1. Goes(c, r)
      BY <1>3 DEF KeysDone
    <2>2. /\ req'[c] = r /\ r.at = "seed" /\ r.body = req[c].body /\ r.todo = req[c].todo
          /\ r.want = req[c].want
      BY <1>2, <2>1, GoesThere DEF ReqType
    <2> HIDE DEF r
    <2>3. ASSUME Alone(c) PROVE Settled(c)'
      <3>1. Settled(c)
        BY <2>3 DEF Alones
      <3>2. \A k \in Keys : SettingOwed(c, k)' = SettingOwed(c, k)
        BY <1>1, <2>2 DEF SettingOwed, At
      <3>3. \A n \in Prompts : PromptOwed(c, n)' = PromptOwed(c, n)
        BY <1>1, <2>2 DEF PromptOwed, IsVersion, Current
      <3>4. RowOwed(c)' = RowOwed(c)
        BY <1>1, <2>2 DEF RowOwed, At, Merge, Imported
      <3>5. CallRight(c)'
        BY <2>2 DEF CallRight
      <3> QED BY <2>2, <3>1, <3>2, <3>3, <3>4, <3>5 DEF Settled
    <2> QED BY <1>1, <2>1, <2>3, AlonesKept
  <1>4. CASE req[c].body.kind # "import"
    <2>1. Goes(c, Idle)
      BY <1>4 DEF KeysDone
    <2>2. Idle.at = "idle"
      BY DEF Idle
    <2> QED BY <1>1, <2>1, <2>2, AlonesKept
  <1> QED BY <1>3, <1>4

\* A request that only moves on, from where its settings are written to another
\* such place before its write of the row.
LEMMA AloneMoves ==
    ASSUME Inv, Alones, NEW c \in Clients, NEW r, Goes(c, r), UNCHANGED <<tables, mixed>>,
           At(c) \in {"seed", "check", "prompts"},
           r.at \in {"check", "insert", "point", "prompts"},
           r.body = req[c].body, r.want = req[c].want,
           Alone(c) => \A n \in Prompts : PromptOwed(c, n)' = PromptOwed(c, n),
           Alone(c) => CallRight(c)'
    PROVE  Alones'
  <1>1. c \in Workers /\ req'[c] = r
    BY GoesThere DEF Workers
  <1>2. ASSUME Alone(c) PROVE Settled(c)'
    <2>1. Settled(c)
      BY <1>2 DEF Alones
    <2>2. \A k \in Keys : SettingOwed(c, k)' = SettingOwed(c, k)
      BY <1>1 DEF SettingOwed, At
    <2>3. RowOwed(c)' = RowOwed(c)
      BY <1>1 DEF RowOwed, At, Merge, Imported
    <2> QED BY <1>1, <1>2, <2>1, <2>2, <2>3 DEF Settled
  <1> QED BY <1>2, AlonesKept

LEMMA AloneEnsured ==
    ASSUME Inv, Alones, NEW c \in Clients, Ensured(c)
    PROVE  Alones'
  <1> DEFINE b == req[c].body
  <1>1. /\ At(c) = "seed" /\ req[c].at = "seed" /\ UNCHANGED <<tables, serving, bounds, mixed>>
    BY DEF Ensured, Seeded, At
  <1>2. c \in Workers /\ req[c] \in ReqType /\ Holds(c)
    BY <1>1, ClientServed
  <1>3. b.kind \in {"save", "rollback", "import"}
    BY <1>1, <1>2 DEF Holds
  <1>4. CASE b.kind = "save"
    <2> DEFINE r == [req[c] EXCEPT !.at = "insert",
                         !.call = [name |-> b.name, text |-> b.text, id |-> Unset, after |-> "idle"]]
    <2>1. Calls(c, b.name, b.text, "idle")
      BY <1>4 DEF Ensured
    <2>2. Goes(c, r)
      BY <2>1 DEF Calls
    <2>3. req'[c] = r
      BY <1>2, <2>2, GoesThere
    <2>4. /\ r.at = "insert" /\ r.body = b /\ r.todo = req[c].todo /\ r.want = req[c].want
          /\ r.call.name = b.name /\ r.call.text = b.text
      BY <1>2 DEF ReqType
    <2> HIDE DEF r
    <2>5. \A n \in Prompts : PromptOwed(c, n)' = PromptOwed(c, n)
      BY <1>1, <1>4, <2>3, <2>4 DEF PromptOwed, IsVersion, Current
    <2>6. CallRight(c)'
      BY <1>4, <2>3, <2>4 DEF CallRight
    <2> QED BY <1>1, <2>2, <2>4, <2>5, <2>6, AloneMoves
  <1>5. CASE b.kind \in {"rollback", "import"}
    <2> DEFINE r == [req[c] EXCEPT !.at = IF b.kind = "rollback" THEN "check" ELSE "prompts"]
    <2>1. Goes(c, r)
      <3>1. CASE b.kind = "rollback"
        BY <3>1 DEF Ensured
      <3>2. CASE b.kind = "import"
        BY <3>2 DEF Ensured
      <3> QED BY <1>5, <3>1, <3>2
    <2>2. req'[c] = r
      BY <1>2, <2>1, GoesThere
    <2>3. /\ r.at \in {"check", "prompts"} /\ r.body = b /\ r.todo = req[c].todo
          /\ r.want = req[c].want /\ r.call = req[c].call
      BY <1>2 DEF ReqType
    <2> HIDE DEF r
    <2>4. \A n \in Prompts : PromptOwed(c, n)' = PromptOwed(c, n)
      BY <1>1, <2>2, <2>3 DEF PromptOwed, IsVersion, Current
    <2>5. CallRight(c)'
      BY <2>2, <2>3 DEF CallRight
    <2> QED BY <1>1, <2>1, <2>3, <2>4, <2>5, AloneMoves
  <1> QED BY <1>3, <1>4, <1>5

LEMMA AloneRollsBack ==
    ASSUME Inv, Alones, NEW c \in Clients, Rollback(c)
    PROVE  Alones'
  <1> DEFINE b == req[c].body
  <1>1. /\ At(c) = "check" /\ req[c].at = "check" /\ UNCHANGED <<tables, serving, bounds, mixed>>
    BY DEF Rollback, RollbackOf, At
  <1>2. c \in Workers /\ req[c] \in ReqType /\ Holds(c)
    BY <1>1, ClientServed
  <1>3. b.kind = "rollback"
    BY <1>1, <1>2 DEF Holds
  <1>4. CASE ~IsVersion(b)
    <2>1. Goes(c, Idle) /\ Idle.at = "idle"
      BY <1>4 DEF Rollback, RollbackOf, Idle
    <2> QED BY <1>1, <2>1, AlonesKept
  <1>5. CASE IsVersion(b)
    <2> DEFINE call == [NoCall EXCEPT !.name = b.name, !.id = b.id]
               r    == [req[c] EXCEPT !.at = "point", !.call = call]
    <2>1. Goes(c, r)
      BY <1>5 DEF Rollback, RollbackOf
    <2>2. call.name = b.name /\ call.id = b.id
      BY DEF NoCall
    <2>3. req'[c] = r
      BY <1>2, <2>1, GoesThere
    <2>4. /\ r.at = "point" /\ r.body = b /\ r.todo = req[c].todo /\ r.want = req[c].want
          /\ r.call = call
      BY <1>2 DEF ReqType
    <2> HIDE DEF r, call
    <2>5. \A n \in Prompts : PromptOwed(c, n)' = PromptOwed(c, n)
      BY <1>1, <1>3, <2>3, <2>4 DEF PromptOwed, IsVersion, Current
    <2>6. CallRight(c)'
      <3>1. (b.id \in 1 .. Len(history')) /\ history'[b.id].name = b.name
        BY <1>1, <1>5 DEF IsVersion
      <3> QED BY <1>3, <2>2, <2>3, <2>4, <3>1 DEF CallRight, IsVersion
    <2> QED BY <1>1, <2>1, <2>4, <2>5, <2>6, AloneMoves
  <1> QED BY <1>4, <1>5

LEMMA AloneImportsPrompt ==
    ASSUME Inv, Alones, NEW c \in Clients, ImportPrompt(c)
    PROVE  Alones'
  <1> DEFINE b == req[c].body
  <1>1. /\ At(c) = "prompts" /\ req[c].at = "prompts"
        /\ UNCHANGED <<tables, serving, bounds, mixed>>
    BY DEF ImportPrompt, At
  <1>2. c \in Workers /\ req[c] \in ReqType /\ Holds(c)
    BY <1>1, ClientServed
  <1>3. b.kind = "import" /\ req[c].todo \subseteq Prompts
    BY <1>1, <1>2 DEF Holds
  <1>4. PICK n \in req[c].todo :
            Goes(c, IF b.file.prompt[n] = Current(n)
                    THEN [req[c] EXCEPT !.todo = @ \ {n}]
                    ELSE [req[c] EXCEPT !.todo = @ \ {n}, !.at = "insert",
                                        !.call = [name |-> n, text |-> b.file.prompt[n],
                                                  id |-> Unset, after |-> "prompts"]])
    BY DEF ImportPrompt
  <1> DEFINE r == [req[c] EXCEPT !.todo = @ \ {n}]
             call == [name |-> n, text |-> b.file.prompt[n], id |-> Unset, after |-> "prompts"]
             q == [req[c] EXCEPT !.todo = @ \ {n}, !.at = "insert", !.call = call]
  <1>5. CASE b.file.prompt[n] = Current(n)
    <2>1. Goes(c, r)
      BY <1>4, <1>5
    <2>2. /\ req'[c] = r /\ r.at = "prompts" /\ r.body = b /\ r.todo = req[c].todo \ {n}
          /\ r.want = req[c].want
      BY <1>1, <1>2, <2>1, GoesThere DEF ReqType
    <2> HIDE DEF r
    <2>3. \A m \in Prompts : PromptOwed(c, m)' = PromptOwed(c, m)
      BY <1>1, <1>3, <1>5, <2>2 DEF PromptOwed, Current
    <2>4. CallRight(c)'
      BY <2>2 DEF CallRight
    <2> QED BY <1>1, <2>1, <2>2, <2>3, <2>4, AloneMoves
  <1>6. CASE b.file.prompt[n] # Current(n)
    <2>1. Goes(c, q)
      BY <1>4, <1>6
    <2>2. /\ req'[c] = q /\ q.at = "insert" /\ q.body = b /\ q.todo = req[c].todo \ {n}
          /\ q.want = req[c].want /\ q.call.name = n /\ q.call.text = b.file.prompt[n]
      BY <1>1, <1>2, <2>1, GoesThere DEF ReqType
    <2> HIDE DEF q
    <2>3. \A m \in Prompts : PromptOwed(c, m)' = PromptOwed(c, m)
      BY <1>1, <1>3, <2>2 DEF PromptOwed, Current
    <2>4. CallRight(c)'
      BY <1>3, <2>2 DEF CallRight
    <2> QED BY <1>1, <2>1, <2>2, <2>3, <2>4, AloneMoves
  <1> QED BY <1>5, <1>6

LEMMA AlonePromptsDone ==
    ASSUME Inv, Alones, NEW c \in Clients, PromptsDone(c)
    PROVE  Alones'
  <1> DEFINE b == req[c].body
             r == [req[c] EXCEPT !.at = "write", !.copy = Imported(b.file.row)]
  <1>1. /\ At(c) = "prompts" /\ req[c].at = "prompts" /\ Goes(c, r)
        /\ UNCHANGED <<tables, serving, bounds, mixed>>
    BY DEF PromptsDone, At
  <1>2. c \in Workers /\ req[c] \in ReqType /\ Holds(c)
    BY <1>1, ClientServed
  <1>3. b.kind = "import"
    BY <1>1, <1>2 DEF Holds
  <1>4. /\ req'[c] = r /\ r.at = "write" /\ r.body = b /\ r.todo = req[c].todo
        /\ r.want = req[c].want /\ r.copy = Imported(b.file.row)
    BY <1>1, <1>2, GoesThere DEF ReqType
  <1> HIDE DEF r
  <1>5. ASSUME Alone(c) PROVE Settled(c)'
    <2>1. Settled(c)
      BY <1>5 DEF Alones
    <2>2. \A k \in Keys : SettingOwed(c, k)' = SettingOwed(c, k)
      BY <1>1, <1>4 DEF SettingOwed, At
    <2>3. \A n \in Prompts : PromptOwed(c, n)' = PromptOwed(c, n)
      BY <1>1, <1>3, <1>4 DEF PromptOwed, Current
    <2>4. RowOwed(c)' = RowOwed(c)
      BY <1>1, <1>3, <1>4 DEF RowOwed, At, Merge
    <2>5. CallRight(c)'
      BY <1>4 DEF CallRight
    <2> QED BY <1>4, <2>1, <2>2, <2>3, <2>4, <2>5 DEF Settled
  <1> QED BY <1>1, <1>5, AlonesKept

LEMMA AloneInserts ==
    ASSUME Inv, Alones, NEW c \in Clients, Insert(c)
    PROVE  Alones'
  <1> DEFINE v == [name |-> req[c].call.name, value |-> req[c].call.text]
             r == [req[c] EXCEPT !.at = "point", !.call.id = Len(history')]
  <1>1. /\ At(c) = "insert" /\ req[c].at = "insert" /\ history' = Append(history, v) /\ Goes(c, r)
        /\ UNCHANGED <<pointer, setting, row, serving, bounds, mixed>>
    BY DEF Insert, At
  <1>2. /\ c \in Workers /\ req[c] \in ReqType /\ Holds(c)
        /\ \A n \in Prompts : Valid(pointer[n], n)
    BY <1>1, ClientServed
  <1>3. /\ req[c].call.name \in Prompts /\ req[c].call.text \in Texts /\ req[c].call \in CallType
        /\ req[c].body.kind \in {"save", "import"}
    BY <1>1, <1>2 DEF Holds, ReqType
  <1>4. v \in [name : Prompts, value : Texts]
    BY <1>3
  <1>5. Grows /\ history'[Len(history')] = v
    <2> HIDE DEF v
    <2> QED BY <1>1, <1>4, Appended DEF Inv
  <1>6. /\ req'[c] = r /\ r.at = "point" /\ r.body = req[c].body /\ r.todo = req[c].todo
        /\ r.want = req[c].want /\ r.call.name = req[c].call.name /\ r.call.id = Len(history')
    <2>1. req'[c] = r
      BY <1>1, <1>2, GoesThere
    <2>2. r = [req[c] EXCEPT !.at = "point", !.call = [req[c].call EXCEPT !.id = Len(history')]]
      BY <1>2 DEF ReqType
    <2> QED BY <1>2, <1>3, <2>1, <2>2 DEF ReqType, CallType
  <1> HIDE DEF r
  <1>7. ASSUME Alone(c) PROVE Settled(c)'
    <2>1. Settled(c)
      BY <1>7 DEF Alones
    <2>2. \A k \in Keys : SettingOwed(c, k)' = SettingOwed(c, k)
      BY <1>1, <1>6 DEF SettingOwed, At
    <2>3. \A n \in Prompts : Current(n)' = Current(n)
      BY <1>1, <1>2, <1>5 DEF Current, Valid, Grows
    <2>4. history'[Len(history')].value = req[c].call.text
      BY <1>5
    <2>5. \A n \in Prompts : PromptOwed(c, n)' = PromptOwed(c, n)
      BY <1>1, <1>3, <1>6, <2>3, <2>4 DEF PromptOwed
    <2>6. RowOwed(c)' = RowOwed(c)
      BY <1>1, <1>6 DEF RowOwed, At, Merge, Imported
    <2>7. CallRight(c)'
      BY <1>1, <1>3, <1>6, <2>1, <2>4 DEF Settled, CallRight
    <2> QED BY <1>6, <2>1, <2>2, <2>5, <2>6, <2>7 DEF Settled
  <1> QED BY <1>1, <1>7, AlonesKept

LEMMA AlonePoints ==
    ASSUME Inv, Alones, NEW c \in Clients, Point(c)
    PROVE  Alones'
  <1> DEFINE r == IF req[c].call.after = "idle" THEN Idle
                  ELSE [req[c] EXCEPT !.at = req[c].call.after, !.call = NoCall]
             n == req[c].call.name
  <1>1. /\ At(c) = "point" /\ req[c].at = "point" /\ Goes(c, r)
        /\ pointer' = [pointer EXCEPT ![n] = req[c].call.id]
        /\ UNCHANGED <<history, setting, row, serving, bounds, mixed>>
    BY DEF Point, At
  <1>2. /\ c \in Workers /\ req[c] \in ReqType /\ Holds(c) /\ req[c].body \in Bodies
    BY <1>1, ClientServed
  <1>3. n \in Prompts
    BY <1>1, <1>2 DEF Holds
  <1>4. /\ req[c].body.kind = "import" => req[c].call.after = "prompts"
        /\ req[c].body.kind # "import" => req[c].call.after = "idle"
    BY <1>1, <1>2 DEF Holds
  <1>5. CASE req[c].body.kind = "import"
    <2> DEFINE q == [req[c] EXCEPT !.at = "prompts", !.call = NoCall]
    <2>1. Goes(c, q)
      BY <1>1, <1>4, <1>5
    <2>2. /\ req'[c] = q /\ q.at = "prompts" /\ q.body = req[c].body /\ q.todo = req[c].todo
          /\ q.want = req[c].want
      BY <1>2, <2>1, GoesThere DEF ReqType
    <2> HIDE DEF q
    <2>3. ASSUME Alone(c) PROVE Settled(c)'
      <3>1. Settled(c)
        BY <2>3 DEF Alones
      <3>2. \A k \in Keys : SettingOwed(c, k)' = SettingOwed(c, k)
        BY <1>1, <2>2 DEF SettingOwed, At
      <3>3. \A m \in Prompts : Current(m)' = IF m = n THEN history[req[c].call.id].value ELSE Current(m)
        BY <1>1, <1>3 DEF Current, Inv, TypeOK
      <3>4. \A m \in Prompts : PromptOwed(c, m)' = PromptOwed(c, m)
        BY <1>1, <1>5, <2>2, <3>3 DEF PromptOwed
      <3>5. RowOwed(c)' = RowOwed(c)
        BY <1>1, <2>2 DEF RowOwed, At, Merge, Imported
      <3>6. CallRight(c)'
        BY <1>5, <2>2 DEF CallRight
      <3> QED BY <2>2, <3>1, <3>2, <3>4, <3>5, <3>6 DEF Settled
    <2> QED BY <1>1, <2>1, <2>3, AlonesKept
  <1>6. CASE req[c].body.kind # "import"
    <2>1. Goes(c, Idle) /\ Idle.at = "idle"
      BY <1>1, <1>4, <1>6 DEF Idle
    <2> QED BY <1>1, <2>1, AlonesKept
  <1> QED BY <1>5, <1>6

\* Steps after which nobody is at work, or nobody is where it was not.
LEMMA AlonesStay ==
    ASSUME Alones, UNCHANGED <<tables, mixed>>, \A c \in Clients : req'[c] = req[c]
    PROVE  Alones'
  <1>1. Busy' = Busy /\ \A c \in Clients : Alone(c)' <=> Alone(c)
    BY DEF Busy, Alone, At
  <1>2. ASSUME NEW c \in Clients, Settled(c) PROVE Settled(c)'
    <2>1. \A k \in Keys : SettingOwed(c, k)' = SettingOwed(c, k)
      BY DEF SettingOwed, At
    <2>2. \A n \in Prompts : PromptOwed(c, n)' = PromptOwed(c, n)
      BY DEF PromptOwed, Current, IsVersion
    <2>3. RowOwed(c)' = RowOwed(c)
      BY DEF RowOwed, At, Merge, Imported
    <2>4. CallRight(c)' <=> CallRight(c)
      BY DEF CallRight, IsVersion
    <2> QED BY <1>2, <2>1, <2>2, <2>3, <2>4 DEF Settled
  <1> QED BY <1>1, <1>2 DEF Alones

LEMMA AlonesOff ==
    ASSUME \A c \in Clients : At(c)' = "idle"
    PROVE  Alones'
  BY DEF Alones, Alone

LEMMA AlonesStep == Inv /\ Alones /\ [Next]_vars => Alones'
  <1> SUFFICES ASSUME Inv, Alones, [Next]_vars PROVE Alones'
    OBVIOUS
  <1>a. \A c \in Clients : c \in Workers /\ c # Startup
    BY ConfigAssumption DEF Workers
  <1>b. At(Startup) # "idle" => \A c \in Clients : At(c) = "idle"
    BY DEF Inv, Seeding
  <1>c. req \in [Workers -> ReqType]
    BY DEF Inv, TypeOK
  <1>1. CASE UNCHANGED vars
    BY <1>1, AlonesStay DEF vars
  <1>2. ASSUME NEW w \in Workers, Seed(w) \/ Insert(w) \/ Point(w) PROVE Alones'
    <2>1. CASE w \in Clients
      <3>1. CASE Seed(w)
        <4>1. PICK n \in Prompts : pointer[n] = Unset
          BY <3>1 DEF Seed
        <4>2. At(w) = "seed"
          BY <3>1 DEF Seed
        <4> QED BY <2>1, <4>1, <4>2, ClientServed
      <3> QED BY <1>2, <2>1, <3>1, AloneInserts, AlonePoints
    <2>2. CASE w = Startup
      <3>1. At(Startup) # "idle" /\ \A c \in Clients : req'[c] = req[c]
        BY <1>2, <1>a, <1>c, <2>2 DEF Seed, Calls, Insert, Point, Goes
      <3> QED BY <1>b, <3>1, AlonesOff DEF At
    <2> QED BY <2>1, <2>2 DEF Workers
  <1>3. CASE LifespanYields
    <2>1. At(Startup) # "idle" /\ \A c \in Clients : req'[c] = req[c]
      BY <1>3, <1>a, <1>c DEF LifespanYields, Seeded, Goes
    <2> QED BY <1>b, <2>1, AlonesOff DEF At
  <1>4. CASE Start
    <2>1. ~serving /\ \A c \in Clients : req'[c] = req[c]
      BY <1>4, <1>a, <1>c DEF Start, Goes
    <2> QED BY <2>1, AlonesOff DEF Inv, Seeding, At
  <1>5. CASE Crash
    <2>1. \A c \in Clients : req'[c] = Idle
      BY <1>5, <1>a DEF Crash
    <2> QED BY <2>1, AlonesOff DEF At, Idle
  <1>6. ASSUME NEW c \in Clients, WriteRow(c) PROVE Alones'
    <2>1. At(c) # "idle" /\ Goes(c, Idle) /\ mixed' = mixed /\ Idle.at = "idle"
      BY <1>6 DEF WriteRow, Idle
    <2> QED BY <2>1, AlonesKept
  <1>7. ASSUME NEW c \in Clients, Refused(c) PROVE Alones'
    <2>1. At(c) # "idle" /\ Goes(c, Idle) /\ mixed' = mixed \cup {c} /\ UNCHANGED tables
      BY <1>7 DEF Refused
    <2>2. c \in Busy
      BY <2>1 DEF Busy
    <2>3. ASSUME NEW d \in Clients, Alone(d)' PROVE FALSE
      <3>1. d # c
        BY <2>1, <2>3 DEF Alone
      <3>2. req'[d] = req[d]
        BY <1>a, <1>c, <2>1, <3>1 DEF Goes
      <3>3. Alone(d)
        BY <2>1, <2>3, <3>2 DEF Alone, At
      <3> QED BY <2>2, <3>1, <3>3 DEF Alones
    <2> QED BY <2>3 DEF Alones
  <1> QED BY <1>1, <1>2, <1>3, <1>4, <1>5, <1>6, <1>7, AloneBegins, AlonePutsKey, AloneKeysDone,
             AloneEnsured, AloneRollsBack, AloneImportsPrompt, AlonePromptsDone DEF Next

LEMMA SpecAlones == Spec => [](Inv /\ Alones)
  <1>1. Init => Alones
    <2> SUFFICES ASSUME Init PROVE Alones
      OBVIOUS
    <2>1. req = [w \in Workers |-> Idle] /\ Idle.at = "idle"
      BY DEF Init, Idle
    <2>2. \A c \in Clients : At(c) = "idle"
      BY <2>1 DEF At, Workers
    <2> QED BY <2>2 DEF Alones, Alone
  <1> QED BY <1>1, InitInv, InvStep, AlonesStep, PTL DEF Spec

LEMMA WantIsConfig ==
    ASSUME Inv', NEW want \in Wants, want.row = row',
           \A k \in Keys : want.setting[k] = setting'[k],
           \A n \in Prompts : want.prompt[n] = Current(n)'
    PROVE  Config' = want
  <1>1. want.setting = setting'
    BY DEF Wants, Inv, TypeOK
  <1>2. want.prompt = [n \in Prompts |-> Current(n)']
    BY DEF Wants
  <1>3. want = [setting |-> want.setting, prompt |-> want.prompt, row |-> want.row]
    BY DEF Wants
  <1> QED BY <1>1, <1>2, <1>3 DEF Config

\* The last step of a request that is alone pays what it owed.
LEMMA AlonePays ==
    ASSUME Inv, Inv', Alones, NEW c \in Clients, Alone(c),
           KeysDone(c) \/ Rollback(c) \/ Point(c) \/ WriteRow(c), req'[c] = Idle
    PROVE  req[c].want \in Wants /\ Config' = Granted(req[c].want, req[c].body)
  <1> DEFINE b == req[c].body
             want == Granted(req[c].want, b)
  <1>1. /\ At(c) # "idle" /\ req[c].at = At(c) /\ Settled(c)
    BY DEF Alone, Alones, At
  <1>2. c \in Workers /\ req[c] \in ReqType /\ b \in Bodies /\ Holds(c)
    BY <1>1, ClientServed
  <1>3. /\ want \in Wants /\ want.row = RowOwed(c)
        /\ \A k \in Keys : want.setting[k] = SettingOwed(c, k)
        /\ \A n \in Prompts : want.prompt[n] = PromptOwed(c, n)
    BY <1>1, GrantedFacts DEF Settled
  <1>w. req[c].want \in Wants
    BY <1>1 DEF Settled
  <1> HIDE DEF want
  <1>4. Idle.at = "idle" /\ req'[c].at = "idle"
    BY DEF Idle
  <1>5. CASE KeysDone(c)
    <2>1. /\ At(c) = "keys" /\ req[c].todo \cap Keys = {} /\ UNCHANGED tables
      BY <1>5 DEF KeysDone
    <2>2. b.kind # "import"
      <3>1. ASSUME b.kind = "import" PROVE FALSE
        <4>1. req'[c] = [req[c] EXCEPT !.at = "seed"]
          BY <1>2, <1>5, <3>1, GoesThere DEF KeysDone
        <4> QED BY <1>2, <1>4, <4>1 DEF ReqType
      <3> QED BY <3>1
    <2>3. b.kind = "settings"
      BY <1>1, <1>2, <2>1, <2>2 DEF Holds
    <2>4. \A k \in Keys : want.setting[k] = setting'[k]
      BY <1>3, <2>1 DEF SettingOwed
    <2>5. \A n \in Prompts : want.prompt[n] = Current(n)'
      BY <1>3, <2>1, <2>3 DEF PromptOwed, Current
    <2>6. want.row = row'
      BY <1>3, <2>1, <2>3 DEF RowOwed
    <2>9. Config' = want
      BY <1>3, <2>4, <2>5, <2>6, WantIsConfig
    <2> QED BY <1>w, <2>9 DEF want
  <1>6. CASE Rollback(c)
    <2>1. At(c) = "check" /\ UNCHANGED tables
      BY <1>6 DEF Rollback, RollbackOf
    <2>2. b.kind = "rollback"
      BY <1>1, <1>2, <2>1 DEF Holds
    <2>3. ~IsVersion(b)
      <3>1. ASSUME IsVersion(b) PROVE FALSE
        <4> DEFINE call == [NoCall EXCEPT !.name = b.name, !.id = b.id]
        <4>1. Goes(c, [req[c] EXCEPT !.at = "point", !.call = call])
          BY <1>6, <3>1 DEF Rollback, RollbackOf
        <4> HIDE DEF call
        <4>2. req'[c] = [req[c] EXCEPT !.at = "point", !.call = call]
          BY <1>2, <4>1, GoesThere
        <4> QED BY <1>2, <1>4, <4>2 DEF ReqType
      <3> QED BY <3>1
    <2>4. \A k \in Keys : want.setting[k] = setting'[k]
      BY <1>3, <2>1 DEF SettingOwed
    <2>5. \A n \in Prompts : want.prompt[n] = Current(n)'
      BY <1>3, <2>1, <2>2, <2>3 DEF PromptOwed, Current
    <2>6. want.row = row'
      BY <1>3, <2>1, <2>2 DEF RowOwed
    <2>9. Config' = want
      BY <1>3, <2>4, <2>5, <2>6, WantIsConfig
    <2> QED BY <1>w, <2>9 DEF want
  <1>7. CASE Point(c)
    <2>1. /\ At(c) = "point" /\ pointer' = [pointer EXCEPT ![req[c].call.name] = req[c].call.id]
          /\ UNCHANGED <<history, setting, row>>
      BY <1>7 DEF Point
    <2>2. req[c].call.name \in Prompts /\ b.kind \in {"save", "rollback", "import"}
      BY <1>1, <1>2, <2>1 DEF Holds
    <2>3. b.kind # "import"
      <3>1. ASSUME b.kind = "import" PROVE FALSE
        <4>1. req[c].call.after = "prompts"
          BY <1>1, <1>2, <2>1, <3>1 DEF Holds
        <4>2. Goes(c, [req[c] EXCEPT !.at = req[c].call.after, !.call = NoCall])
          BY <1>7, <4>1 DEF Point
        <4>3. req'[c] = [req[c] EXCEPT !.at = req[c].call.after, !.call = NoCall]
          BY <1>2, <4>2, GoesThere
        <4> QED BY <1>2, <1>4, <4>1, <4>3 DEF ReqType
      <3> QED BY <3>1
    <2>4. /\ req[c].call.name = b.name
          /\ b.kind = "save" => history[req[c].call.id].value = b.text
          /\ b.kind = "rollback" => req[c].call.id = b.id /\ IsVersion(b)
      BY <1>1, <2>1, <2>2, <2>3 DEF Settled, CallRight
    <2>5. \A n \in Prompts :
              Current(n)' = IF n = b.name THEN history[req[c].call.id].value ELSE Current(n)
      BY <2>1, <2>2, <2>4 DEF Current, Inv, TypeOK
    <2>6. \A n \in Prompts : want.prompt[n] = Current(n)'
      BY <1>3, <2>2, <2>3, <2>4, <2>5 DEF PromptOwed
    <2>7. \A k \in Keys : want.setting[k] = setting'[k]
      BY <1>3, <2>1 DEF SettingOwed
    <2>8. want.row = row'
      BY <1>3, <2>1, <2>3 DEF RowOwed
    <2>9. Config' = want
      BY <1>3, <2>6, <2>7, <2>8, WantIsConfig
    <2> QED BY <1>w, <2>9 DEF want
  <1>8. CASE WriteRow(c)
    <2>1. /\ At(c) = "write" /\ row' = Merge(req[c].copy, row)
          /\ UNCHANGED <<history, pointer, setting>>
      BY <1>8 DEF WriteRow
    <2>2. b.kind \in {"edit", "import"} /\ req[c].todo = {}
      BY <1>1, <1>2, <2>1 DEF Holds
    <2>3. \A k \in Keys : want.setting[k] = setting'[k]
      BY <1>3, <2>1 DEF SettingOwed
    <2>4. \A n \in Prompts : want.prompt[n] = Current(n)'
      BY <1>1, <1>3, <2>1, <2>2 DEF PromptOwed, Current
    <2>5. want.row = row'
      BY <1>3, <2>1 DEF RowOwed
    <2>9. Config' = want
      BY <1>3, <2>3, <2>4, <2>5, WantIsConfig
    <2> QED BY <1>w, <2>9 DEF want
  <1> QED BY <1>5, <1>6, <1>7, <1>8

LEMMA AlonesPay ==
    ASSUME Inv, Inv', Alones, [Next]_vars
    PROVE  [\A c \in Clients \ mixed' :
                Ends(c) => /\ req[c].want \in Wants
                           /\ Config' = Granted(req[c].want, req[c].body)]_vars
  <1> SUFFICES ASSUME Next, NEW c \in Clients, c \notin mixed', At(c) # "idle",
                      req'[c] = Idle, serving'
               PROVE  req[c].want \in Wants /\ Config' = Granted(req[c].want, req[c].body)
    BY DEF Ends
  <1>a. /\ c \in Workers /\ req[c].at # "idle" /\ Idle.at = "idle" /\ req'[c].at = "idle"
        /\ req \in [Workers -> ReqType] /\ c # Startup /\ req'[c] # req[c]
    BY ClientServed DEF At, Idle, Inv, TypeOK
  <1>1. ASSUME NEW w \in Workers, w # c, NEW r, Goes(w, r) PROVE FALSE
    BY <1>a, <1>1 DEF Goes
  <1>2. ASSUME NEW r, Goes(c, r), r.at # "idle" PROVE FALSE
    BY <1>a, <1>2, GoesThere
  <1>3. ASSUME mixed' = mixed PROVE Alone(c)
    BY <1>3 DEF Alone
  <1>4. ASSUME NEW d \in Clients, d # c,
               \/ Begin(d) \/ PutKey(d) \/ KeysDone(d) \/ Ensured(d) \/ Rollback(d)
               \/ ImportPrompt(d) \/ PromptsDone(d) \/ WriteRow(d) \/ Refused(d)
        PROVE  FALSE
    <2>1. \E r : Goes(d, r)
      <3>1. CASE Ensured(d)
        <4>1. At(d) # "idle"
          BY <3>1 DEF Ensured, Seeded
        <4>2. req[d].body.kind \in {"save", "rollback", "import"}
          BY <3>1, <4>1, ClientServed DEF Ensured, Seeded, Holds, At
        <4>3. CASE req[d].body.kind = "save"
          BY <3>1, <4>3 DEF Ensured, Calls
        <4>4. CASE req[d].body.kind = "rollback"
          BY <3>1, <4>4 DEF Ensured
        <4>5. CASE req[d].body.kind = "import"
          BY <3>1, <4>5 DEF Ensured
        <4> QED BY <4>2, <4>3, <4>4, <4>5
      <3>2. CASE ~Ensured(d)
        BY <1>4, <3>2 DEF Begin, PutKey, KeysDone, Rollback, RollbackOf, ImportPrompt, PromptsDone,
                          WriteRow, Refused
      <3> QED BY <3>1, <3>2
    <2> QED BY <1>1, <1>4, <2>1 DEF Workers
  <1>5. CASE \E w \in Workers : Seed(w) \/ Insert(w) \/ Point(w)
    <2>1. PICK w \in Workers : Seed(w) \/ Insert(w) \/ Point(w)
      BY <1>5
    <2>2. \E r : Goes(w, r)
      BY <2>1 DEF Seed, Calls, Insert, Point
    <2>3. w = c
      BY <1>1, <2>2
    <2>4. ~Seed(c)
      <3>1. Seed(c) => \E n \in Prompts : pointer[n] = Unset
        BY DEF Seed
      <3> QED BY <3>1, ClientServed
    <2>5. ~Insert(c)
      <3>1. ASSUME Insert(c) PROVE FALSE
        <4>1. Goes(c, [req[c] EXCEPT !.at = "point", !.call.id = Len(history')])
          BY <3>1 DEF Insert
        <4>2. [req[c] EXCEPT !.at = "point", !.call.id = Len(history')].at = "point"
          BY <1>a DEF ReqType
        <4> QED BY <1>2, <4>1, <4>2
      <3> QED BY <3>1
    <2>6. Point(c) /\ mixed' = mixed
      BY <2>1, <2>3, <2>4, <2>5 DEF Point
    <2> QED BY <1>3, <2>6, AlonePays
  <1>6. CASE LifespanYields \/ Start
    <2>1. \E r : Goes(Startup, r)
      BY <1>6 DEF LifespanYields, Start
    <2> QED BY <1>1, <1>a, <2>1 DEF Workers
  <1>7. CASE Crash
    BY <1>7 DEF Crash
  <1>8. CASE KeysDone(c) \/ Rollback(c) \/ WriteRow(c)
    BY <1>3, <1>8, AlonePays DEF KeysDone, Rollback, RollbackOf, WriteRow
  <1>9. CASE PutKey(c)
    <2>1. PICK k \in req[c].todo : Goes(c, [req[c] EXCEPT !.todo = @ \ {k}])
      BY <1>9 DEF PutKey
    <2>2. [req[c] EXCEPT !.todo = @ \ {k}].at # "idle"
      BY <1>a DEF ReqType
    <2> QED BY <1>2, <2>1, <2>2
  <1>10. CASE Ensured(c)
    <2> DEFINE s == [req[c] EXCEPT !.at = "insert",
                         !.call = [name |-> req[c].body.name, text |-> req[c].body.text,
                                   id |-> Unset, after |-> "idle"]]
    <2>1. req[c].body.kind \in {"save", "rollback", "import"}
      BY <1>10, ClientServed DEF Ensured, Seeded, Holds, At
    <2>2. CASE req[c].body.kind = "save"
      <3>1. Goes(c, s)
        BY <1>10, <2>2 DEF Ensured, Calls
      <3>2. s.at = "insert"
        BY <1>a DEF ReqType
      <3> QED BY <1>2, <3>1, <3>2
    <2>3. CASE req[c].body.kind = "rollback"
      <3>1. Goes(c, [req[c] EXCEPT !.at = "check"])
        BY <1>10, <2>3 DEF Ensured
      <3>2. [req[c] EXCEPT !.at = "check"].at = "check"
        BY <1>a DEF ReqType
      <3> QED BY <1>2, <3>1, <3>2
    <2>4. CASE req[c].body.kind = "import"
      <3>1. Goes(c, [req[c] EXCEPT !.at = "prompts"])
        BY <1>10, <2>4 DEF Ensured
      <3>2. [req[c] EXCEPT !.at = "prompts"].at = "prompts"
        BY <1>a DEF ReqType
      <3> QED BY <1>2, <3>1, <3>2
    <2> QED BY <2>1, <2>2, <2>3, <2>4
  <1>11. CASE ImportPrompt(c)
    <2>1. PICK n \in req[c].todo :
            Goes(c, IF req[c].body.file.prompt[n] = Current(n)
                    THEN [req[c] EXCEPT !.todo = @ \ {n}]
                    ELSE [req[c] EXCEPT !.todo = @ \ {n}, !.at = "insert",
                                        !.call = [name |-> n, text |-> req[c].body.file.prompt[n],
                                                  id |-> Unset, after |-> "prompts"]])
      BY <1>11 DEF ImportPrompt
    <2> DEFINE r == IF req[c].body.file.prompt[n] = Current(n)
                    THEN [req[c] EXCEPT !.todo = @ \ {n}]
                    ELSE [req[c] EXCEPT !.todo = @ \ {n}, !.at = "insert",
                                        !.call = [name |-> n, text |-> req[c].body.file.prompt[n],
                                                  id |-> Unset, after |-> "prompts"]]
    <2>2. r.at # "idle"
      BY <1>a DEF ReqType
    <2> QED BY <1>2, <2>1, <2>2
  <1>12. CASE PromptsDone(c)
    <2>1. Goes(c, [req[c] EXCEPT !.at = "write", !.copy = Imported(req[c].body.file.row)])
      BY <1>12 DEF PromptsDone
    <2>2. [req[c] EXCEPT !.at = "write", !.copy = Imported(req[c].body.file.row)].at = "write"
      BY <1>a DEF ReqType
    <2> QED BY <1>2, <2>1, <2>2
  <1>13. CASE Begin(c)
    BY <1>13 DEF Begin
  <1>14. CASE Refused(c)
    BY <1>14 DEF Refused
  <1> QED BY <1>4, <1>5, <1>6, <1>7, <1>8, <1>9, <1>10, <1>11, <1>12, <1>13, <1>14 DEF Next

\* A save, a rollback, an edit or an import nobody overlaps leaves in force what
\* it asked for and nothing else, for any prompts, columns and files; but for the
\* counts that a file gives as 0, where it leaves the default.
THEOREM AloneIsExactHolds == Spec => AloneIsExact
  <1>1. Inv /\ Alones /\ Inv' /\ [Next]_vars =>
            [\A c \in Clients \ mixed' :
                 Ends(c) => Config' = Granted(req[c].want, req[c].body)]_vars
    BY AlonesPay
  <1> QED BY <1>1, SpecAlones, PTL DEF Spec, AloneIsExact

\* The round trip holds for every file without a count of 0.
THEOREM ImportIsExactWithoutZeros ==
    ASSUME \A file \in Files, f \in Exported \cap Counts : file.row[f] # Zero
    PROVE  Spec => ImportIsExact
  <1>1. Inv /\ Alones /\ Inv' /\ [Next]_vars =>
            [\A c \in Clients \ mixed' :
                 Ends(c) /\ req[c].body.kind = "import" => Config' = req[c].want]_vars
    <2> SUFFICES ASSUME Inv, Alones, Inv', Next, NEW c \in Clients, c \notin mixed', Ends(c),
                        req[c].body.kind = "import",
                        req[c].want \in Wants, Config' = Granted(req[c].want, req[c].body)
                 PROVE  Config' = req[c].want
      BY AlonesPay
    <2>1. req[c] \in ReqType /\ req[c].body \in Bodies
      BY ClientServed DEF Ends
    <2>2. Zeroed(req[c].body) = {}
      <3>1. req[c].body.file \in Files
        BY <2>1, BodyFacts
      <3> QED BY <3>1 DEF Zeroed
    <2>3. Granted(req[c].want, req[c].body) = req[c].want
      BY <2>2, GrantedFacts DEF Wants
    <2> QED BY <2>3
  <1> QED BY <1>1, SpecAlones, PTL DEF Spec, ImportIsExact

=============================================================================
