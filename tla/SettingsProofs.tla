---------------------------- MODULE SettingsProofs ----------------------------
(***************************************************************************)
(* Proofs about the settings, for every environment and set of updates,    *)
(* and about the poller whose interval they change, whose module is        *)
(* instantiated as Poller, for any number of servers, upload handlers and  *)
(* callers of UpdateInterval.                                              *)
(***************************************************************************)
EXTENDS Settings, ServerTable, TLAPS

PCs == {"idle", "save", "read", "apply", "oidc", "oidcCopy", "discover", "vault",
        "vaultCopy", "interval", "answer"}
Applied == {"oidc", "oidcCopy", "discover", "vault", "vaultCopy", "interval", "answer"}
Saved == {"read", "apply"} \cup Applied
Fields == Keys \ {Backend}

\* A configuration that has every row of the table, and one that has a login.
Caught(c) == \A k \in Fields : Given(db, k) => c[k] = db[k]
Configured(c) == c[Issuer] # Empty /\ c[Client] # Empty

\* A login there is has an issuer and a client in s.cfg, or rows for them in the table.
Backed ==
  \A k \in {Issuer, Client} : cfg[k] # Empty \/ (Env[k] = Empty /\ db[k] # NoRow)
Login == oidc # NoHandler => Backed

\* A field nobody saved has the value of the environment, or the default.
Behind == \A k \in Fields : (Env[k] # Empty \/ db[k] = NoRow) => cfg[k] = Load[k]

\* What a request holds whoever runs beside it: rows never leave the table, and a discovery
\* is only begun with an issuer and a client.
Held(a) ==
  LET r == admin[a] IN
  /\ \A k \in Keys : r.rows[k] # NoRow => db[k] # NoRow
  /\ r.pc = "discover" => Configured(r.conf) /\ Backed

\* What it holds without company: the rows it applies are those of the table, and from then
\* on s.cfg has caught up with the table, so that reading the table again, or failing to,
\* gives the configuration of s.cfg.
Reload(a) ==
  LET r == admin[a] IN
  /\ r.pc = "apply" => r.rows = db
  /\ r.pc \in Applied => Caught(cfg)
  /\ r.pc \in {"oidcCopy", "vaultCopy"} => r.rows \in {db, NoRows}
  /\ r.pc = "discover" => r.conf[Issuer] = cfg[Issuer] /\ r.conf[Client] = cfg[Client]

\* Company is noticed when it arrives.
Company == alone => \A a, b \in Admins : Idle(a) \/ Idle(b) \/ a = b
Reloads ==
  /\ TypeOK /\ Company /\ Login /\ Behind
  /\ \A a \in Admins : Held(a) /\ (alone => Reload(a))

\* The values the table and the environment ask for, and what it is for a group to follow them.
InUse == [k \in Keys |-> IF Given(db, k) THEN db[k] ELSE Load[k]]
Follows(g) ==
  /\ g = "oidc" => oidc = HandlerOf(InUse)
  /\ g = "vault" => ks = ReinitKeyStore(InUse)
  /\ g = "interval" /\ interval > 0 /\ InUse[Interval] > 0 => interval = InUse[Interval]
InForce(g) == ~Cleared(g) => Follows(g)

\* A request has taken the groups it touches out of confirmed before it reloads any, and
\* without company each stage it has passed has put its group in force.
Request(a) ==
  LET r == admin[a] IN
  /\ r.pc = "save" => \A k \in DOMAIN r.body \ r.todo : Group(k) \notin confirmed
  /\ r.pc \in Saved => Touched(a) \cap confirmed = {} /\ db # NoRows
  /\ r.pc \in {"oidc", "oidcCopy", "discover"} => "oidc" \in Touched(a)
  /\ r.pc \in {"vault", "vaultCopy"} => "vault" \in Touched(a)
  /\ r.pc = "interval" => "interval" \in Touched(a)
Passed(a) ==
  LET r == admin[a] IN
  /\ r.pc \in {"vault", "vaultCopy", "interval", "answer"} /\ "oidc" \in Touched(a) =>
       InForce("oidc")
  /\ r.pc \in {"interval", "answer"} /\ "vault" \in Touched(a) => InForce("vault")
  /\ r.pc = "answer" /\ "interval" \in Touched(a) => InForce("interval")
Confirmations ==
  /\ \A g \in confirmed : InForce(g)
  /\ db = NoRows /\ "vault" \in confirmed => SameKeyStore(Load)
  /\ \A a \in Admins : Request(a) /\ (alone => Passed(a))

\* What Load makes of the environment (config.go:207-257).
LEMMA EnvironmentValues ==
  /\ \A k \in Keys \ {Interval} : NotANumber \notin Values(k)
  /\ Load = [k \in Keys |-> Load[k]] /\ Load[Interval] \in Int
  /\ \A k \in Keys : Load[k] = IF Env[k] \in {Empty, NotANumber} THEN Default(k) ELSE Env[k]
BY SettingsAssumption DEF Load, Default, Keys, Issuer, Client, Address, Token, Backend,
                          Interval

\* Merging a table into a configuration gives a configuration: each field has its row's value
\* where the row counts, and keeps its own elsewhere (config.go:115-167).
LEMMA Merging ==
  ASSUME NEW c, IsConfig(c), NEW rows, IsTable(rows)
  PROVE  /\ IsConfig(ApplyDBSettings(c, rows))
         /\ \A k \in Fields :
              ApplyDBSettings(c, rows)[k] = IF Given(rows, k) THEN rows[k] ELSE c[k]
<1> DEFINE d == ApplyDBSettings(c, rows)
<1>k. /\ Backend \in Keys /\ Interval \in Fields /\ Address \in Fields /\ Token \in Fields
      /\ Fields \subseteq Keys /\ \A k \in Keys : k \in Fields \/ k = Backend
  BY DEF Fields, Keys, Issuer, Client, Address, Token, Backend, Interval
<1>1. d = [k \in Keys |-> d[k]]
  BY DEF ApplyDBSettings
<1>2. \A k \in Fields : d[k] = IF Given(rows, k) THEN rows[k] ELSE c[k]
  BY <1>k DEF ApplyDBSettings, Fields
<1>3. d[Backend] \in {"vault", rows[Backend], c[Backend]}
      /\ (d[Backend] = rows[Backend] => Given(rows, Backend) \/ rows[Backend] = "vault"
           \/ rows[Backend] = c[Backend])
  BY <1>k DEF ApplyDBSettings
<1>4. d[Interval] \in Int
  BY <1>k, <1>2, SettingsAssumption DEF IsConfig, IsTable, Given
<1>5. ASSUME NEW k \in Keys
      PROVE  d[k] \in (Values(k) \ {Empty, NotANumber}) \cup {Load[k]}
                        \cup (IF k = Backend THEN {"vault"} ELSE {})
  <2>1. CASE k = Backend
    BY <2>1, <1>3, <1>k DEF IsConfig, IsTable, Given
  <2>2. CASE k \in Fields
    BY <2>2, <1>2, <1>k DEF IsConfig, IsTable, Given
  <2> QED BY <2>1, <2>2, <1>k
<1> QED BY <1>1, <1>2, <1>4, <1>5 DEF IsConfig

\* A table without rows gives no field a value.
LEMMA Starting ==
  /\ IsTable(NoRows) /\ IsConfig(Load) /\ IsRequest(Waiting)
  /\ \A k \in Keys : ~Given(NoRows, k)
<1>1. NoRows = [k \in Keys |-> NoRows[k]] /\ \A k \in Keys : NoRows[k] = NoRow
  BY DEF NoRows
<1>2. IsTable(NoRows) /\ IsConfig(Load)
  BY <1>1, EnvironmentValues DEF IsTable, IsConfig
<1>3. DOMAIN NoBody = {}
  BY DEF NoBody
<1>4. IsRequest(Waiting)
  BY <1>2, <1>3 DEF IsRequest, Waiting
<1>5. \A k \in Keys : ~Given(NoRows, k)
  BY <1>1 DEF Given
<1> QED BY <1>2, <1>4, <1>5

\* A request that goes on keeps its body, and forgets rows and configuration.
LEMMA Going ==
  ASSUME TypeOK, NEW a \in Admins, NEW x \in PCs, Goto(a, x)
  PROVE  /\ admin' = [b \in Admins |-> admin'[b]] /\ \A b \in Admins : IsRequest(admin'[b])
         /\ admin'[a].pc = x /\ admin'[a].body = admin[a].body /\ admin'[a].todo = admin[a].todo
         /\ admin'[a].rows = NoRows
<1>1. admin'[a] = [pc |-> x, body |-> admin[a].body, todo |-> admin[a].todo,
                   rows |-> NoRows, conf |-> Load]
  <2>1. admin'[a] = [admin[a] EXCEPT !.pc = x, !.rows = NoRows, !.conf = Load]
    BY DEF TypeOK, Goto
  <2> QED BY <2>1, Zenon DEF TypeOK, IsRequest
<1>2. admin' = [b \in Admins |-> admin'[b]] /\ \A b \in Admins \ {a} : admin'[b] = admin[b]
  BY Zenon DEF TypeOK, Goto
<1>3. IsRequest(admin'[a])
  BY <1>1, Starting DEF TypeOK, IsRequest, PCs
<1> QED BY <1>1, <1>2, <1>3 DEF TypeOK

\* A request that returns forgets its locals.
LEMMA Returning ==
  ASSUME TypeOK, NEW a \in Admins, Return(a)
  PROVE  /\ admin' = [b \in Admins |-> admin'[b]] /\ \A b \in Admins : IsRequest(admin'[b])
         /\ admin'[a] = Waiting /\ admin'[a].pc = "idle"
BY Starting, Zenon DEF TypeOK, Return, Waiting

\* Where a request may go on after a stage.
LEMMA Staging ==
  ASSUME NEW a, NEW stage
  PROVE  After(a, stage) \in {"oidc", "vault", "interval", "answer"}
BY DEF After

\* What the steps of a request do to its locals.
LEMMA Putting ==
  ASSUME TypeOK, NEW a \in Admins, NEW u \in Updates, PutSettings(a, u)
  PROVE  /\ admin' = [b \in Admins |-> admin'[b]] /\ \A b \in Admins : IsRequest(admin'[b])
         /\ admin'[a].pc = "save" /\ admin'[a].body = u /\ admin'[a].todo = DOMAIN u
         /\ admin'[a].rows = NoRows
BY Starting, SettingsAssumption, Zenon DEF TypeOK, PutSettings, Waiting, IsRequest

\* A statement replaces one row by a value of the request.
LEMMA Saving ==
  ASSUME TypeOK, NEW a \in Admins, NEW k \in Keys, SetSetting(a, k)
  PROVE  /\ admin' = [b \in Admins |-> admin'[b]] /\ \A b \in Admins : IsRequest(admin'[b])
         /\ admin'[a].pc = (IF admin[a].todo \ {k} = {} THEN "read" ELSE "save")
         /\ admin'[a].body = admin[a].body /\ admin'[a].todo = admin[a].todo \ {k}
         /\ admin'[a].rows = admin[a].rows
         /\ db' = [db EXCEPT ![k] = admin[a].body[k]] /\ admin[a].body[k] \in Values(k)
         /\ IsTable(db')
<1>1. /\ admin' = [b \in Admins |-> admin'[b]] /\ \A b \in Admins : IsRequest(admin'[b])
      /\ admin'[a].pc = (IF admin[a].todo \ {k} = {} THEN "read" ELSE "save")
      /\ admin'[a].body = admin[a].body /\ admin'[a].todo = admin[a].todo \ {k}
      /\ admin'[a].rows = admin[a].rows
  <2>1. admin'[a] = [pc |-> (IF admin[a].todo \ {k} = {} THEN "read" ELSE "save"),
                     body |-> admin[a].body, todo |-> admin[a].todo \ {k},
                     rows |-> admin[a].rows, conf |-> admin[a].conf]
    <3>1. admin'[a] = [admin[a] EXCEPT !.todo = admin[a].todo \ {k},
                                       !.pc = IF admin[a].todo \ {k} = {} THEN "read" ELSE "save"]
      BY Zenon DEF TypeOK, SetSetting
    <3> QED BY <3>1, Zenon DEF TypeOK, IsRequest
  <2>2. admin' = [b \in Admins |-> admin'[b]] /\ \A b \in Admins \ {a} : admin'[b] = admin[b]
    BY Zenon DEF TypeOK, SetSetting
  <2>3. IsRequest(admin'[a])
    BY <2>1 DEF TypeOK, IsRequest
  <2> QED BY <2>1, <2>2, <2>3 DEF TypeOK
<1>2. k \in DOMAIN admin[a].body /\ admin[a].body \in Updates
  BY Zenon DEF TypeOK, SetSetting, IsRequest, NoBody
<1>3. admin[a].body[k] \in Values(k)
  BY <1>2 DEF Values
<1>4. db' = [db EXCEPT ![k] = admin[a].body[k]]
  BY DEF SetSetting
<1>5. IsTable(db')
  BY <1>3, <1>4 DEF TypeOK, IsTable
<1> QED BY <1>1, <1>3, <1>4, <1>5

\* The table is read once for s.cfg.
LEMMA Reading ==
  ASSUME TypeOK, NEW a \in Admins, GetAllSettings(a)
  PROVE  /\ admin' = [b \in Admins |-> admin'[b]] /\ \A b \in Admins : IsRequest(admin'[b])
         /\ admin'[a].pc = "apply" /\ admin'[a].rows = db /\ admin'[a].body = admin[a].body
<1>1. admin'[a] = [pc |-> "apply", body |-> admin[a].body, todo |-> admin[a].todo,
                   rows |-> db, conf |-> admin[a].conf]
  <2>1. admin'[a] = [admin[a] EXCEPT !.rows = db, !.pc = "apply"]
    BY DEF TypeOK, GetAllSettings
  <2> QED BY <2>1, Zenon DEF TypeOK, IsRequest
<1>2. admin' = [b \in Admins |-> admin'[b]] /\ \A b \in Admins \ {a} : admin'[b] = admin[b]
  BY DEF TypeOK, GetAllSettings
<1>3. IsRequest(admin'[a])
  BY <1>1 DEF TypeOK, IsRequest
<1> QED BY <1>1, <1>2, <1>3 DEF TypeOK

\* It is read again for the copy, or the failure ignored.
LEMMA Rereading ==
  ASSUME TypeOK, NEW a \in Admins, ReadAgain(a)
  PROVE  /\ admin' = [b \in Admins |-> admin'[b]] /\ \A b \in Admins : IsRequest(admin'[b])
         /\ admin'[a].pc = (IF admin[a].pc = "oidc" THEN "oidcCopy" ELSE "vaultCopy")
         /\ admin'[a].rows \in {db, NoRows} /\ admin'[a].body = admin[a].body
         /\ faults' \in 0..MaxFaults
<1>1. PICK rows \in {db, NoRows} :
        /\ IF rows = db THEN UNCHANGED faults ELSE Fault
        /\ admin' = [admin EXCEPT ![a].rows = rows,
                                  ![a].pc = IF @ = "oidc" THEN "oidcCopy" ELSE "vaultCopy"]
  BY Zenon DEF ReadAgain
<1>2. IsTable(rows)
  BY Starting DEF TypeOK
<1>3. faults' \in 0..MaxFaults
  BY <1>1, SettingsAssumption DEF TypeOK, Fault
<1>4. admin'[a] = [pc |-> (IF admin[a].pc = "oidc" THEN "oidcCopy" ELSE "vaultCopy"),
                   body |-> admin[a].body, todo |-> admin[a].todo,
                   rows |-> rows, conf |-> admin[a].conf]
  <2>1. admin'[a] = [admin[a] EXCEPT
                       !.rows = rows, !.pc = IF @ = "oidc" THEN "oidcCopy" ELSE "vaultCopy"]
    BY <1>1 DEF TypeOK
  <2> QED BY <2>1, Zenon DEF TypeOK, IsRequest
<1>5. admin' = [b \in Admins |-> admin'[b]] /\ \A b \in Admins \ {a} : admin'[b] = admin[b]
  BY <1>1 DEF TypeOK
<1>6. IsRequest(admin'[a])
  BY <1>2, <1>4 DEF TypeOK, IsRequest
<1> QED BY <1>3, <1>4, <1>5, <1>6 DEF TypeOK

\* The copy is kept while the issuer is asked.
LEMMA Building ==
  ASSUME TypeOK, NEW a \in Admins, ReinitOIDC(a),
         HandlerOf(ApplyDBSettings(cfg, admin[a].rows)) # NoHandler
  PROVE  /\ admin' = [b \in Admins |-> admin'[b]] /\ \A b \in Admins : IsRequest(admin'[b])
         /\ admin'[a].pc = "discover" /\ admin'[a].body = admin[a].body
         /\ admin'[a].conf = ApplyDBSettings(cfg, admin[a].rows) /\ admin'[a].rows = NoRows
<1>1. IsConfig(ApplyDBSettings(cfg, admin[a].rows))
  BY Merging DEF TypeOK, IsRequest
<1>2. admin' = [admin EXCEPT ![a].conf = ApplyDBSettings(cfg, admin[a].rows),
                              ![a].rows = NoRows, ![a].pc = "discover"]
  BY DEF ReinitOIDC
<1>4. admin'[a] = [pc |-> "discover", body |-> admin[a].body, todo |-> admin[a].todo,
                   rows |-> NoRows, conf |-> ApplyDBSettings(cfg, admin[a].rows)]
  <2>1. admin'[a] = [admin[a] EXCEPT !.conf = ApplyDBSettings(cfg, admin[a].rows),
                                     !.rows = NoRows, !.pc = "discover"]
    BY <1>2 DEF TypeOK
  <2> QED BY <2>1, Zenon DEF TypeOK, IsRequest
<1>5. admin' = [b \in Admins |-> admin'[b]] /\ \A b \in Admins \ {a} : admin'[b] = admin[b]
  BY <1>2, Zenon DEF TypeOK
<1>6. IsRequest(admin'[a])
  BY <1>1, <1>4, Starting DEF TypeOK, IsRequest
<1> QED BY <1>4, <1>5, <1>6 DEF TypeOK

\* main merges the rows it could read into what Load returns.
LEMMA Restarting ==
  ASSUME TypeOK, NEW rows, rows \in {db, NoRows}
  PROVE  /\ IsConfig(StartConfig(rows))
         /\ \A k \in Fields :
              StartConfig(rows)[k] = IF Given(rows, k) THEN rows[k] ELSE Load[k]
<1>1. IsTable(rows) /\ Fields \subseteq Keys
  BY Starting DEF TypeOK, Fields
<1>2. CASE rows = NoRows
  BY <1>1, <1>2, Starting DEF StartConfig
<1>3. CASE rows # NoRows
  BY <1>1, <1>3, Starting, Merging DEF StartConfig
<1> QED BY <1>2, <1>3

\* Every step keeps the types.
LEMMA TypeStep == TypeOK /\ [Next]_vars => TypeOK'
<1> SUFFICES ASSUME TypeOK, [Next]_vars PROVE TypeOK'
  OBVIOUS
<1> USE DEF liveVars
<1>1. ASSUME NEW a \in Admins, NEW u \in Updates, PutSettings(a, u) PROVE TypeOK'
  BY <1>1, Putting, Zenon DEF TypeOK, PutSettings
<1>2. ASSUME NEW a \in Admins, Step(a) PROVE TypeOK'
  <2>1. ASSUME NEW k \in Keys, SetSetting(a, k) PROVE TypeOK'
    BY <2>1, Saving, Zenon DEF TypeOK, SetSetting
  <2>2. CASE SaveFails(a)
    <3>1. faults' \in 0..MaxFaults
      BY <2>2, SettingsAssumption DEF TypeOK, SaveFails, Fault
    <3> QED BY <2>2, <3>1, Returning DEF TypeOK, SaveFails
  <2>3. CASE GetAllSettings(a)
    BY <2>3, Reading, Zenon DEF TypeOK, GetAllSettings
  <2>4. CASE Apply(a)
    <3>1. IsConfig(cfg')
      BY <2>4, Merging DEF Apply, TypeOK, IsRequest
    <3>2. After(a, "apply") \in PCs
      BY Staging DEF PCs
    <3> QED BY <2>4, <3>1, <3>2, Going DEF Apply, TypeOK
  <2>5. CASE ReadAgain(a)
    BY <2>5, Rereading, Zenon DEF TypeOK, ReadAgain
  <2>6. CASE ReinitOIDC(a)
    <3>1. CASE HandlerOf(ApplyDBSettings(cfg, admin[a].rows)) = NoHandler
      <4>1. After(a, "oidc") \in PCs
        BY Staging DEF PCs
      <4> QED BY <2>6, <3>1, <4>1, Going DEF ReinitOIDC, TypeOK
    <3>2. CASE HandlerOf(ApplyDBSettings(cfg, admin[a].rows)) # NoHandler
      BY <2>6, <3>2, Building, Zenon DEF ReinitOIDC, TypeOK
    <3> QED BY <3>1, <3>2
  <2>7. CASE Discover(a)
    <3>1. After(a, "oidc") \in PCs
      BY Staging DEF PCs
    <3> QED BY <2>7, <3>1, Going, Returning DEF Discover, TypeOK
  <2>8. CASE ReinitVault(a)
    <3>1. After(a, "vault") \in PCs
      BY Staging DEF PCs
    <3> QED BY <2>8, <3>1, Going, Returning DEF ReinitVault, TypeOK
  <2>9. CASE UpdateInterval(a)
    <3>1. interval' \in Int
      BY <2>9 DEF UpdateInterval, TypeOK, IsConfig
    <3>2. "answer" \in PCs
      BY DEF PCs
    <3> QED BY <2>9, <3>1, <3>2, Going DEF UpdateInterval, TypeOK
  <2>10. CASE Answer(a)
    <3>1. confirmed' \subseteq Groups
      BY <2>10 DEF Answer, TypeOK, Touched
    <3> QED BY <2>10, <3>1, Returning DEF Answer, TypeOK
  <2> QED BY <1>2, <2>1, <2>2, <2>3, <2>4, <2>5, <2>6, <2>7, <2>8, <2>9, <2>10 DEF Step
<1>3. CASE Restart
  <2>1. PICK rows \in {db, NoRows}, discovered \in BOOLEAN :
          /\ IF rows = db THEN UNCHANGED faults ELSE Fault
          /\ admin' = [a \in Admins |-> Waiting]
          /\ cfg' = StartConfig(rows)
          /\ up' = ~CannotOpen(StartKeyStore(StartConfig(rows)))
          /\ interval' = StartConfig(rows)[Interval]
          /\ alone' = TRUE
          /\ confirmed' = IF rows # db THEN {}
                          ELSE {g \in Groups : /\ g = "oidc" => discovered
                                               /\ g = "vault" => SameKeyStore(StartConfig(rows))}
          /\ UNCHANGED db
    BY <1>3 DEF Restart
  <2>2. IsConfig(cfg') /\ interval' \in Int
    BY <2>1, Restarting DEF IsConfig
  <2>3. faults' \in 0..MaxFaults
    BY <2>1, SettingsAssumption DEF TypeOK, Fault
  <2>4. admin' = [a \in Admins |-> admin'[a]] /\ \A a \in Admins : IsRequest(admin'[a])
    BY <2>1, Starting
  <2>5. up' \in BOOLEAN /\ alone' \in BOOLEAN
    BY <2>1, Zenon
  <2>6. confirmed' \subseteq Groups
    BY <2>1
  <2> QED BY <2>1, <2>2, <2>3, <2>4, <2>5, <2>6 DEF TypeOK
<1>4. CASE UNCHANGED vars
  BY <1>4 DEF TypeOK, vars
<1> QED BY <1>1, <1>2, <1>3, <1>4 DEF Next

\* So does the first start.
LEMMA TypeStart == Init => TypeOK
<1> SUFFICES ASSUME Init PROVE TypeOK
  OBVIOUS
<1>1. up \in BOOLEAN
  BY Zenon DEF Init
<1>2. faults \in 0..MaxFaults
  BY SettingsAssumption DEF Init
<1> QED BY <1>1, <1>2, Starting, EnvironmentValues DEF Init, TypeOK, Groups

\* Tables, configurations and requests keep their types, for every environment and every set
\* of updates, with any number of administrators at a time.
THEOREM TypeCorrect == Spec => []TypeOK
BY TypeStart, TypeStep, PTL DEF Spec

\* A handler exists exactly when issuer and client are set, and depends on nothing else.
LEMMA Handlers ==
  ASSUME NEW c
  PROVE  /\ HandlerOf(c) # NoHandler <=> Configured(c)
         /\ \A d : d[Issuer] = c[Issuer] /\ d[Client] = c[Client]
                 => HandlerOf(d) = HandlerOf(c)
<1>1. \A x, y : <<x, y>> # <<>>
  OBVIOUS
<1> QED BY <1>1 DEF HandlerOf, NoHandler, Configured

\* The fields are the keys other than the backend.
LEMMA FieldNames ==
  /\ Fields \subseteq Keys /\ {Issuer, Client, Address, Token, Interval} \subseteq Fields
  /\ \A k \in Keys : k \in Fields \/ k = Backend
BY DEF Fields, Keys, Issuer, Client, Address, Token, Backend, Interval

\* A step of a request leaves the other requests alone; rows stay in the table, and a field
\* of s.cfg that has a value keeps one.
LEMMA Stepping ==
  ASSUME TypeOK, NEW a \in Admins, Step(a)
  PROVE  /\ alone' = alone /\ ~Idle(a)
         /\ \A b \in Admins \ {a} : admin'[b] = admin[b]
         /\ \A k \in Keys : db[k] # NoRow => db'[k] # NoRow
         /\ \A k \in Fields : cfg[k] # Empty => cfg'[k] # Empty
<1>1. alone' = alone
  BY Zenon DEF Step, SetSetting, SaveFails, GetAllSettings, Apply, ReadAgain, ReinitOIDC, Discover,
         ReinitVault, UpdateInterval, Answer
<1>2. ~Idle(a)
  BY Zenon DEF Step, SetSetting, SaveFails, GetAllSettings, Apply, ReadAgain, ReinitOIDC, Discover,
         ReinitVault, UpdateInterval, Answer, Idle
<1>3. \E r : admin' = [admin EXCEPT ![a] = r]
  BY Zenon DEF Step, SetSetting, SaveFails, GetAllSettings, Apply, ReadAgain, ReinitOIDC, Discover,
         ReinitVault, UpdateInterval, Answer, Goto, Return
<1>4. \A b \in Admins \ {a} : admin'[b] = admin[b]
  BY <1>3, Zenon DEF TypeOK
<1>5. CASE \E k \in Keys : SetSetting(a, k)
  <2>1. PICK k \in Keys : SetSetting(a, k)
    BY <1>5
  <2>2. /\ db' = [db EXCEPT ![k] = admin[a].body[k]] /\ admin[a].body[k] \in Values(k)
        /\ cfg' = cfg
    BY <2>1, Saving, Zenon DEF SetSetting
  <2>3. \A j \in Keys : db[j] # NoRow => db'[j] # NoRow
    BY <2>2, SettingsAssumption DEF TypeOK, IsTable
  <2> QED BY <1>1, <1>2, <1>4, <2>2, <2>3
<1>6. CASE Apply(a)
  <2>1. \A k \in Fields :
          cfg'[k] = IF Given(admin[a].rows, k) THEN admin[a].rows[k] ELSE cfg[k]
    <3>1. IsTable(admin[a].rows) /\ IsConfig(cfg)
      BY DEF TypeOK, IsRequest
    <3>2. cfg' = ApplyDBSettings(cfg, admin[a].rows)
      BY <1>6 DEF Apply
    <3> QED BY <3>1, <3>2, Merging
  <2>2. \A k \in Fields : cfg[k] # Empty => cfg'[k] # Empty
    BY <2>1 DEF Given
  <2>3. db' = db
    BY <1>6 DEF Apply
  <2> QED BY <1>1, <1>2, <1>4, <2>2, <2>3
<1>7. CASE ~Apply(a) /\ ~\E k \in Keys : SetSetting(a, k)
  <2>1. db' = db /\ cfg' = cfg
    BY <1>7, Zenon DEF Step, SaveFails, GetAllSettings, ReadAgain, ReinitOIDC, Discover,
                ReinitVault, UpdateInterval, Answer
  <2> QED BY <1>1, <1>2, <1>4, <2>1
<1> QED BY <1>5, <1>6, <1>7

\* Once s.cfg has caught up, the copy of reinitOIDC and reinitVault agrees with it, whether the
\* second read failed or not.
LEMMA Reapplied ==
  ASSUME TypeOK, Caught(cfg), NEW rows, rows \in {db, NoRows}
  PROVE  \A k \in Fields : ApplyDBSettings(cfg, rows)[k] = cfg[k]
<1>1. IsTable(rows)
  BY Starting DEF TypeOK
<1>2. \A k \in Fields : ApplyDBSettings(cfg, rows)[k] = IF Given(rows, k) THEN rows[k] ELSE cfg[k]
  BY <1>1, Merging DEF TypeOK
<1>3. \A k \in Fields : Given(rows, k) => rows[k] = cfg[k]
  BY Starting, FieldNames DEF Caught
<1> QED BY <1>2, <1>3

\* The copy of reinitOIDC has an issuer and a client only where s.cfg or the table has them.
LEMMA Backing ==
  ASSUME TypeOK, NEW a \in Admins, Held(a), Configured(ApplyDBSettings(cfg, admin[a].rows))
  PROVE  Backed
<1>1. IsTable(admin[a].rows) /\ IsConfig(cfg)
  BY DEF TypeOK, IsRequest
<1>2. PICK c : c = ApplyDBSettings(cfg, admin[a].rows)
  OBVIOUS
<1>3. \A k \in Fields : c[k] = IF Given(admin[a].rows, k) THEN admin[a].rows[k] ELSE cfg[k]
  BY <1>1, <1>2, Merging
<1>4. ASSUME NEW k \in {Issuer, Client}
      PROVE  cfg[k] # Empty \/ (Env[k] = Empty /\ db[k] # NoRow)
  BY <1>2, <1>3, FieldNames DEF Configured, Held, Given
<1> QED BY <1>4 DEF Backed

\* Every step keeps what requests rely on, however many run at a time.
LEMMA ReloadStep ==
  ASSUME Reloads, [Next]_vars
  PROVE  Reloads'
<1> USE DEF liveVars
<1>t. TypeOK /\ TypeOK'
  BY TypeStep DEF Reloads
<1>1. ASSUME NEW a \in Admins, NEW u \in Updates, PutSettings(a, u) PROVE Reloads'
  <2>1. admin'[a].pc = "save" /\ admin'[a].rows = NoRows
    BY <1>1, <1>t, Putting
  <2>2. /\ UNCHANGED <<liveVars, db, cfg>> /\ (alone' <=> \A b \in Admins : Idle(b))
        /\ \A b \in Admins \ {a} : admin'[b] = admin[b]
    BY <1>1, <1>t, Zenon DEF PutSettings, TypeOK
  <2>3. Login' /\ Behind' /\ (Backed => Backed')
    BY <2>2 DEF Reloads, Login, Backed, Behind
  <2>4. Held(a)'
    BY <2>1, <2>2 DEF Held, NoRows
  <2>5. ASSUME NEW b \in Admins \ {a} PROVE Held(b)'
    BY <2>2, <2>3 DEF Reloads, Held, Configured
  <2>6. ASSUME NEW b \in Admins \ {a}, alone' PROVE Idle(b)'
    BY <2>2, <2>6 DEF Idle
  <2>7. Company'
    BY <2>6 DEF Company
  <2>8. ASSUME NEW b \in Admins, alone' PROVE Reload(b)'
    BY <2>1, <2>6, <2>8 DEF Reload, Applied, Idle
  <2> QED BY <1>t, <2>3, <2>4, <2>5, <2>7, <2>8 DEF Reloads
<1>2. ASSUME NEW a \in Admins, Step(a) PROVE Reloads'
  <2>0. Held(a) /\ Login /\ Behind /\ (alone => Reload(a)) /\ Company
    BY DEF Reloads
  <2>s. /\ alone' = alone /\ ~Idle(a)
        /\ \A b \in Admins \ {a} : admin'[b] = admin[b]
        /\ \A k \in Keys : db[k] # NoRow => db'[k] # NoRow
        /\ \A k \in Fields : cfg[k] # Empty => cfg'[k] # Empty
    BY <1>2, <1>t, Stepping
  <2>b. Backed => Backed'
    BY <2>s, FieldNames DEF Backed
  <2>i. ASSUME NEW b \in Admins \ {a}, alone PROVE Idle(b) /\ Idle(b)'
    BY <2>0, <2>s, <2>i DEF Company, Idle
  <2>c. Company'
    BY <2>s, <2>i DEF Company
  <2>o. ASSUME NEW b \in Admins \ {a} PROVE Held(b)' /\ (alone' => Reload(b)')
    <3>1. Held(b)'
      BY <2>s, <2>b DEF Reloads, Held, Configured
    <3>2. alone' => Reload(b)'
      BY <2>s, <2>i DEF Reload, Applied, Idle
    <3> QED BY <3>1, <3>2
  <2> SUFFICES Held(a)' /\ (alone => Reload(a)') /\ Login' /\ Behind'
    BY <2>s, <2>c, <2>o, <1>t DEF Reloads
  <2>l. ASSUME oidc' = oidc PROVE Login'
    BY <2>0, <2>b, <2>l DEF Login
  <2>u. ASSUME db' = db, cfg' = cfg PROVE Behind' /\ (Caught(cfg) => Caught(cfg)')
    BY <2>0, <2>u DEF Behind, Caught, Given
  <2>1. ASSUME NEW k \in Keys, SetSetting(a, k)
        PROVE  Held(a)' /\ (alone => Reload(a)') /\ Login' /\ Behind'
    <3>1. admin'[a].pc \in {"read", "save"} /\ admin'[a].rows = admin[a].rows
      BY <2>1, <1>t, Saving
    <3>2. oidc' = oidc /\ cfg' = cfg
      BY <2>1 DEF SetSetting
    <3>3. Behind'
      BY <2>0, <2>s, <3>2, FieldNames DEF Behind
    <3>4. Held(a)'
      BY <2>0, <2>s, <3>1 DEF Held
    <3> QED BY <2>l, <3>1, <3>2, <3>3, <3>4 DEF Reload, Applied
  <2>2. CASE SaveFails(a)
    <3>1. admin'[a].pc = "idle" /\ admin'[a].rows = NoRows
      BY <2>2, <1>t, Returning DEF SaveFails, Waiting
    <3>2. oidc' = oidc /\ cfg' = cfg /\ db' = db
      BY <2>2 DEF SaveFails
    <3> QED BY <2>l, <2>u, <3>1, <3>2 DEF Held, Reload, Applied, NoRows
  <2>3. CASE GetAllSettings(a)
    <3>1. admin'[a].pc = "apply" /\ admin'[a].rows = db
      BY <2>3, <1>t, Reading
    <3>2. oidc' = oidc /\ cfg' = cfg /\ db' = db
      BY <2>3 DEF GetAllSettings
    <3> QED BY <2>l, <2>u, <3>1, <3>2 DEF Held, Reload, Applied
  <2>4. CASE Apply(a)
    <3>1. admin'[a].pc \in {"oidc", "vault", "interval", "answer"} /\ admin'[a].rows = NoRows
      BY <2>4, <1>t, Going, Staging DEF Apply, PCs
    <3>2. \A k \in Fields :
            cfg'[k] = IF Given(admin[a].rows, k) THEN admin[a].rows[k] ELSE cfg[k]
      <4>1. IsTable(admin[a].rows) /\ IsConfig(cfg)
        BY <1>t DEF TypeOK, IsRequest
      <4>2. cfg' = ApplyDBSettings(cfg, admin[a].rows)
        BY <2>4 DEF Apply
      <4> QED BY <4>1, <4>2, Merging
    <3>3. db' = db /\ oidc' = oidc /\ admin[a].pc = "apply"
      BY <2>4 DEF Apply
    <3>4. Behind'
      BY <2>0, <3>2, <3>3, FieldNames DEF Behind, Given, Held
    <3>5. ASSUME alone PROVE Reload(a)'
      <4>1. admin[a].rows = db
        BY <2>0, <3>3, <3>5 DEF Reload
      <4>2. Caught(cfg)'
        BY <3>2, <3>3, <4>1 DEF Caught, Given
      <4> QED BY <3>1, <4>2 DEF Reload
    <3>6. Held(a)'
      BY <3>1 DEF Held, NoRows
    <3> QED BY <2>l, <3>3, <3>4, <3>5, <3>6
  <2>5. CASE ReadAgain(a)
    <3>1. admin'[a].pc \in {"oidcCopy", "vaultCopy"} /\ admin'[a].rows \in {db, NoRows}
      BY <2>5, <1>t, Rereading
    <3>2. db' = db /\ oidc' = oidc /\ cfg' = cfg /\ admin[a].pc \in Applied
      BY <2>5 DEF ReadAgain, Applied
    <3>3. Held(a)'
      BY <3>1, <3>2 DEF Held, NoRows
    <3>4. alone => Reload(a)'
      BY <2>0, <2>u, <3>1, <3>2 DEF Reload
    <3> QED BY <2>l, <2>u, <3>2, <3>3, <3>4
  <2>6. CASE ReinitOIDC(a)
    <3>1. db' = db /\ cfg' = cfg /\ admin[a].pc = "oidcCopy"
      BY <2>6 DEF ReinitOIDC
    <3>2. PICK c : c = ApplyDBSettings(cfg, admin[a].rows)
      OBVIOUS
    <3>3. HandlerOf(c) # NoHandler <=> Configured(c)
      BY Handlers
    <3>4. alone => Caught(cfg)' /\ c[Issuer] = cfg[Issuer] /\ c[Client] = cfg[Client]
      <4>1. alone => Caught(cfg) /\ admin[a].rows \in {db, NoRows}
        BY <2>0, <3>1 DEF Reload, Applied
      <4> QED BY <2>u, <3>1, <3>2, <4>1, <1>t, Reapplied, FieldNames
    <3>5. CASE HandlerOf(c) = NoHandler
      <4>1. oidc' = NoHandler /\ Goto(a, After(a, "oidc"))
        BY <2>6, <3>2, <3>5 DEF ReinitOIDC, Swap
      <4>2. admin'[a].pc \in {"oidc", "vault", "interval", "answer"} /\ admin'[a].rows = NoRows
        BY <4>1, <1>t, Going, Staging DEF PCs
      <4> QED BY <2>u, <3>1, <3>4, <4>1, <4>2 DEF Held, Reload, Login, NoRows
    <3>6. CASE HandlerOf(c) # NoHandler
      <4>1. admin'[a].pc = "discover" /\ admin'[a].conf = c /\ admin'[a].rows = NoRows
        BY <2>6, <3>2, <3>6, <1>t, Building
      <4>2. oidc' = oidc
        BY <2>6, <3>2, <3>6 DEF ReinitOIDC
      <4>3. Backed'
        BY <2>0, <2>b, <3>2, <3>3, <3>6, <1>t, Backing
      <4>4. Held(a)'
        BY <3>3, <3>6, <4>1, <4>3 DEF Held, Configured, NoRows
      <4>5. alone => Reload(a)'
        BY <3>1, <3>4, <4>1 DEF Reload
      <4> QED BY <2>l, <2>u, <3>1, <4>2, <4>4, <4>5
    <3> QED BY <3>5, <3>6
  <2>7. CASE Discover(a)
    <3>1. db' = db /\ cfg' = cfg /\ admin[a].pc = "discover" /\ Backed
      BY <2>0, <2>7 DEF Discover, Held
    <3>2. /\ admin'[a].pc \in {"idle", "oidc", "vault", "interval", "answer"}
          /\ admin'[a].rows = NoRows
      BY <2>7, <1>t, Going, Returning, Staging DEF Discover, PCs, Waiting
    <3>3. alone => Reload(a)'
      BY <2>0, <2>u, <3>1, <3>2 DEF Reload, Applied
    <3> QED BY <2>b, <2>u, <3>1, <3>2, <3>3 DEF Held, Login, NoRows
  <2>8. CASE ReinitVault(a)
    <3>1. db' = db /\ cfg' = cfg /\ oidc' = oidc /\ admin[a].pc = "vaultCopy"
      BY <2>8, Zenon DEF ReinitVault
    <3>2. /\ admin'[a].pc \in {"idle", "oidc", "vault", "interval", "answer"}
          /\ admin'[a].rows = NoRows
      BY <2>8, <1>t, Going, Returning, Staging DEF ReinitVault, PCs, Waiting
    <3>3. alone => Reload(a)'
      BY <2>0, <2>u, <3>1, <3>2 DEF Reload, Applied
    <3> QED BY <2>l, <2>u, <3>1, <3>2, <3>3 DEF Held, NoRows
  <2>9. CASE UpdateInterval(a)
    <3>1. db' = db /\ cfg' = cfg /\ oidc' = oidc /\ admin[a].pc = "interval"
      BY <2>9 DEF UpdateInterval
    <3>2. admin'[a].pc = "answer" /\ admin'[a].rows = NoRows
      BY <2>9, <1>t, Going DEF UpdateInterval, PCs
    <3>3. alone => Reload(a)'
      BY <2>0, <2>u, <3>1, <3>2 DEF Reload, Applied
    <3> QED BY <2>l, <2>u, <3>1, <3>2, <3>3 DEF Held, NoRows
  <2>10. CASE Answer(a)
    <3>1. admin'[a].pc = "idle" /\ admin'[a].rows = NoRows
      BY <2>10, <1>t, Returning DEF Answer, Waiting
    <3>2. oidc' = oidc /\ cfg' = cfg /\ db' = db
      BY <2>10 DEF Answer
    <3> QED BY <2>l, <2>u, <3>1, <3>2 DEF Held, Reload, Applied, NoRows
  <2> QED BY <1>2, <2>1, <2>2, <2>3, <2>4, <2>5, <2>6, <2>7, <2>8, <2>9, <2>10 DEF Step
<1>3. CASE Restart
  <2>1. PICK rows \in {db, NoRows}, discovered \in BOOLEAN :
          /\ admin' = [a \in Admins |-> Waiting]
          /\ cfg' = StartConfig(rows)
          /\ oidc' = IF discovered THEN HandlerOf(StartConfig(rows)) ELSE NoHandler
          /\ UNCHANGED db
    BY <1>3 DEF Restart
  <2>2. \A a \in Admins : admin'[a].pc = "idle" /\ admin'[a].rows = NoRows
    BY <2>1 DEF Waiting
  <2>3. Login'
    BY <2>1, Handlers DEF Login, Backed, Configured
  <2>4. Behind'
    <3>1. \A k \in Fields : cfg'[k] = IF Given(rows, k) THEN rows[k] ELSE Load[k]
      BY <2>1, <1>t, Restarting
    <3>2. \A k \in Keys : db[k] = NoRow => rows[k] = NoRow
      BY DEF NoRows
    <3> QED BY <2>1, <3>1, <3>2, FieldNames DEF Behind, Given
  <2>5. \A a \in Admins : Held(a)' /\ Reload(a)' /\ Idle(a)'
    BY <2>2 DEF Held, Reload, Applied, Idle, NoRows
  <2> QED BY <1>t, <2>3, <2>4, <2>5 DEF Reloads, Company
<1>4. CASE UNCHANGED vars
  BY <1>4, <1>t, Zenon DEF Reloads, Held, Reload, Login, Behind, Backed, Company, Idle, Configured,
                    Caught, Given, vars
<1> QED BY <1>1, <1>2, <1>3, <1>4 DEF Next

\* Nobody is saving when the process starts.
LEMMA ReloadStart == Init => Reloads
<1> SUFFICES ASSUME Init PROVE Reloads
  OBVIOUS
<1>1. Login
  BY Handlers DEF Init, Login, Backed, Configured
<1>2. \A a \in Admins : admin[a].pc = "idle" /\ admin[a].rows = NoRows
  BY DEF Init, Waiting
<1>3. \A a \in Admins : Held(a) /\ Reload(a) /\ Idle(a)
  BY <1>2 DEF Held, Reload, Applied, Idle, NoRows
<1> QED BY <1>1, <1>3, TypeStart, Zenon DEF Reloads, Company, Behind, Init

\* Without company no step of an update takes the OIDC login away, unless a row of it was
\* cleared: for every environment, every set of updates and any number of administrators,
\* with any failed statement or discovery, and also for a login that overlapping requests set
\* up (settings.go:59, 242-255).
THEOREM LoginStays == Spec => LoginIsKept
<1>1. Reloads /\ [Next]_vars => Reloads'
  BY ReloadStep
<1>2. Reloads /\ Reloads' /\ [Next]_vars
        => [(IsConfigured /\ alone /\ ~Cleared("oidc") /\ \E a \in Admins : Step(a)) =>
              IsConfigured']_vars
  <2> SUFFICES ASSUME Reloads, alone, ~Cleared("oidc"), NEW a \in Admins, Step(a), IsConfigured
               PROVE  IsConfigured'
    OBVIOUS
  <2>0. Backed /\ Held(a) /\ Reload(a) /\ TypeOK
    BY DEF Reloads, Login, IsConfigured
  <2>1. CASE ReinitOIDC(a)
    <3>1. Caught(cfg) /\ admin[a].rows \in {db, NoRows}
      BY <2>0, <2>1 DEF ReinitOIDC, Reload, Applied
    <3>2. PICK c : c = ApplyDBSettings(cfg, admin[a].rows)
      OBVIOUS
    <3>3. c[Issuer] = cfg[Issuer] /\ c[Client] = cfg[Client]
      BY <2>0, <3>1, <3>2, Reapplied, FieldNames
    <3>4. ASSUME NEW k \in {Issuer, Client} PROVE cfg[k] # Empty
      <4>1. k \in Fields /\ k \in Keys /\ Group(k) = "oidc"
        BY FieldNames DEF Group
      <4>2. Env[k] = Empty => db[k] \notin {Empty, NotANumber}
        BY <4>1 DEF Cleared
      <4> QED BY <2>0, <3>1, <4>1, <4>2 DEF Backed, Caught, Given
    <3>5. HandlerOf(c) # NoHandler
      BY <3>3, <3>4, Handlers DEF Configured
    <3> QED BY <2>1, <3>2, <3>5 DEF ReinitOIDC, IsConfigured
  <2>2. CASE Discover(a)
    <3>1. HandlerOf(admin[a].conf) # NoHandler
      BY <2>0, <2>2, Handlers, Zenon DEF Discover, Held
    <3> QED BY <2>2, <3>1 DEF Discover, IsConfigured, Swap
  <2>3. CASE ~ReinitOIDC(a) /\ ~Discover(a)
    BY <2>3, Zenon DEF Step, IsConfigured, liveVars, SetSetting, SaveFails, GetAllSettings,
                       Apply, ReadAgain, ReinitVault, UpdateInterval, Answer
  <2> QED BY <2>1, <2>2, <2>3
<1> QED BY <1>1, <1>2, ReloadStart, PTL DEF Spec, LoginIsKept

\* A configuration that has caught up has the values in use, but for rows that count for
\* nothing.
LEMMA Effective ==
  ASSUME TypeOK, Behind, Caught(cfg)
  PROVE  /\ ~Cleared("oidc") => HandlerOf(cfg) = HandlerOf(InUse)
         /\ ~Cleared("vault") => ReinitKeyStore(cfg) = ReinitKeyStore(InUse)
         /\ ~Cleared("interval") => cfg[Interval] = InUse[Interval]
<1>1. ASSUME NEW k \in Fields, ~Cleared(Group(k)) PROVE cfg[k] = InUse[k]
  <2>1. CASE Given(db, k)
    BY <2>1, FieldNames DEF Caught, InUse
  <2>2. CASE ~Given(db, k)
    <3>1. Env[k] # Empty \/ db[k] = NoRow
      BY <1>1, <2>2, FieldNames DEF Given, Cleared
    <3> QED BY <2>2, <3>1, FieldNames DEF Behind, InUse
  <2> QED BY <2>1, <2>2
<1>2. /\ Group(Issuer) = "oidc" /\ Group(Client) = "oidc" /\ Group(Address) = "vault"
      /\ Group(Token) = "vault" /\ Group(Interval) = "interval"
  BY DEF Group, Issuer, Client, Address, Token, Interval
<1>3. ~Cleared("oidc") => cfg[Issuer] = InUse[Issuer] /\ cfg[Client] = InUse[Client]
  BY <1>1, <1>2, FieldNames
<1>4. ~Cleared("vault") => cfg[Address] = InUse[Address] /\ cfg[Token] = InUse[Token]
  BY <1>1, <1>2, FieldNames
<1>5. ~Cleared("interval") => cfg[Interval] = InUse[Interval]
  BY <1>1, <1>2, FieldNames
<1> QED BY <1>3, <1>4, <1>5 DEF HandlerOf, ReinitKeyStore, Vault

\* main reads the values in use back (main.go:103-109).
LEMMA ReadBack ==
  ASSUME TypeOK
  PROVE  /\ \A k \in Fields : StartConfig(db)[k] = InUse[k]
         /\ HandlerOf(StartConfig(db)) = HandlerOf(InUse)
         /\ ReinitKeyStore(StartConfig(db)) = ReinitKeyStore(InUse)
<1>1. \A k \in Fields : StartConfig(db)[k] = InUse[k]
  BY Restarting, FieldNames DEF InUse
<1> QED BY <1>1, FieldNames DEF HandlerOf, ReinitKeyStore, Vault

\* main and reinitVault choose the same key store when nothing names a backend and the table
\* has a row (main.go:107-132, settings.go:262-281).
LEMMA BackendFollows ==
  ASSUME TypeOK, db # NoRows, ~Given(db, Backend), Env[Backend] # "vault"
  PROVE  StartKeyStore(StartConfig(db)) = ReinitKeyStore(StartConfig(db))
<1>1. Load[Backend] # "vault"
  BY EnvironmentValues DEF Default, Keys, Backend
<1>2. StartConfig(db) = ApplyDBSettings(Load, db)
  BY DEF StartConfig
<1>3. PICK m : m = [k \in Keys |-> IF Given(db, k) THEN db[k] ELSE Load[k]]
  BY Zenon
<1>4. m[Backend] = Load[Backend] /\ Backend \in DOMAIN m
  BY <1>3 DEF Keys
<1>5. StartConfig(db) = IF m[Address] # Empty /\ m[Token] # Empty
                        THEN [m EXCEPT ![Backend] = "vault"] ELSE m
  BY <1>2, <1>3 DEF ApplyDBSettings
<1>6. Address # Backend /\ Token # Backend
  BY DEF Address, Token, Backend
<1>7. CASE m[Address] # Empty /\ m[Token] # Empty
  <2>1. StartConfig(db) = [m EXCEPT ![Backend] = "vault"]
    BY <1>5, <1>7
  <2>2. /\ StartConfig(db)[Backend] = "vault" /\ StartConfig(db)[Address] = m[Address]
        /\ StartConfig(db)[Token] = m[Token]
    BY <1>3, <1>4, <1>6, <2>1, FieldNames
  <2> QED BY <1>7, <2>2 DEF StartKeyStore, ReinitKeyStore
<1>8. CASE ~(m[Address] # Empty /\ m[Token] # Empty)
  <2>1. StartConfig(db) = m
    BY <1>5, <1>8
  <2> QED BY <1>1, <1>4, <1>8, <2>1 DEF StartKeyStore, ReinitKeyStore
<1> QED BY <1>7, <1>8

\* A group stays in force while the table and its own component do not change.
LEMMA StillInForce ==
  ASSUME db' = db
  PROVE  /\ oidc' = oidc => (InForce("oidc") => InForce("oidc")')
         /\ ks' = ks => (InForce("vault") => InForce("vault")')
         /\ interval' = interval => (InForce("interval") => InForce("interval")')
         /\ UNCHANGED liveVars => \A g : InForce(g) => InForce(g)'
         /\ InUse' = InUse /\ \A g : Cleared(g)' <=> Cleared(g)
<1>1. InUse' = InUse
  BY DEF InUse, Given
<1>2. \A g : Cleared(g)' <=> Cleared(g)
  BY DEF Cleared
<1>3. HandlerOf(InUse)' = HandlerOf(InUse) /\ ReinitKeyStore(InUse)' = ReinitKeyStore(InUse)
  BY <1>1 DEF HandlerOf, ReinitKeyStore, Vault, Local
<1> QED BY <1>1, <1>2, <1>3 DEF InForce, Follows, liveVars

\* A statement of another group leaves a group in force.
LEMMA OtherGroup ==
  ASSUME TypeOK, NEW k \in Keys, \A j \in Keys \ {k} : db'[j] = db[j], UNCHANGED liveVars,
         NEW g \in Groups, g # Group(k), InForce(g)
  PROVE  InForce(g)'
<1>1. \A j \in Keys : Group(j) = g => j # k /\ db'[j] = db[j]
  OBVIOUS
<1>2. \A j \in Keys : Group(j) = g => InUse'[j] = InUse[j]
  BY <1>1 DEF InUse, Given
<1>3. Cleared(g)' <=> Cleared(g)
  BY <1>1 DEF Cleared
<1>4. /\ Group(Issuer) = "oidc" /\ Group(Client) = "oidc" /\ Group(Address) = "vault"
      /\ Group(Token) = "vault" /\ Group(Interval) = "interval"
  BY DEF Group, Issuer, Client, Address, Token, Interval
<1>5. CASE g = "oidc"
  <2>1. InUse'[Issuer] = InUse[Issuer] /\ InUse'[Client] = InUse[Client]
    BY <1>2, <1>4, <1>5, FieldNames
  <2>2. HandlerOf(InUse)' = HandlerOf(InUse)
    BY <2>1 DEF HandlerOf
  <2> QED BY <1>3, <1>5, <2>2 DEF InForce, Follows, liveVars
<1>6. CASE g = "vault"
  <2>1. InUse'[Address] = InUse[Address] /\ InUse'[Token] = InUse[Token]
    BY <1>2, <1>4, <1>6, FieldNames
  <2>2. ReinitKeyStore(InUse)' = ReinitKeyStore(InUse)
    BY <2>1 DEF ReinitKeyStore, Vault, Local
  <2> QED BY <1>3, <1>6, <2>2 DEF InForce, Follows, liveVars
<1>7. CASE g = "interval"
  <2>1. InUse'[Interval] = InUse[Interval]
    BY <1>2, <1>4, <1>7, FieldNames
  <2> QED BY <1>3, <1>7, <2>1 DEF InForce, Follows, liveVars
<1> QED BY <1>5, <1>6, <1>7 DEF Groups

\* Every step keeps what was confirmed in force.
LEMMA ConfirmationStep ==
  ASSUME Reloads, Reloads', Confirmations, [Next]_vars
  PROVE  Confirmations'
<1> USE DEF liveVars
<1>t. TypeOK /\ TypeOK'
  BY DEF Reloads
<1>1. ASSUME NEW a \in Admins, NEW u \in Updates, PutSettings(a, u) PROVE Confirmations'
  <2>1. admin'[a].pc = "save" /\ admin'[a].body = u /\ admin'[a].todo = DOMAIN u
    BY <1>1, <1>t, Putting
  <2>2. /\ UNCHANGED <<liveVars, db, cfg, confirmed>> /\ (alone' <=> \A b \in Admins : Idle(b))
        /\ \A b \in Admins \ {a} : admin'[b] = admin[b]
    BY <1>1, <1>t, Zenon DEF PutSettings, TypeOK
  <2>3. Request(a)' /\ Passed(a)'
    BY <2>1 DEF Request, Passed, Saved, Applied
  <2>4. ASSUME NEW b \in Admins \ {a} PROVE Request(b)'
    BY <2>2, Zenon DEF Confirmations, Request, Touched
  <2>5. ASSUME NEW b \in Admins \ {a}, alone' PROVE Passed(b)'
    BY <2>2, <2>5, Zenon DEF Idle, Passed
  <2>6. \A g \in confirmed' : InForce(g)'
    BY <2>2, StillInForce, Zenon DEF Confirmations
  <2>7. (db = NoRows /\ "vault" \in confirmed => SameKeyStore(Load))'
    BY <2>2, Zenon DEF Confirmations
  <2> QED BY <2>3, <2>4, <2>5, <2>6, <2>7 DEF Confirmations
<1>2. ASSUME NEW a \in Admins, Step(a) PROVE Confirmations'
  <2>0. /\ Held(a) /\ Behind /\ Company /\ (alone => Reload(a))
        /\ Request(a) /\ (alone => Passed(a)) /\ \A g \in confirmed : InForce(g)
        /\ db = NoRows /\ "vault" \in confirmed => SameKeyStore(Load)
    BY DEF Reloads, Confirmations
  <2>s. /\ alone' = alone /\ ~Idle(a)
        /\ \A b \in Admins \ {a} : admin'[b] = admin[b]
        /\ \A k \in Keys : db[k] # NoRow => db'[k] # NoRow
    BY <1>2, <1>t, Stepping
  <2>n. db # NoRows => db' # NoRows
    <3>1. CASE db' = NoRows
      <4>1. \A k \in Keys : db[k] = NoRow
        BY <2>s, <3>1 DEF NoRows
      <4> QED BY <4>1, <1>t DEF TypeOK, IsTable, NoRows
    <3> QED BY <3>1
  <2>i. ASSUME NEW b \in Admins \ {a}, alone PROVE Idle(b) /\ Idle(b)'
    BY <2>0, <2>s, <2>i DEF Company, Idle
  <2>p. ASSUME NEW b \in Admins \ {a}, alone' PROVE Passed(b)'
    BY <2>s, <2>i, <2>p DEF Idle, Passed
  <2>r. ASSUME NEW b \in Admins \ {a}, confirmed' \subseteq confirmed \/ alone PROVE Request(b)'
    <3>1. CASE alone
      BY <2>i, <3>1 DEF Idle, Request, Saved, Applied
    <3>2. CASE confirmed' \subseteq confirmed
      BY <2>s, <2>n, <3>2 DEF Confirmations, Request, Touched
    <3> QED BY <2>r, <3>1, <3>2
  <2> SUFFICES /\ confirmed' \subseteq confirmed \/ alone
               /\ Request(a)' /\ (alone => Passed(a)') /\ \A g \in confirmed' : InForce(g)'
               /\ db' = NoRows /\ "vault" \in confirmed' => SameKeyStore(Load)
    <3>1. (db = NoRows /\ "vault" \in confirmed => SameKeyStore(Load))'
      OBVIOUS
    <3> QED BY <2>s, <2>p, <2>r, <3>1 DEF Confirmations
  <2>f. ASSUME UNCHANGED <<db, confirmed>>
        PROVE  /\ confirmed' \subseteq confirmed
               /\ db' = NoRows /\ "vault" \in confirmed' => SameKeyStore(Load)
    BY <2>0, <2>f
  <2>u. ASSUME UNCHANGED <<liveVars, db>> PROVE \A g : InForce(g) => InForce(g)'
    BY <2>u, StillInForce
  <2>1. ASSUME NEW k \in Keys, SetSetting(a, k)
        PROVE  /\ confirmed' \subseteq confirmed
               /\ Request(a)' /\ (alone => Passed(a)') /\ \A g \in confirmed' : InForce(g)'
               /\ db' = NoRows /\ "vault" \in confirmed' => SameKeyStore(Load)
    <3>1. /\ admin'[a].pc = (IF admin[a].todo \ {k} = {} THEN "read" ELSE "save")
          /\ admin'[a].body = admin[a].body /\ admin'[a].todo = admin[a].todo \ {k}
          /\ db' = [db EXCEPT ![k] = admin[a].body[k]] /\ admin[a].body[k] \in Values(k)
      BY <2>1, <1>t, Saving
    <3>2. /\ UNCHANGED liveVars /\ confirmed' = confirmed \ {Group(k)}
          /\ admin[a].pc = "save"
      BY <2>1 DEF SetSetting
    <3>3. db'[k] # NoRow /\ \A j \in Keys \ {k} : db'[j] = db[j]
      BY <3>1, <1>t, SettingsAssumption DEF TypeOK, IsTable
    <3>4. db' # NoRows
      BY <3>3 DEF NoRows
    <3>5. \A j \in DOMAIN admin[a].body \ admin'[a].todo : Group(j) \notin confirmed'
      BY <2>0, <3>1, <3>2, Zenon DEF Request
    <3>6. Request(a)'
      <4>1. CASE admin[a].todo \ {k} = {}
        BY <3>1, <3>4, <3>5, <4>1 DEF Request, Saved, Applied, Touched
      <4>2. CASE admin[a].todo \ {k} # {}
        BY <3>1, <3>5, <4>2 DEF Request, Saved, Applied
      <4> QED BY <4>1, <4>2
    <3>7. Passed(a)'
      BY <3>1 DEF Passed
    <3>8. ASSUME NEW g \in confirmed' PROVE InForce(g)'
      <4>1. InForce(g) /\ g # Group(k) /\ g \in Groups
        BY <2>0, <3>2, <1>t DEF TypeOK
      <4> QED BY <3>2, <3>3, <4>1, <1>t, OtherGroup
    <3> QED BY <3>2, <3>4, <3>6, <3>7, <3>8
  <2>2. CASE SaveFails(a)
    <3>1. UNCHANGED <<liveVars, db, confirmed>> /\ admin'[a].pc = "idle"
      BY <2>2, <1>t, Returning DEF SaveFails
    <3>2. Request(a)' /\ Passed(a)'
      BY <3>1 DEF Request, Passed, Saved, Applied
    <3> QED BY <2>0, <2>f, <2>u, <3>1, <3>2, Zenon
  <2>3. CASE GetAllSettings(a)
    <3>1. /\ UNCHANGED <<liveVars, db, confirmed>> /\ admin[a].pc = "read"
          /\ admin'[a].pc = "apply" /\ admin'[a].body = admin[a].body
      BY <2>3, <1>t, Reading, Zenon DEF GetAllSettings
    <3>2. Request(a)' /\ Passed(a)'
      BY <2>0, <3>1 DEF Request, Passed, Saved, Applied, Touched
    <3> QED BY <2>0, <2>f, <2>u, <3>1, <3>2, Zenon
  <2>4. CASE Apply(a)
    <3>1. /\ UNCHANGED <<liveVars, db, confirmed>> /\ admin[a].pc = "apply"
          /\ admin'[a].pc = After(a, "apply") /\ admin'[a].body = admin[a].body
      BY <2>4, <1>t, Going, Staging DEF Apply, PCs
    <3>2. /\ Touched(a)' = Touched(a) /\ Touched(a) \cap confirmed' = {} /\ db' # NoRows
      BY <2>0, <3>1 DEF Request, Touched, Saved
    <3>3. Request(a)' /\ Passed(a)'
      BY <3>1, <3>2 DEF Request, Passed, Saved, Applied, After, Touched
    <3> QED BY <2>0, <2>f, <2>u, <3>1, <3>3
  <2>5. CASE ReadAgain(a)
    <3>1. /\ UNCHANGED <<liveVars, db, confirmed>> /\ admin[a].pc \in {"oidc", "vault"}
          /\ admin'[a].pc = (IF admin[a].pc = "oidc" THEN "oidcCopy" ELSE "vaultCopy")
          /\ admin'[a].body = admin[a].body
      BY <2>5, <1>t, Rereading, Zenon DEF ReadAgain
    <3>2. Touched(a)' = Touched(a)
      BY <3>1 DEF Touched
    <3>3. Request(a)'
      BY <2>0, <3>1, <3>2, Zenon DEF Request, Saved, Applied
    <3>4. alone => Passed(a)'
      BY <2>0, <2>u, <3>1, <3>2, Zenon DEF Passed
    <3> QED BY <2>0, <2>f, <2>u, <3>1, <3>3, <3>4, Zenon
  <2>6. CASE ReinitOIDC(a)
    <3>1. UNCHANGED <<ks, interval, db, confirmed>> /\ admin[a].pc = "oidcCopy"
      BY <2>6 DEF ReinitOIDC
    <3>2. PICK c : c = ApplyDBSettings(cfg, admin[a].rows)
      OBVIOUS
    <3>3. alone /\ ~Cleared("oidc") => HandlerOf(c) = HandlerOf(InUse)
      <4>1. alone => Caught(cfg) /\ admin[a].rows \in {db, NoRows}
        BY <2>0, <3>1 DEF Reload, Applied
      <4>2. alone => c[Issuer] = cfg[Issuer] /\ c[Client] = cfg[Client]
        BY <3>2, <4>1, <1>t, Reapplied, FieldNames
      <4>3. alone => HandlerOf(c) = HandlerOf(cfg)
        BY <4>2 DEF HandlerOf
      <4> QED BY <4>1, <4>3, <2>0, <1>t, Effective
    <3>4. /\ "oidc" \in Touched(a) /\ "oidc" \notin confirmed /\ Touched(a) \cap confirmed = {}
          /\ db # NoRows
      BY <2>0, <3>1 DEF Request, Saved, Applied
    <3>5. \A g \in confirmed' : InForce(g)'
      BY <2>0, <3>1, <3>4, <1>t, StillInForce DEF TypeOK, Groups
    <3>6. CASE HandlerOf(c) = NoHandler
      <4>1. oidc' = HandlerOf(c) /\ Goto(a, After(a, "oidc"))
        BY <2>6, <3>2, <3>6 DEF ReinitOIDC, Swap
      <4>2. admin'[a].pc = After(a, "oidc") /\ admin'[a].body = admin[a].body
        BY <4>1, <1>t, Going, Staging DEF PCs
      <4>3. Touched(a)' = Touched(a)
        BY <4>2 DEF Touched
      <4>4. alone => InForce("oidc")'
        BY <3>1, <3>3, <4>1, StillInForce, Zenon DEF InForce, Follows, HandlerOf
      <4>5. Request(a)'
        BY <3>1, <3>4, <4>2, <4>3, Zenon DEF Request, Saved, Applied, After
      <4>6. alone => Passed(a)'
        BY <4>2, <4>3, <4>4, Zenon DEF Passed, After
      <4> QED BY <2>f, <3>1, <3>5, <4>5, <4>6
    <3>7. CASE HandlerOf(c) # NoHandler
      <4>1. admin'[a].pc = "discover" /\ admin'[a].body = admin[a].body
        BY <2>6, <3>2, <3>7, <1>t, Building
      <4>2. Request(a)' /\ Passed(a)'
        BY <3>1, <3>4, <4>1 DEF Request, Passed, Saved, Applied, Touched
      <4> QED BY <2>f, <3>1, <3>5, <4>2
    <3> QED BY <3>6, <3>7
  <2>7. CASE Discover(a)
    <3>1. UNCHANGED <<ks, interval, db, confirmed>> /\ admin[a].pc = "discover"
      BY <2>7, Zenon DEF Discover
    <3>2. /\ "oidc" \in Touched(a) /\ "oidc" \notin confirmed /\ Touched(a) \cap confirmed = {}
          /\ db # NoRows
      BY <2>0, <3>1 DEF Request, Saved, Applied
    <3>3. \A g \in confirmed' : InForce(g)'
      BY <2>0, <3>1, <3>2, <1>t, StillInForce DEF TypeOK, Groups
    <3>4. CASE Swap(HandlerOf(admin[a].conf)) /\ Goto(a, After(a, "oidc"))
      <4>1. alone /\ ~Cleared("oidc") => HandlerOf(admin[a].conf) = HandlerOf(InUse)
        <5>1. alone => Caught(cfg) /\ HandlerOf(admin[a].conf) = HandlerOf(cfg)
          BY <2>0, <3>1, Zenon DEF HandlerOf, Reload, Applied
        <5> QED BY <5>1, <2>0, <1>t, Effective, Zenon
      <4>2. admin'[a].pc = After(a, "oidc") /\ admin'[a].body = admin[a].body
        BY <3>4, <1>t, Going, Staging DEF PCs
      <4>3. Touched(a)' = Touched(a)
        BY <4>2 DEF Touched
      <4>4. alone => InForce("oidc")'
        BY <3>1, <3>4, <4>1, StillInForce, Zenon DEF InForce, Follows, HandlerOf, Swap
      <4>5. Request(a)'
        BY <3>1, <3>2, <4>2, <4>3, Zenon DEF Request, Saved, Applied, After
      <4>6. alone => Passed(a)'
        BY <4>2, <4>3, <4>4 DEF Passed, After
      <4> QED BY <2>f, <3>1, <3>3, <4>5, <4>6
    <3>5. CASE Return(a)
      <4>1. Request(a)' /\ Passed(a)'
        BY <3>5, <1>t, Returning DEF Request, Passed, Saved, Applied
      <4> QED BY <2>f, <3>1, <3>3, <4>1
    <3> QED BY <2>7, <3>4, <3>5, Zenon DEF Discover
  <2>8. CASE ReinitVault(a)
    <3>1. UNCHANGED <<oidc, interval, db, confirmed>> /\ admin[a].pc = "vaultCopy"
      BY <2>8 DEF ReinitVault
    <3>2. /\ "vault" \in Touched(a) /\ "vault" \notin confirmed /\ Touched(a) \cap confirmed = {}
          /\ db # NoRows
      BY <2>0, <3>1 DEF Request, Saved, Applied
    <3>3. \A g \in confirmed' : InForce(g)'
      BY <2>0, <3>1, <3>2, <1>t, StillInForce DEF TypeOK, Groups
    <3>4. PICK store : store = ReinitKeyStore(ApplyDBSettings(cfg, admin[a].rows))
      OBVIOUS
    <3>5. CASE CannotOpen(store)
      <4>1. Return(a)
        BY <2>8, <3>4, <3>5, Zenon DEF ReinitVault
      <4>2. Request(a)' /\ Passed(a)'
        BY <4>1, <1>t, Returning DEF Request, Passed, Saved, Applied
      <4> QED BY <2>f, <3>1, <3>3, <4>2
    <3>6. CASE ~CannotOpen(store)
      <4>1. ks' = store /\ Goto(a, After(a, "vault"))
        BY <2>8, <3>4, <3>6 DEF ReinitVault
      <4>2. alone /\ ~Cleared("vault") => store = ReinitKeyStore(InUse)
        <5>1. PICK c : c = ApplyDBSettings(cfg, admin[a].rows)
          OBVIOUS
        <5>2. alone => Caught(cfg) /\ admin[a].rows \in {db, NoRows}
          BY <2>0, <3>1 DEF Reload, Applied
        <5>3. alone => c[Address] = cfg[Address] /\ c[Token] = cfg[Token]
          BY <5>1, <5>2, <1>t, Reapplied, FieldNames, Zenon
        <5>4. alone => store = ReinitKeyStore(cfg)
          BY <3>4, <5>1, <5>3 DEF ReinitKeyStore, Vault
        <5> QED BY <5>2, <5>4, <2>0, <1>t, Effective
      <4>3. admin'[a].pc = After(a, "vault") /\ admin'[a].body = admin[a].body
        BY <4>1, <1>t, Going, Staging DEF PCs
      <4>4. Touched(a)' = Touched(a)
        BY <4>3 DEF Touched
      <4>5. alone => InForce("vault")'
        BY <3>1, <4>1, <4>2, StillInForce, Zenon DEF InForce, Follows, ReinitKeyStore, Vault, Local
      <4>6. alone /\ "oidc" \in Touched(a) => InForce("oidc")'
        BY <2>0, <3>1, StillInForce, Zenon DEF Passed
      <4>7. Request(a)'
        BY <3>1, <3>2, <4>3, <4>4, Zenon DEF Request, Saved, Applied, After
      <4>8. alone => Passed(a)'
        BY <4>3, <4>4, <4>5, <4>6 DEF Passed, After
      <4> QED BY <2>f, <3>1, <3>3, <4>7, <4>8
    <3> QED BY <3>5, <3>6
  <2>9. CASE UpdateInterval(a)
    <3>1. /\ UNCHANGED <<oidc, ks, db, confirmed>> /\ admin[a].pc = "interval"
          /\ interval' = IF interval > 0 /\ cfg[Interval] > 0 THEN cfg[Interval] ELSE interval
          /\ Goto(a, "answer")
      BY <2>9, Zenon DEF UpdateInterval
    <3>2. /\ "interval" \in Touched(a) /\ "interval" \notin confirmed
          /\ Touched(a) \cap confirmed = {} /\ db # NoRows
      BY <2>0, <3>1 DEF Request, Saved, Applied
    <3>3. \A g \in confirmed' : InForce(g)'
      BY <2>0, <3>1, <3>2, <1>t, StillInForce DEF TypeOK, Groups
    <3>4. alone => InForce("interval")'
      <4>1. alone /\ ~Cleared("interval") => cfg[Interval] = InUse[Interval]
        BY <2>0, <3>1, <1>t, Effective, Zenon DEF Reload, Applied
      <4>2. interval \in Int /\ cfg[Interval] \in Int
        BY <1>t DEF TypeOK, IsConfig
      <4> QED BY <3>1, <4>1, <4>2, StillInForce, Zenon DEF InForce, Follows
    <3>5. admin'[a].pc = "answer" /\ admin'[a].body = admin[a].body
      BY <3>1, <1>t, Going DEF PCs
    <3>6. Touched(a)' = Touched(a)
      BY <3>5 DEF Touched
    <3>7. alone => /\ "oidc" \in Touched(a) => InForce("oidc")'
                   /\ "vault" \in Touched(a) => InForce("vault")'
      BY <2>0, <3>1, StillInForce, Zenon DEF Passed
    <3>8. Request(a)'
      BY <3>1, <3>2, <3>5, <3>6 DEF Request, Saved, Applied
    <3>9. alone => Passed(a)'
      BY <3>4, <3>5, <3>6, <3>7 DEF Passed
    <3> QED BY <2>f, <3>1, <3>3, <3>8, <3>9
  <2>10. CASE Answer(a)
    <3>1. /\ UNCHANGED <<liveVars, db>> /\ admin[a].pc = "answer" /\ admin'[a].pc = "idle"
          /\ confirmed' = IF alone THEN confirmed \cup Touched(a) ELSE confirmed
      BY <2>10, <1>t, Returning DEF Answer
    <3>2. Request(a)' /\ Passed(a)'
      BY <3>1 DEF Request, Passed, Saved, Applied
    <3>3. alone => \A g \in Touched(a) : InForce(g)
      BY <2>0, <3>1 DEF Passed, Touched, Groups
    <3>4. db' # NoRows
      BY <2>0, <3>1 DEF Request, Saved, Applied
    <3>5. \A g \in confirmed' : InForce(g)'
      BY <2>0, <2>u, <3>1, <3>3, Zenon
    <3> QED BY <3>1, <3>2, <3>4, <3>5
  <2> QED BY <1>2, <2>1, <2>2, <2>3, <2>4, <2>5, <2>6, <2>7, <2>8, <2>9, <2>10 DEF Step
<1>3. CASE Restart
  <2>1. PICK rows \in {db, NoRows}, discovered \in BOOLEAN :
          /\ admin' = [a \in Admins |-> Waiting]
          /\ ks' = StartKeyStore(StartConfig(rows))
          /\ interval' = StartConfig(rows)[Interval]
          /\ oidc' = IF discovered THEN HandlerOf(StartConfig(rows)) ELSE NoHandler
          /\ confirmed' = IF rows # db THEN {}
                          ELSE {g \in Groups : /\ g = "oidc" => discovered
                                               /\ g = "vault" => SameKeyStore(StartConfig(rows))}
          /\ UNCHANGED db
    BY <1>3 DEF Restart
  <2>2. \A a \in Admins : admin'[a].pc = "idle"
    BY <2>1 DEF Waiting
  <2>3. \A a \in Admins : Request(a)' /\ Passed(a)'
    BY <2>2 DEF Request, Passed, Saved, Applied
  <2>4. ASSUME NEW g \in confirmed' PROVE InForce(g)'
    <3>1. /\ rows = db /\ g \in Groups /\ (g = "oidc" => discovered)
          /\ (g = "vault" => SameKeyStore(StartConfig(db)))
      BY <2>1, <2>4
    <3>2. InUse' = InUse
      BY <2>1, StillInForce
    <3>3. /\ HandlerOf(StartConfig(db)) = HandlerOf(InUse)
          /\ ReinitKeyStore(StartConfig(db)) = ReinitKeyStore(InUse)
          /\ StartConfig(db)[Interval] = InUse[Interval]
      BY <1>t, ReadBack, FieldNames
    <3>4. HandlerOf(InUse)' = HandlerOf(InUse) /\ ReinitKeyStore(InUse)' = ReinitKeyStore(InUse)
      BY <3>2 DEF HandlerOf, ReinitKeyStore, Vault, Local
    <3> QED BY <2>1, <3>1, <3>2, <3>3, <3>4 DEF InForce, Follows, SameKeyStore
  <2>5. (db = NoRows /\ "vault" \in confirmed => SameKeyStore(Load))'
    BY <2>1 DEF StartConfig
  <2> QED BY <2>3, <2>4, <2>5 DEF Confirmations
<1>4. CASE UNCHANGED vars
  <2>1. UNCHANGED <<liveVars, db, cfg, confirmed, admin, alone>>
    BY <1>4 DEF vars
  <2>2. \A g : InForce(g) => InForce(g)'
    BY <2>1, StillInForce
  <2>3. \A a \in Admins : Request(a)' /\ (alone' => Passed(a)')
    BY <2>1, <2>2, Zenon DEF Confirmations, Request, Passed, Touched
  <2> QED BY <2>1, <2>2, <2>3 DEF Confirmations
<1> QED BY <1>1, <1>2, <1>3, <1>4 DEF Next

\* What the first start read is in force.
LEMMA ConfirmationStart == Init => Confirmations
<1> SUFFICES ASSUME Init PROVE Confirmations
  OBVIOUS
<1>1. \A k \in Keys : InUse[k] = Load[k]
  BY Starting, Zenon DEF Init, InUse
<1>2. \A a \in Admins : admin[a].pc = "idle"
  BY DEF Init, Waiting
<1>3. \A a \in Admins : Request(a) /\ Passed(a)
  BY <1>2 DEF Request, Passed, Saved, Applied
<1>4. HandlerOf(Load) = HandlerOf(InUse) /\ ReinitKeyStore(Load) = ReinitKeyStore(InUse)
  BY <1>1, FieldNames DEF HandlerOf, ReinitKeyStore, Vault
<1>5. \A g \in confirmed : InForce(g)
  BY <1>1, <1>4, FieldNames DEF Init, InForce, Follows, SameKeyStore
<1>6. "vault" \in confirmed => SameKeyStore(Load)
  BY DEF Init
<1> QED BY <1>3, <1>5, <1>6 DEF Confirmations

\* The settings page shows the values in use (config.go:67-101).
LEMMA Displayed ==
  ASSUME TypeOK
  PROVE  \A k \in Fields : (k = Interval => NotANumber # Env[k] /\ ~Cleared("interval")) =>
           ResolveSettings(db)[k] = InUse[k]
<1> SUFFICES ASSUME NEW k \in Fields, k = Interval => NotANumber # Env[k] /\ ~Cleared("interval")
             PROVE  ResolveSettings(db)[k] = InUse[k]
  OBVIOUS
<1>1. k \in Keys /\ NotANumber # Env[k]
  BY FieldNames, SettingsAssumption
<1>2. Env[k] = Empty => db[k] # NotANumber \/ db[k] = NoRow
  <2>1. CASE k = Interval
    BY <1>1, <2>1 DEF Cleared, Group, Issuer, Client, Address, Token, Interval
  <2>2. CASE k # Interval
    BY <1>1, <2>2, EnvironmentValues DEF TypeOK, IsTable
  <2> QED BY <2>1, <2>2
<1>3. ResolveSettings(db)[k] = IF Env[k] # Empty THEN Env[k]
                               ELSE IF db[k] \notin {NoRow, Empty} THEN db[k] ELSE Default(k)
  BY <1>1 DEF ResolveSettings
<1>4. InUse[k] = IF Given(db, k) THEN db[k] ELSE Load[k]
  BY <1>1 DEF InUse
<1> QED BY <1>1, <1>2, <1>3, <1>4, EnvironmentValues DEF Given

\* What an administrator was told is saved is in force, is what a restart reads back and what
\* the settings page shows, but for what ConfirmedIsInForce itself names: for every
\* environment, every set of updates and any number of administrators at a time, through
\* failed statements, failed discoveries, early returns and restarts (settings.go:46-97,
\* main.go:103-159).
THEOREM ConfirmedStays == Spec => []ConfirmedIsInForce
<1>1. Init => Reloads /\ Confirmations
  BY ReloadStart, ConfirmationStart
<1>2. Reloads /\ Confirmations /\ [Next]_vars => Reloads' /\ Confirmations'
  BY ReloadStep, ConfirmationStep
<1>3. Reloads /\ Confirmations => ConfirmedIsInForce
  <2> SUFFICES ASSUME TypeOK, Confirmations PROVE ConfirmedIsInForce
    BY DEF Reloads
  <2>0. \A g \in confirmed : ~Cleared(g) => Follows(g)
    BY DEF Confirmations, InForce
  <2>1. /\ HandlerOf(StartConfig(db)) = HandlerOf(InUse)
        /\ ReinitKeyStore(StartConfig(db)) = ReinitKeyStore(InUse)
        /\ StartConfig(db)[Interval] = InUse[Interval]
    BY ReadBack, FieldNames
  <2>2. \A k \in {Issuer, Client, Address, Token} : ResolveSettings(db)[k] = InUse[k]
    BY Displayed, FieldNames DEF Issuer, Client, Address, Token, Interval
  <2>3. /\ HandlerOf(ResolveSettings(db)) = HandlerOf(InUse)
        /\ ReinitKeyStore(ResolveSettings(db)) = ReinitKeyStore(InUse)
    BY <2>2 DEF HandlerOf, ReinitKeyStore, Vault
  <2>4. ~Cleared("interval") /\ Env[Interval] # NotANumber =>
          ResolveSettings(db)[Interval] = InUse[Interval]
    BY Displayed, FieldNames
  <2>5. "vault" \in confirmed /\ ~Given(db, Backend) /\ Env[Backend] # "vault" =>
          StartKeyStore(StartConfig(db)) = ReinitKeyStore(StartConfig(db))
    <3>1. CASE db = NoRows
      BY <3>1 DEF Confirmations, SameKeyStore, StartConfig
    <3>2. CASE db # NoRows
      BY <3>2, BackendFollows
    <3> QED BY <3>1, <3>2
  <2>6. "oidc" \in confirmed /\ ~Cleared("oidc") => oidc = HandlerOf(InUse)
    BY <2>0 DEF Follows
  <2>7. "vault" \in confirmed /\ ~Cleared("vault") => ks = ReinitKeyStore(InUse)
    BY <2>0 DEF Follows
  <2>8. ("interval" \in confirmed /\ ~Cleared("interval") /\ interval > 0 /\ InUse[Interval] > 0)
          => interval = InUse[Interval]
    BY <2>0 DEF Follows
  <2> QED BY <2>1, <2>3, <2>4, <2>5, <2>6, <2>7, <2>8, Zenon DEF ConfirmedIsInForce
<1> QED BY <1>1, <1>2, <1>3, PTL DEF Spec
-----------------------------------------------------------------------------
CONSTANTS
  Uploads, Updaters, Intervals, MaxSessions, MaxUpdates, PollAtStart, NoServer, NoInterval

VARIABLES
  host, tmux, sessions, gauge, pc, todo, snap, cur, result, stopCh, intervalCh, ticker,
  upload, update, updates

Poller == INSTANCE SessionPoller

\* Writing a status keeps the shape of the table and never touches the row of a deleted
\* server: UPDATE ... WHERE id (servers.go:98).
LEMMA StatusWrite ==
  ASSUME row \in [Servers -> Poller!Status \cup {"none", "deleted"}],
         NEW s \in Servers, NEW status \in Poller!Status, Poller!UpdateServerStatus(s, status)
  PROVE  /\ row' \in [Servers -> Poller!Status \cup {"none", "deleted"}]
         /\ \A t \in Servers : row[t] = "deleted" => row'[t] = "deleted"
BY DEF Poller!UpdateServerStatus, Poller!Status

\* The same of Exec, which writes the status of a mismatch (pool.go:70).
LEMMA ExecWrite ==
  ASSUME row \in [Servers -> Poller!Status \cup {"none", "deleted"}],
         NEW s \in Servers, Poller!Exec(s)
  PROVE  /\ row' \in [Servers -> Poller!Status \cup {"none", "deleted"}]
         /\ \A t \in Servers : row[t] = "deleted" => row'[t] = "deleted"
<1>1. CASE host[s] = "mismatch"
  BY <1>1, StatusWrite DEF Poller!Exec, Poller!Status
<1>2. CASE host[s] # "mismatch"
  BY <1>2 DEF Poller!Exec
<1> QED BY <1>1, <1>2

\* Variables keep their types through every step of the poller, the handlers and the hosts.
THEOREM PollerTypeCorrect ==
  ASSUME Poller!PollerAssumption PROVE Poller!Spec => []Poller!TypeOK
<1>1. Poller!Init => Poller!TypeOK
  <2> SUFFICES ASSUME Poller!Init PROVE Poller!TypeOK
    OBVIOUS
  <2>1. upload \in [Uploads -> [srv: Servers \cup {NoServer}, ok: BOOLEAN]]
    BY DEF Poller!Init, Poller!NoUpload
  <2>2. update \in [Updaters -> [pc: {"idle", "drain", "send"}, d: Intervals \cup {NoInterval}]]
    BY DEF Poller!Init, Poller!NoUpdate
  <2>3. pc \in {"off", "pollAll"} /\ stopCh \in BOOLEAN
    BY Zenon DEF Poller!Init
  <2>4. /\ tmux \in [Servers -> Poller!Counts] /\ sessions \in [Servers -> Poller!Counts]
        /\ gauge \in [Servers -> Poller!Counts \cup {Poller!NoLabel}]
        /\ updates \in 0..MaxUpdates
    BY DEF Poller!PollerAssumption, Poller!Init, Poller!Counts
  <2>5. /\ row \in [Servers -> Poller!Status \cup {"none", "deleted"}]
        /\ host \in [Servers -> Poller!Hosts]
        /\ todo \subseteq Servers /\ snap \in [Servers -> Poller!Status \cup {"none", "deleted"}]
        /\ cur \in Servers \cup {NoServer} /\ result \in Poller!Counts \cup Poller!Errors
        /\ intervalCh \in Intervals \cup {NoInterval} /\ ticker \in Intervals
    BY DEF Poller!Init, Poller!Errors
  <2> QED BY <2>1, <2>2, <2>3, <2>4, <2>5 DEF Poller!TypeOK
<1>2. Poller!TypeOK /\ [Poller!Next]_Poller!vars => Poller!TypeOK'
  <2> SUFFICES ASSUME Poller!TypeOK, [Poller!Next]_Poller!vars PROVE Poller!TypeOK'
    OBVIOUS
  <2> USE DEF Poller!TypeOK, Poller!dataVars, Poller!pollVars, Poller!intervalVars
  <2>1. CASE UNCHANGED Poller!vars
    BY <2>1 DEF Poller!vars
  <2>2. CASE Poller!PollAll
    BY <2>2 DEF Poller!PollAll, Poller!Rows
  <2>3. CASE Poller!PollDone
    BY <2>3 DEF Poller!PollDone, Poller!Errors
  <2>17. ASSUME NEW s \in Servers, Poller!PollServer(s) PROVE Poller!TypeOK'
    BY <2>17 DEF Poller!PollServer
  <2>4. CASE Poller!ListSessions
    <3>1. row' \in [Servers -> Poller!Status \cup {"none", "deleted"}]
      BY <2>4, ExecWrite DEF Poller!ListSessions
    <3>2. result' \in Poller!Counts \cup Poller!Errors
      BY <2>4 DEF Poller!ListSessions, Poller!Errors
    <3> QED BY <2>4, <3>1, <3>2 DEF Poller!ListSessions
  <2>5. CASE Poller!WriteStatus
    <3>1. row' \in [Servers -> Poller!Status \cup {"none", "deleted"}]
      BY <2>5, StatusWrite DEF Poller!WriteStatus, Poller!Status
    <3> QED BY <2>5, <3>1 DEF Poller!WriteStatus
  <2>6. CASE Poller!WriteSessions
    <3>1. 0 \in Poller!Counts
      BY DEF Poller!PollerAssumption, Poller!Counts
    <3>2. /\ sessions' \in [Servers -> Poller!Counts]
          /\ gauge' \in [Servers -> Poller!Counts \cup {Poller!NoLabel}]
      BY <2>6, <3>1 DEF Poller!WriteSessions
    <3> QED BY <2>6, <3>2 DEF Poller!WriteSessions
  <2>7. CASE Poller!Tick \/ Poller!Quit
    BY <2>7 DEF Poller!Tick, Poller!Quit
  <2>8. CASE Poller!ResetTicker
    BY <2>8 DEF Poller!ResetTicker
  <2>9. CASE Poller!Stop
    BY <2>9 DEF Poller!Stop
  <2>10. ASSUME NEW c \in Updaters, NEW d \in Intervals, Poller!UpdateInterval(c, d)
      PROVE Poller!TypeOK'
    <3>1. updates' \in 0..MaxUpdates
      BY <2>10 DEF Poller!PollerAssumption, Poller!UpdateInterval
    <3>2. update' \in [Updaters -> [pc: {"idle", "drain", "send"}, d: Intervals \cup {NoInterval}]]
      BY <2>10 DEF Poller!UpdateInterval
    <3> QED BY <2>10, <3>1, <3>2 DEF Poller!UpdateInterval
  <2>11. ASSUME NEW c \in Updaters, Poller!UpdateStep(c) PROVE Poller!TypeOK'
    <3>1. CASE Poller!Drain(c)
      <4>1. update' \in [Updaters -> [pc: {"idle", "drain", "send"}, d: Intervals \cup {NoInterval}]]
        BY <3>1 DEF Poller!Drain
      <4> QED BY <3>1, <4>1 DEF Poller!Drain
    <3>2. CASE Poller!Send(c)
      <4>1. update' \in [Updaters -> [pc: {"idle", "drain", "send"}, d: Intervals \cup {NoInterval}]]
        BY <3>2 DEF Poller!Send, Poller!NoUpdate
      <4>2. intervalCh' \in Intervals \cup {NoInterval}
        BY <3>2 DEF Poller!Send
      <4> QED BY <3>2, <4>1, <4>2 DEF Poller!Send
    <3> QED BY <2>11, <3>1, <3>2 DEF Poller!UpdateStep
  <2>12. ASSUME NEW h \in Uploads, NEW s \in Servers, Poller!UploadKey(h, s)
      PROVE Poller!TypeOK'
    <3>1. row' \in [Servers -> Poller!Status \cup {"none", "deleted"}]
      BY <2>12, ExecWrite DEF Poller!UploadKey
    <3>2. Poller!ExecSucceeds(s) \in BOOLEAN
      BY DEF Poller!ExecSucceeds
    <3>3. upload' \in [Uploads -> [srv: Servers \cup {NoServer}, ok: BOOLEAN]]
      BY <2>12, <3>2 DEF Poller!UploadKey
    <3> QED BY <2>12, <3>1, <3>3 DEF Poller!UploadKey
  <2>13. ASSUME NEW h \in Uploads, Poller!UploadStatus(h) PROVE Poller!TypeOK'
    <3>1. row' \in [Servers -> Poller!Status \cup {"none", "deleted"}]
      BY <2>13, Zenon DEF Poller!UploadStatus, Poller!UpdateServerStatus, Poller!Status
    <3>2. upload' \in [Uploads -> [srv: Servers \cup {NoServer}, ok: BOOLEAN]]
      BY <2>13 DEF Poller!UploadStatus, Poller!NoUpload
    <3> QED BY <2>13, <3>1, <3>2 DEF Poller!UploadStatus
  <2>14. ASSUME NEW s \in Servers, Poller!CreateServer(s) \/ Poller!DeleteServer(s)
         PROVE  Poller!TypeOK'
    BY <2>14 DEF Poller!CreateServer, Poller!DeleteServer, Poller!Status
  <2>15. ASSUME NEW s \in Servers, Poller!CreateSession(s) \/ Poller!KillSession(s)
         PROVE  Poller!TypeOK'
    <3>1. row' \in [Servers -> Poller!Status \cup {"none", "deleted"}]
      BY <2>15, ExecWrite DEF Poller!CreateSession, Poller!KillSession
    <3>2. tmux' \in [Servers -> Poller!Counts]
      <4>1. CASE Poller!CreateSession(s)
        BY <4>1 DEF Poller!PollerAssumption, Poller!CreateSession, Poller!Counts
      <4>2. CASE Poller!KillSession(s)
        BY <4>2 DEF Poller!PollerAssumption, Poller!KillSession, Poller!Counts
      <4> QED BY <2>15, <4>1, <4>2
    <3> QED BY <2>15, <3>1, <3>2 DEF Poller!CreateSession, Poller!KillSession
  <2>16. ASSUME NEW s \in Servers, NEW h \in Poller!Hosts, Poller!HostChanges(s, h)
      PROVE Poller!TypeOK'
    BY <2>16 DEF Poller!HostChanges
  <2> QED
    BY <2>1, <2>2, <2>3, <2>4, <2>5, <2>6, <2>7, <2>8, <2>9, <2>10, <2>11, <2>12, <2>13, <2>14,
       <2>15, <2>16, <2>17, Zenon DEF Poller!Next, Poller!Poller, Poller!Handlers, Poller!Environment
<1> QED BY <1>1, <1>2, PTL DEF Poller!Spec

\* Deletion is final, whoever still holds the id: no step of the poller, of a handler or of
\* a host turns a deleted row into a live one (manager.go:176, 185; server.go:502, 510).
THEOREM DeletionIsFinal ==
  ASSUME Poller!PollerAssumption PROVE Poller!Spec => DeletedStaysDeleted
<1> DEFINE Final == \A s \in Servers : row[s] = "deleted" => row'[s] = "deleted"
<1>1. Poller!TypeOK /\ [Poller!Next]_Poller!vars => Final
  <2> SUFFICES ASSUME Poller!TypeOK, [Poller!Next]_Poller!vars PROVE Final
    OBVIOUS
  <2>1. CASE UNCHANGED row
    BY <2>1
  <2>2. ASSUME NEW s \in Servers, Poller!Exec(s) PROVE Final
    BY <2>2, ExecWrite DEF Poller!TypeOK
  <2>3. CASE Poller!WriteStatus
    BY <2>3, StatusWrite DEF Poller!WriteStatus, Poller!Status, Poller!TypeOK
  <2>4. ASSUME NEW h \in Uploads, Poller!UploadStatus(h) PROVE Final
    BY <2>4 DEF Poller!UploadStatus, Poller!UpdateServerStatus, Poller!Status, Poller!TypeOK
  <2>5. ASSUME NEW s \in Servers, Poller!CreateServer(s) \/ Poller!DeleteServer(s) PROVE Final
    BY <2>5 DEF Poller!CreateServer, Poller!DeleteServer, Poller!TypeOK
  <2>6. \/ UNCHANGED row \/ Poller!WriteStatus
        \/ \E s \in Servers : Poller!Exec(s) \/ Poller!CreateServer(s) \/ Poller!DeleteServer(s)
        \/ \E h \in Uploads : Poller!UploadStatus(h)
    <3>0. CASE Poller!ListSessions
      <4>1. cur \in Servers /\ Poller!Exec(cur)
        BY <3>0 DEF Poller!ListSessions, Poller!TypeOK
      <4> QED BY <4>1
    <3>1. CASE Poller!Poller \/ UNCHANGED Poller!vars
      BY <3>0, <3>1 DEF Poller!Poller, Poller!vars, Poller!PollAll, Poller!PollDone,
                        Poller!PollServer, Poller!WriteSessions
    <3>2. CASE Poller!Tick \/ Poller!ResetTicker \/ Poller!Quit \/ Poller!Environment
      BY <3>2 DEF Poller!Tick, Poller!ResetTicker, Poller!Quit, Poller!Environment,
                  Poller!Stop, Poller!HostChanges
    <3>3. CASE Poller!Handlers
      BY <3>3 DEF Poller!Handlers, Poller!UpdateInterval, Poller!UpdateStep, Poller!Drain,
                  Poller!Send, Poller!UploadKey, Poller!CreateSession, Poller!KillSession
    <3> QED BY <3>1, <3>2, <3>3 DEF Poller!Next
  <2> QED BY <2>1, <2>2, <2>3, <2>4, <2>5, <2>6
<1>2. Poller!TypeOK /\ [Poller!Next]_Poller!vars => [Final]_row
  BY <1>1
<1> QED BY <1>2, PollerTypeCorrect, PTL DEF Poller!Spec, DeletedStaysDeleted
=============================================================================
