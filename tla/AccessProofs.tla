----------------------------- MODULE AccessProofs -----------------------------
(***************************************************************************)
(* Proofs about what a user is let in by and opens: accounts and sessions, *)
(* for every number of browsers, concurrent requests, names and accounts,  *)
(* and one terminal, the steps of which are instantiated as Term.          *)
(***************************************************************************)
EXTENDS Accounts, TerminalState, TLAPS

\* What a request in progress has read stays true of the past: ids are never reused.
Justified(q, h) ==
  /\ q.pc = "login" => <<q.id, q.role>> \in h
  /\ q.pc = "upsert" /\ q.id # 0 => \E role \in Roles : <<q.id, role>> \in h
  /\ q.pc = "delete" => q.caller # q.id

Past ==
  /\ \A i \in Ids, role \in Roles : <<i, role>> \in held => i < nextId
  /\ \A u \in users : <<u.id, u.role>> \in held
  /\ \A b \in Browsers : session[b].id = 0 => session[b].role = "user"
  /\ \A r \in Requests : Justified(req[r], held)

IInv == TypeOK /\ Past /\ RoleWasHeld /\ AccountsRemain

\* The first step of a handler only records what it has read.
LEMMA BeginKeeps ==
  ASSUME IInv, NEW r \in Requests, NEW q \in Request, Justified(q, held), Begin(r, q)
  PROVE  IInv'
<1>1. /\ req' = [req EXCEPT ![r] = q]
      /\ UNCHANGED <<users, nextId, session, csrf, held, orphaned>>
  BY DEF Begin
<1>2. TypeOK'
  BY <1>1 DEF IInv, TypeOK
<1>3. \A x \in Requests : Justified(req'[x], held')
  BY <1>1 DEF IInv, TypeOK, Past
<1>4. Past'
  BY <1>1, <1>3 DEF IInv, Past
<1>5. RoleWasHeld' /\ AccountsRemain'
  BY <1>1 DEF IInv, RoleWasHeld, AccountsRemain
<1> QED BY <1>2, <1>4, <1>5 DEF IInv

\* A request that is done justifies nothing, and the others stay justified when held grows.
LEMMA ReturnKeeps ==
  ASSUME TypeOK, Past, NEW r \in Requests, Return(r), held \subseteq held'
  PROVE  /\ req' \in [Requests -> Request]
         /\ \A x \in Requests : Justified(req'[x], held')
<1>1. req' \in [Requests -> Request]
  BY DEF TypeOK, Return, Request
<1>2. ASSUME NEW x \in Requests PROVE Justified(req'[x], held')
  <2>1. CASE x = r
    BY <2>1 DEF TypeOK, Return, Justified, Idle
  <2>2. CASE x # r
    <3>1. req'[x] = req[x] /\ Justified(req[x], held)
      BY <2>2 DEF TypeOK, Return, Past
    <3> QED BY <3>1 DEF Justified
  <2> QED BY <2>1, <2>2
<1> QED BY <1>1, <1>2

\* The row of an INSERT has a new id, so no session and no request is about it yet.
LEMMA InsertKeeps ==
  ASSUME IInv, NEW r \in Requests, req[r].b \in Browsers,
         NEW name \in Names, NEW role \in Roles, NEW sub \in Subjects \cup {NoSubject},
         InsertUser(r, name, role, sub)
  PROVE  IInv'
<1> USE DEF IInv
<1>1. Return(r) /\ UNCHANGED orphaned
  BY DEF InsertUser
<1>2. CASE UNCHANGED <<users, held, nextId, session, csrf>>
  <2>1. TypeOK'
    BY <1>1, <1>2, ReturnKeeps DEF TypeOK
  <2>2. Past'
    BY <1>1, <1>2, ReturnKeeps DEF Past
  <2> QED BY <1>1, <1>2, <2>1, <2>2 DEF RoleWasHeld, AccountsRemain
<1>3. CASE /\ nextId \in Ids
           /\ users' = users \cup {[id |-> nextId, name |-> name, role |-> role, sub |-> sub]}
           /\ held' = held \cup {<<nextId, role>>}
           /\ nextId' = nextId + 1
           /\ SetCookies(req[r].b, nextId, role)
  <2>1. /\ req' \in [Requests -> Request]
        /\ \A x \in Requests : Justified(req'[x], held')
    BY <1>1, <1>3, ReturnKeeps
  <2>2. /\ nextId \in Ids /\ nextId \in Nat /\ nextId # 0 /\ nextId' \in 1..MaxIds + 1
    BY <1>3, AccountsAssumption DEF TypeOK, Ids
  <2>3. session' = [session EXCEPT ![req[r].b] = [id |-> nextId, role |-> role]]
    BY <1>3 DEF SetCookies
  <2>4. /\ users' \in SUBSET User
        /\ held' \subseteq Ids \X Roles
        /\ csrf' \subseteq Browsers
    BY <1>3, <2>2 DEF TypeOK, User, SetCookies
  <2>5. session' \in [Browsers -> Claims]
    BY <2>2, <2>3 DEF TypeOK, Claims, Ids
  <2>6. TypeOK'
    BY <1>1, <2>1, <2>2, <2>4, <2>5 DEF TypeOK
  <2>7. Past'
    <3>1. ASSUME NEW i \in Ids, NEW ro \in Roles, <<i, ro>> \in held' PROVE i < nextId'
      <4>1. <<i, ro>> \in held \/ i = nextId
        BY <3>1, <1>3
      <4> QED BY <4>1, <2>2, <1>3 DEF Past, Ids
    <3>2. ASSUME NEW u \in users' PROVE <<u.id, u.role>> \in held'
      <4>1. CASE u \in users
        BY <4>1, <1>3 DEF Past
      <4>2. CASE u = [id |-> nextId, name |-> name, role |-> role, sub |-> sub]
        BY <4>2, <1>3
      <4> QED BY <4>1, <4>2, <1>3
    <3>3. \A b \in Browsers : session'[b].id = 0 => session'[b].role = "user"
      BY <2>2, <2>3 DEF Past, TypeOK
    <3> QED BY <2>1, <3>1, <3>2, <3>3 DEF Past
  <2>8. RoleWasHeld'
    <3> SUFFICES ASSUME NEW b \in Browsers, session'[b].id # 0
                 PROVE  /\ \E ro \in Roles : <<session'[b].id, ro>> \in held'
                        /\ (\E u \in users' : u.id = session'[b].id) =>
                               <<session'[b].id, session'[b].role>> \in held'
      BY DEF RoleWasHeld
    <3>1. CASE b = req[r].b
      BY <3>1, <2>3, <1>3 DEF TypeOK
    <3>2. CASE b # req[r].b
      <4>1. session'[b] = session[b] /\ session[b] \in Claims
        BY <3>2, <2>3 DEF TypeOK
      <4>2. PICK ro \in Roles : <<session[b].id, ro>> \in held
        BY <4>1 DEF RoleWasHeld
      <4>3. session[b].id \in Ids /\ session[b].id < nextId
        BY <4>2 DEF TypeOK, Past
      <4>4. session[b].id # nextId
        BY <4>3, <2>2 DEF Ids
      <4> QED BY <4>1, <4>2, <4>4, <1>3 DEF RoleWasHeld
    <3> QED BY <3>1, <3>2
  <2>9. AccountsRemain'
    BY <1>3 DEF AccountsRemain
  <2> QED BY <2>6, <2>7, <2>8, <2>9
<1> QED BY <1>2, <1>3 DEF InsertUser

\* A deletion by a caller who still has an account leaves that account.
LEMMA DeleteKeeps ==
  ASSUME IInv, NEW r \in Requests, DeleteUser(r)
  PROVE  IInv'
<1> USE DEF IInv
<1>1. /\ req[r].pc = "delete" /\ Return(r)
      /\ users' = {u \in users : u.id # req[r].id}
      /\ UNCHANGED <<nextId, session, csrf, held>>
  BY DEF DeleteUser
<1>2. orphaned' = (orphaned \/ (users' # users /\ \A u \in users : u.id # req[r].caller))
  BY DEF DeleteUser
<1>3. req' \in [Requests -> Request] /\ \A x \in Requests : Justified(req'[x], held')
  BY <1>1, ReturnKeeps
<1>4. orphaned' \in BOOLEAN
  BY <1>2, Zenon
<1>5. TypeOK'
  BY <1>1, <1>3, <1>4 DEF TypeOK
<1>6. Past'
  BY <1>1, <1>3 DEF Past
<1>7. RoleWasHeld'
  BY <1>1 DEF RoleWasHeld
<1>8. req[r].caller # req[r].id
  BY <1>1 DEF Past, Justified
<1>9. ASSUME users' = {} PROVE \A u \in users : u.id # req[r].caller
  BY <1>1, <1>8, <1>9
<1>10. AccountsRemain'
  <2>1. CASE users' = users
    BY <1>1, <1>2, <2>1, Zenon DEF AccountsRemain
  <2>2. CASE users' # users
    BY <1>2, <1>9, <2>2, Zenon DEF AccountsRemain
  <2> QED BY <2>1, <2>2
<1> QED BY <1>5, <1>6, <1>7, <1>10

\* A role that UpdateOIDCUser puts into a token is in the row too, if there is a row.
LEMMA UpdateKeeps ==
  ASSUME IInv, NEW r \in Requests, UpdateOIDCUser(r)
  PROVE  IInv'
<1> DEFINE q == req[r]
<1> USE DEF IInv
<1>1. /\ q.pc = "upsert" /\ q.id # 0 /\ Return(r) /\ UNCHANGED <<nextId, orphaned>>
  BY DEF UpdateOIDCUser
<1>2. q \in [pc : {"upsert"}, b : Browsers, id : 0..MaxIds, name : Names, role : Roles, sub : Subjects]
  BY <1>1 DEF TypeOK, Request, Idle
<1>3. PICK ro \in Roles : <<q.id, ro>> \in held
  BY <1>1 DEF Past, Justified
<1> HIDE DEF q
<1>4. CASE UNCHANGED <<users, held, session, csrf>>
  <2>1. TypeOK'
    BY <1>1, <1>4, ReturnKeeps DEF TypeOK
  <2>2. Past'
    BY <1>1, <1>4, ReturnKeeps DEF Past
  <2> QED BY <1>1, <1>4, <2>1, <2>2 DEF RoleWasHeld, AccountsRemain
<1>5. CASE /\ users' = {IF u.id = q.id THEN Updated(u, q) ELSE u : u \in users}
           /\ held' = held \cup {<<u.id, u.role>> : u \in users'}
           /\ SetCookies(q.b, q.id, q.role)
  <2>1. req' \in [Requests -> Request] /\ \A x \in Requests : Justified(req'[x], held')
    BY <1>1, <1>5, ReturnKeeps
  <2>2. \A u \in users : /\ Updated(u, q) \in User
                         /\ Updated(u, q).id = u.id /\ Updated(u, q).role = q.role
    BY <1>2 DEF TypeOK, User, Updated
  <2>3. /\ users' \in SUBSET User
        /\ \A u \in users' : \E v \in users : u.id = v.id /\ (u.id = q.id => u.role = q.role)
    BY <1>5, <2>2 DEF TypeOK
  <2>4. held' \subseteq Ids \X Roles /\ csrf' \subseteq Browsers
    BY <1>2, <1>5, <2>3 DEF TypeOK, User, SetCookies
  <2>5. /\ session' = [session EXCEPT ![q.b] = [id |-> q.id, role |-> q.role]]
        /\ session' \in [Browsers -> Claims]
    BY <1>2, <1>5 DEF TypeOK, Claims, SetCookies
  <2>6. TypeOK'
    BY <1>1, <2>1, <2>3, <2>4, <2>5 DEF TypeOK
  <2>7. Past'
    <3>1. ASSUME NEW i \in Ids, NEW x \in Roles, <<i, x>> \in held' PROVE i < nextId'
      <4>1. <<i, x>> \in held \/ \E v \in users : i = v.id
        BY <1>5, <2>3, <3>1
      <4>2. \A v \in users : v.id \in Ids /\ v.role \in Roles /\ <<v.id, v.role>> \in held
        BY DEF Past, TypeOK, User
      <4> QED BY <1>1, <4>1, <4>2 DEF Past
    <3>2. \A u \in users' : <<u.id, u.role>> \in held'
      BY <1>5
    <3>3. \A b \in Browsers : session'[b].id = 0 => session'[b].role = "user"
      BY <1>1, <2>5 DEF Past, TypeOK, q
    <3> QED BY <2>1, <3>1, <3>2, <3>3 DEF Past
  <2>8. RoleWasHeld'
    <3> SUFFICES ASSUME NEW b \in Browsers, session'[b].id # 0
                 PROVE  /\ \E x \in Roles : <<session'[b].id, x>> \in held'
                        /\ (\E u \in users' : u.id = session'[b].id) =>
                               <<session'[b].id, session'[b].role>> \in held'
      BY DEF RoleWasHeld
    <3>1. CASE b = q.b
      <4>1. session'[b].id = q.id /\ session'[b].role = q.role
        BY <3>1, <2>5 DEF TypeOK
      <4>2. \A u \in users' : u.id = q.id => <<q.id, q.role>> \in held'
        BY <1>5, <2>3
      <4> QED BY <4>1, <4>2, <1>3, <1>5
    <3>2. CASE b # q.b
      <4>1. session'[b] = session[b]
        BY <3>2, <2>5 DEF TypeOK
      <4>2. (\E u \in users' : u.id = session[b].id) => \E u \in users : u.id = session[b].id
        BY <2>3
      <4> QED BY <4>1, <4>2, <1>5 DEF RoleWasHeld
    <3> QED BY <3>1, <3>2
  <2>9. AccountsRemain'
    BY <1>1, <1>5 DEF AccountsRemain
  <2> QED BY <2>6, <2>7, <2>8, <2>9
<1> QED BY <1>4, <1>5 DEF UpdateOIDCUser, q

LEMMA CookiesKeep ==
  ASSUME IInv, NEW b \in Browsers,
         session' = [session EXCEPT ![b] = Anonymous], csrf' \subseteq csrf,
         UNCHANGED <<users, nextId, req, held, orphaned>>
  PROVE  IInv'
<1> USE DEF IInv
<1>1. Anonymous \in Claims /\ Anonymous.id = 0
  BY AccountsAssumption DEF Anonymous, Claims, Roles
<1>2. TypeOK'
  BY <1>1 DEF TypeOK
<1>3. \A x \in Browsers : session'[x].id = 0 => session'[x].role = "user"
  BY <1>1 DEF Past, TypeOK, Anonymous
<1>4. Past' /\ AccountsRemain'
  BY <1>3 DEF Past, AccountsRemain
<1>5. RoleWasHeld'
  BY <1>1 DEF RoleWasHeld, TypeOK
<1> QED BY <1>2, <1>4, <1>5

\* IInv is inductive: one step per action of Next.
LEMMA Inductive == IInv /\ [Next]_vars => IInv'
<1> SUFFICES ASSUME IInv, [Next]_vars PROVE IInv'
  OBVIOUS
<1>1. CASE UNCHANGED vars
  BY <1>1 DEF vars, IInv, TypeOK, Past, Justified, RoleWasHeld, AccountsRemain
<1>2. ASSUME NEW r \in Requests, CreateUser(r) PROVE IInv'
  <2>1. req[r].b \in Browsers /\ req[r].name \in Names
    BY <1>2 DEF IInv, TypeOK, Request, CreateUser, Idle
  <2> QED BY <1>2, <2>1, InsertKeeps DEF CreateUser, Roles
<1>3. ASSUME NEW r \in Requests, InsertOIDCUser(r) PROVE IInv'
  <2>1. /\ req[r].b \in Browsers /\ req[r].name \in Names
        /\ req[r].role \in Roles /\ req[r].sub \in Subjects
    BY <1>3 DEF IInv, TypeOK, Request, InsertOIDCUser, Idle
  <2> QED BY <1>3, <2>1, InsertKeeps DEF InsertOIDCUser
<1>4. ASSUME NEW r \in Requests, LoggedIn(r) PROVE IInv'
  <2> DEFINE q == req[r]
  <2>1. /\ q.pc = "login" /\ Return(r) /\ UNCHANGED <<users, nextId, held, orphaned>>
        /\ session' = [session EXCEPT ![q.b] = [id |-> q.id, role |-> q.role]]
        /\ csrf' = csrf \cup {q.b}
    BY <1>4 DEF LoggedIn, SetCookies
  <2>2. q.b \in Browsers /\ q.id \in Ids /\ q.role \in Roles
    BY <2>1 DEF IInv, TypeOK, Request, Idle
  <2>3. <<q.id, q.role>> \in held
    BY <2>1 DEF IInv, Past, Justified
  <2> HIDE DEF q
  <2>4. req' \in [Requests -> Request] /\ \A x \in Requests : Justified(req'[x], held')
    BY <2>1, ReturnKeeps DEF IInv
  <2>5. session' \in [Browsers -> Claims]
    BY <2>1, <2>2 DEF IInv, TypeOK, Claims, Ids
  <2>6. TypeOK'
    BY <2>1, <2>2, <2>4, <2>5 DEF IInv, TypeOK
  <2>7. Past' /\ AccountsRemain'
    <3>1. \A x \in Browsers : session'[x].id = 0 => session'[x].role = "user"
      BY <2>1, <2>2 DEF IInv, Past, TypeOK, Ids
    <3> QED BY <2>1, <2>4, <3>1 DEF IInv, Past, AccountsRemain
  <2>8. RoleWasHeld'
    BY <2>1, <2>2, <2>3 DEF IInv, TypeOK, RoleWasHeld
  <2> QED BY <2>6, <2>7, <2>8 DEF IInv
<1>5. ASSUME NEW r \in Requests, NEW b \in Browsers, HandleLogin(r, b) PROVE IInv'
  <2>1. PICK u \in users : Begin(r, [pc |-> "login", b |-> b, id |-> u.id, role |-> u.role])
    BY <1>5 DEF HandleLogin
  <2> DEFINE q == [pc |-> "login", b |-> b, id |-> u.id, role |-> u.role]
  <2>2. q \in Request /\ Justified(q, held)
    BY DEF IInv, TypeOK, Past, Request, User, Justified
  <2> QED BY <2>1, <2>2, BeginKeeps
<1>6. ASSUME NEW r \in Requests, NEW b \in Browsers, NEW id \in Ids, HandleDeleteUser(r, b, id)
      PROVE  IInv'
  <2> DEFINE q == [pc |-> "delete", caller |-> session[b].id, id |-> id]
  <2>1. session[b] # Anonymous /\ session[b].role = "admin" /\ session[b].id # id /\ Begin(r, q)
    BY <1>6 DEF HandleDeleteUser, Passes, MayDelete
  <2>2. q \in Request
    <3>1. session[b] \in Claims
      BY DEF IInv, TypeOK
    <3>2. session[b].id \in Ids
      BY <3>1, <2>1 DEF Claims, Ids, IInv, Past
    <3> QED BY <3>2 DEF Request
  <2>3. Justified(q, held)
    BY <2>1 DEF Justified
  <2> QED BY <2>1, <2>2, <2>3, BeginKeeps
<1>7. ASSUME NEW r \in Requests, NEW b \in Browsers, NEW name \in Names, HandleSetup(r, b, name)
      PROVE  IInv'
  <2> DEFINE q == [pc |-> "setup", b |-> b, name |-> name]
  <2>1. q \in Request /\ Justified(q, held)
    BY DEF Request, Justified
  <2> QED BY <1>7, <2>1, BeginKeeps DEF HandleSetup
<1>8. ASSUME NEW r \in Requests, NEW b \in Browsers, NEW name \in Names, NEW sub \in Subjects,
             NEW role \in Roles, HandleCallback(r, b, sub, name, role)
      PROVE  IInv'
  <2>1. PICK id \in {u.id : u \in users} \cup {0} :
          Begin(r, [pc |-> "upsert", b |-> b, id |-> id, name |-> name, role |-> role, sub |-> sub])
    BY <1>8 DEF HandleCallback
  <2> DEFINE q == [pc |-> "upsert", b |-> b, id |-> id, name |-> name, role |-> role, sub |-> sub]
  <2>2. id \in 0..MaxIds /\ (id # 0 => \E x \in Roles : <<id, x>> \in held)
    BY <2>1, AccountsAssumption DEF IInv, TypeOK, Past, User, Ids
  <2>3. q \in Request
    BY <2>2 DEF Request
  <2>4. Justified(q, held)
    BY <2>2 DEF Justified
  <2> QED BY <2>1, <2>3, <2>4, BeginKeeps
<1>9. ASSUME NEW b \in Browsers, Logout(b) \/ Expire(b) PROVE IInv'
  BY <1>9, CookiesKeep DEF Logout, Expire
<1> QED BY <1>1, <1>2, <1>3, <1>4, <1>5, <1>6, <1>7, <1>8, <1>9, UpdateKeeps, DeleteKeeps DEF Next

LEMMA Initial == Init => IInv
<1> SUFFICES ASSUME Init PROVE IInv
  OBVIOUS
<1>1. TypeOK
  <2>1. Anonymous \in Claims /\ 1 \in 1..MaxIds + 1
    BY AccountsAssumption DEF Claims, Anonymous, Roles
  <2>2. orphaned \in BOOLEAN
    BY DEF Init
  <2> QED BY <2>1, <2>2 DEF Init, TypeOK, Request
<1>2. Past
  BY DEF Init, Past, Justified, Idle, Anonymous
<1>3. RoleWasHeld /\ AccountsRemain
  BY DEF Init, RoleWasHeld, AccountsRemain, Anonymous
<1> QED BY <1>1, <1>2, <1>3 DEF IInv

\* Rows, claims and requests in progress are well formed in every reachable state.
THEOREM TypeCorrect == Spec => []TypeOK
<1>1. IInv => TypeOK
  BY DEF IInv
<1> QED BY <1>1, Initial, Inductive, PTL DEF Spec

\* Deletions alone do not empty the table while every caller has an account
\* (handleDeleteUser, DeleteUser).
THEOREM AccountsStay == Spec => []AccountsRemain
<1>1. IInv => AccountsRemain
  BY DEF IInv
<1> QED BY <1>1, Initial, Inductive, PTL DEF Spec

\* No interleaving of logins, upserts and deletions puts a role into a session that the
\* account's row never had (HandleLogin, UpsertOIDCUser).
THEOREM RolesAreHeld == Spec => []RoleWasHeld
<1>1. IInv => RoleWasHeld
  BY DEF IInv
<1> QED BY <1>1, Initial, Inductive, PTL DEF Spec
-----------------------------------------------------------------------------
Term == INSTANCE TerminalBridge

\* Where the handler is says which goroutines it has started and, unless it panicked, which
\* have ended: wg.Wait comes before every return after the attach.
Goroutines ==
  /\ "main" \in writing => main = "closing"
  /\ out = "off" => inp = "off" /\ watcher \in {"off", "none"}
  /\ main \in {"start", "session", "attach"} => out = "off"
  /\ main \in {"select", "closing", "close", "wait"} => out # "off"
  /\ main \in {"return", "deferred", "end"} =>
       panicked \/ (out \in {"off", "done"} /\ inp \in {"off", "done"})

\* The two ends of the bridge: each exists from its own step of the handler on, and is closed
\* by the deferred calls on every path, panics included.
BothEnds ==
  /\ main \in {"start", "session"} => ssh = "none"
  /\ out # "off" => ssh # "none"
  /\ main \in {"deferred", "end"} => ssh # "open"
  /\ main = "start" => ws = "none"
  /\ ws = "none" => main \in {"start", "end"} /\ out = "off"
  /\ main = "deferred" => done
  /\ main = "end" => ws = "none" \/ (ws = "closed" /\ done)

\* The gauge and the audit trail go with the handler, whatever the goroutines do.
Books ==
  /\ main = "start" => gauge = 0 /\ Len(audit) = 0
  /\ main \notin {"start", "end"} => gauge = 1 /\ Len(audit) = 1
  /\ main = "end" => gauge = 0 /\ Len(audit) \in {0, 2}

\* ReleasedCompletely speaks of the last state only; these say how each earlier step gets there.
TerminalInv == Term!TypeOK /\ Goroutines /\ BothEnds /\ Books

\* A terminal starts with nothing open and nothing counted.
LEMMA TerminalStart == Term!Init => TerminalInv
<1> SUFFICES ASSUME Term!Init PROVE TerminalInv
  OBVIOUS
<1>1. /\ done \in BOOLEAN /\ closeSent \in BOOLEAN /\ buffered \in BOOLEAN /\ idle \in BOOLEAN
      /\ panicked \in BOOLEAN /\ crashed \in BOOLEAN
  BY Zenon DEF Term!Init
<1>2. gauge \in 0..1 /\ audit \in Seq({"connect", "disconnect"})
  BY DEF Term!Init
<1>3. Goroutines /\ BothEnds /\ Books
  BY DEF Term!Init, Goroutines, BothEnds, Books
<1> QED BY <1>1, <1>2, <1>3 DEF Term!Init, TerminalInv, Term!TypeOK, Term!Writers

\* The start of a WriteMessage only adds its goroutine to the writers, or makes the handler
\* return by a panic (net/http recovers it), or ends the process.
LEMMA Writing ==
  ASSUME Term!TypeOK, NEW w \in Term!Writers, NEW label, Term!BeginWrite(w, label)
  PROVE  /\ writing' \subseteq Term!Writers /\ panicked' \in BOOLEAN /\ crashed' \in BOOLEAN
         /\ UNCHANGED <<ws, closeSent>>
         /\ \/ main' = label /\ writing' = writing \cup {w} /\ UNCHANGED panicked
            \/ /\ main' = "return" /\ panicked' /\ "main" \in writing \cup {w}
               /\ "main" \notin writing' /\ UNCHANGED crashed
BY DEF Term!BeginWrite, Term!TypeOK, Term!Writers

\* One more audit entry.
LEMMA Appending ==
  ASSUME NEW S, NEW s \in Seq(S), NEW x \in S
  PROVE  Append(s, x) \in Seq(S) /\ Len(Append(s, x)) = Len(s) + 1
OBVIOUS

\* Every step of the handler, of a goroutine and of either end keeps the invariant.
LEMMA TerminalStep == TerminalInv /\ [Term!Next]_Term!vars => TerminalInv'
<1> SUFFICES ASSUME TerminalInv, [Term!Next]_Term!vars PROVE TerminalInv'
  OBVIOUS
<1> USE DEF TerminalInv, Term!TypeOK, Goroutines, BothEnds, Books, Term!wsVars, Term!sshVars,
            Term!goVars, Term!bookVars
<1>0. CASE UNCHANGED Term!vars
  BY <1>0 DEF Term!vars
<1>1. CASE Term!Reject
  BY <1>1 DEF Term!Reject
<1>2. CASE Term!Upgrade
  BY <1>2 DEF Term!Upgrade
<1>3. CASE Term!PoolSession
  BY <1>3 DEF Term!PoolSession
<1>4. CASE Term!Attach
  <2>1. idle' \in BOOLEAN
    BY <1>4, Zenon DEF Term!Attach
  <2> QED BY <1>4, <2>1 DEF Term!Attach
<1>5. CASE Term!SSHDone
  BY <1>5, Writing DEF Term!SSHDone, Term!Writers
<1>6. CASE Term!CloseFrame
  BY <1>6 DEF Term!CloseFrame, Term!EndWrite
<1>7. CASE Term!CloseWS
  BY <1>7 DEF Term!CloseWS
<1>8. CASE Term!Wait
  BY <1>8 DEF Term!Wait
<1>9. CASE Term!ReleaseSSH
  BY <1>9 DEF Term!ReleaseSSH, Term!CloseSSH
<1>10. CASE Term!ReleaseWS
  <2>1. audit \in Seq({"connect", "disconnect"}) /\ Len(audit) = 1
    BY <1>10 DEF Term!ReleaseWS
  <2>2. /\ Append(audit, "disconnect") \in Seq({"connect", "disconnect"})
        /\ Len(Append(audit, "disconnect")) = Len(audit) + 1
    <3>1. "disconnect" \in {"connect", "disconnect"}
      OBVIOUS
    <3> QED BY <2>1, <3>1, Appending, Zenon
  <2>3. audit' \in Seq({"connect", "disconnect"}) /\ Len(audit') = 2
    BY <1>10, <2>1, <2>2 DEF Term!ReleaseWS
  <2> QED BY <1>10, <2>3 DEF Term!ReleaseWS
<1>11. CASE Term!ReadOutput
  <2>1. buffered' \in BOOLEAN
    BY <1>11, Zenon DEF Term!ReadOutput
  <2> QED BY <1>11, <2>1, Writing DEF Term!ReadOutput, Term!Writers
<1>12. CASE Term!OutputEOF
  BY <1>12 DEF Term!OutputEOF
<1>13. CASE Term!WriteOutput
  <2>1. idle' \in BOOLEAN
    BY <1>13, Zenon DEF Term!WriteOutput
  <2> QED BY <1>13, <2>1 DEF Term!WriteOutput, Term!EndWrite
<1>14. CASE Term!ReadInput
  BY <1>14 DEF Term!ReadInput
<1>15. CASE Term!InputClosed
  BY <1>15 DEF Term!InputClosed, Term!CloseSSH
<1>16. CASE Term!StdinAccepted
  <2>1. idle' \in BOOLEAN
    BY <1>16, Zenon DEF Term!StdinAccepted
  <2> QED BY <1>16, <2>1 DEF Term!StdinAccepted
<1>17. CASE Term!StdinFails
  BY <1>17 DEF Term!StdinFails
<1>18. CASE Term!WaitReturns
  BY <1>18 DEF Term!WaitReturns
<1>19. CASE Term!WatcherDone
  BY <1>19 DEF Term!WatcherDone
<1>20. CASE Term!WatcherFires
  BY <1>20, Writing DEF Term!WatcherFires, Term!Writers
<1>21. CASE Term!WatcherNotified
  BY <1>21 DEF Term!WatcherNotified, Term!EndWrite
<1>22. CASE Term!WatcherFarewell
  BY <1>22, Writing DEF Term!WatcherFarewell, Term!Writers
<1>23. CASE Term!WatcherFrame
  BY <1>23 DEF Term!WatcherFrame, Term!EndWrite
<1>24. CASE Term!WatcherCloses
  BY <1>24 DEF Term!WatcherCloses
<1>25. CASE Term!BrowserLeaves
  BY <1>25 DEF Term!BrowserLeaves
<1>26. CASE Term!SSHEnds
  BY <1>26 DEF Term!SSHEnds
<1>27. CASE Term!SSHAnswersClose
  BY <1>27 DEF Term!SSHAnswersClose
<1>28. CASE Term!TimePasses
  BY <1>28 DEF Term!TimePasses
<1> QED
  BY <1>0, <1>1, <1>2, <1>3, <1>4, <1>5, <1>6, <1>7, <1>8, <1>9, <1>10, <1>11, <1>12, <1>13,
     <1>14, <1>15, <1>16, <1>17, <1>18, <1>19, <1>20, <1>21, <1>22, <1>23, <1>24, <1>25,
     <1>26, <1>27, <1>28, Zenon DEF Term!Next, Term!Handler, Term!Watcher

\* The program counters and channels of a terminal keep their types.
THEOREM TerminalTypeCorrect == Term!Spec => []Term!TypeOK
<1>1. Term!Spec => []TerminalInv
  BY TerminalStart, TerminalStep, PTL DEF Term!Spec
<1>2. TerminalInv => Term!TypeOK
  BY DEF TerminalInv
<1> QED BY <1>1, <1>2, PTL

\* When HandleTerminal is done, everything it took is given back: SSH session and WebSocket
\* closed, goroutines ended unless it panicked, the gauge back, both audit entries written or
\* none (bridge.go:107-316), in every interleaving of its goroutines with the two ends.
THEOREM TerminalReleased == Term!Spec => []ReleasedCompletely
<1>1. Term!Spec => []TerminalInv
  BY TerminalStart, TerminalStep, PTL DEF Term!Spec
<1>2. TerminalInv => ReleasedCompletely
  BY DEF TerminalInv, Goroutines, BothEnds, Books, Term!TypeOK, ReleasedCompletely
<1> QED BY <1>1, <1>2, PTL

\* A step that changes neither the phase nor the ends is invisible in TerminalSession.
LEMMA TerminalStutters ==
  ASSUME UNCHANGED <<Term!Phase, Term!Ended>>
  PROVE  UNCHANGED Term!Abstract!vars
BY DEF Term!Abstract!vars

\* Every step of the bridge is a step of TerminalSession or is invisible there.
LEMMA TerminalRefines ==
  TerminalInv /\ TerminalInv' /\ [Term!Next]_Term!vars
    => [Term!Abstract!Next]_Term!Abstract!vars
<1> SUFFICES ASSUME TerminalInv, TerminalInv', [Term!Next]_Term!vars
             PROVE  Term!Abstract!Next \/ UNCHANGED <<Term!Phase, Term!Ended>>
  BY TerminalStutters
<1> USE DEF TerminalInv, Term!TypeOK, Goroutines, BothEnds, Term!wsVars, Term!sshVars,
            Term!goVars, Term!bookVars, Term!Phase, Term!Ended
<1>0. CASE UNCHANGED Term!vars
  BY <1>0 DEF Term!vars
<1>1. CASE ~crashed /\ Term!Reject
  BY <1>1 DEF Term!Reject, Term!Abstract!Next, Term!Abstract!Refuse
<1>2. CASE ~crashed /\ Term!Upgrade
  BY <1>2 DEF Term!Upgrade, Term!Abstract!Next, Term!Abstract!Open
<1>3. CASE ~crashed /\ Term!Attach
  BY <1>3 DEF Term!Attach, Term!Abstract!Next, Term!Abstract!Attach
<1>4. CASE ~crashed /\ Term!ReleaseWS
  BY <1>4 DEF Term!ReleaseWS, Term!Abstract!Next, Term!Abstract!Fail, Term!Abstract!Release
<1>5. CASE ~crashed /\ (Term!CloseWS \/ Term!ReleaseSSH \/ Term!InputClosed)
  <2>1. CASE Term!CloseWS
    BY <1>5, <2>1 DEF Term!CloseWS, Term!Abstract!Next, Term!Abstract!EndDisappears
  <2>2. CASE Term!ReleaseSSH
    BY <1>5, <2>2 DEF Term!ReleaseSSH, Term!CloseSSH, Term!Abstract!Next,
                      Term!Abstract!EndDisappears
  <2>3. CASE Term!InputClosed
    BY <1>5, <2>3 DEF Term!InputClosed, Term!CloseSSH, Term!Abstract!Next,
                      Term!Abstract!EndDisappears
  <2> QED BY <1>5, <2>1, <2>2, <2>3
<1>6. CASE ~crashed /\ (Term!WatcherCloses \/ Term!BrowserLeaves \/ Term!SSHEnds)
  <2>1. CASE Term!WatcherCloses
    BY <1>6, <2>1 DEF Term!WatcherCloses, Term!Abstract!Next, Term!Abstract!EndDisappears
  <2>2. CASE Term!BrowserLeaves
    BY <1>6, <2>2 DEF Term!BrowserLeaves, Term!Abstract!Next, Term!Abstract!EndDisappears
  <2>3. CASE Term!SSHEnds
    BY <1>6, <2>3 DEF Term!SSHEnds, Term!Abstract!Next, Term!Abstract!EndDisappears
  <2> QED BY <1>6, <2>1, <2>2, <2>3
<1>7. CASE ~crashed /\ (Term!SSHDone \/ Term!ReadOutput)
  BY <1>7, Zenon DEF Term!SSHDone, Term!ReadOutput, Term!BeginWrite, Term!Abstract!Next,
                     Term!Abstract!Crash
<1>8. CASE ~crashed /\ (Term!WatcherFires \/ Term!WatcherFarewell)
  BY <1>8, Zenon DEF Term!WatcherFires, Term!WatcherFarewell, Term!BeginWrite,
                     Term!Abstract!Next, Term!Abstract!Crash
<1>9. CASE ~crashed /\ (Term!PoolSession \/ Term!CloseFrame \/ Term!Wait)
  <2>1. CASE Term!PoolSession
    BY <1>9, <2>1 DEF Term!PoolSession
  <2>2. CASE Term!CloseFrame
    BY <1>9, <2>2 DEF Term!CloseFrame, Term!EndWrite
  <2>3. CASE Term!Wait
    BY <1>9, <2>3 DEF Term!Wait
  <2> QED BY <1>9, <2>1, <2>2, <2>3
<1>10. CASE ~crashed /\ (Term!OutputEOF \/ Term!WriteOutput \/ Term!WaitReturns)
  <2>1. CASE Term!OutputEOF
    BY <1>10, <2>1 DEF Term!OutputEOF
  <2>2. CASE Term!WriteOutput
    BY <1>10, <2>2 DEF Term!WriteOutput, Term!EndWrite
  <2>3. CASE Term!WaitReturns
    BY <1>10, <2>3 DEF Term!WaitReturns
  <2> QED BY <1>10, <2>1, <2>2, <2>3
<1>11. CASE ~crashed /\ (Term!ReadInput \/ Term!StdinAccepted \/ Term!StdinFails)
  <2>1. CASE Term!ReadInput
    BY <1>11, <2>1 DEF Term!ReadInput
  <2>2. CASE Term!StdinAccepted
    BY <1>11, <2>2 DEF Term!StdinAccepted
  <2>3. CASE Term!StdinFails
    BY <1>11, <2>3 DEF Term!StdinFails
  <2> QED BY <1>11, <2>1, <2>2, <2>3
<1>12. CASE ~crashed /\ (Term!WatcherDone \/ Term!WatcherNotified \/ Term!WatcherFrame)
  <2>1. CASE Term!WatcherDone
    BY <1>12, <2>1 DEF Term!WatcherDone
  <2>2. CASE Term!WatcherNotified
    BY <1>12, <2>2 DEF Term!WatcherNotified, Term!EndWrite
  <2>3. CASE Term!WatcherFrame
    BY <1>12, <2>3 DEF Term!WatcherFrame, Term!EndWrite
  <2> QED BY <1>12, <2>1, <2>2, <2>3
<1>13. CASE ~crashed /\ (Term!SSHAnswersClose \/ Term!TimePasses)
  <2>1. CASE Term!SSHAnswersClose
    BY <1>13, <2>1 DEF Term!SSHAnswersClose
  <2>2. CASE Term!TimePasses
    BY <1>13, <2>2 DEF Term!TimePasses
  <2> QED BY <1>13, <2>1, <2>2
<1> QED BY <1>0, <1>1, <1>2, <1>3, <1>4, <1>5, <1>6, <1>7, <1>8, <1>9, <1>10, <1>11, <1>12, <1>13,
           Zenon
        DEF Term!Next, Term!Handler, Term!Watcher

\* Handler and goroutines implement the session seen from outside, TerminalSession without its
\* fairness: refused, or opened, attached or failed, and released once, in this order
\* (bridge.go:107-316).
THEOREM TerminalImplementsSession == Term!Spec => Term!Abstract!SafeSpec
<1>1. Term!Init => Term!Abstract!Init
  BY DEF Term!Init, Term!Abstract!Init, Term!Phase, Term!Ended
<1>2. Term!Spec => []TerminalInv
  BY TerminalStart, TerminalStep, PTL DEF Term!Spec
<1> QED BY <1>1, <1>2, TerminalRefines, PTL DEF Term!Spec, Term!Abstract!SafeSpec
=============================================================================
