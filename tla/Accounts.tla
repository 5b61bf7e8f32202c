------------------------------- MODULE Accounts -------------------------------
(***************************************************************************)
(* User accounts and sessions: first setup and password login              *)
(* (internal/auth/local.go), the OIDC callback (oidc.go), cookies, CSRF    *)
(* check and role check (auth.go), the users table (internal/store) and    *)
(* the deletion of users. A token is its claims; it lives as long as the   *)
(* cookie that carries it. Refused requests change nothing and are left    *)
(* out, except where the refusal depends on a race.                        *)
(***************************************************************************)
EXTENDS Integers, FiniteSets

CONSTANTS
  Browsers, Requests, Names, Subjects,
  MaxIds,        \* bound: accounts ever created
  NoSubject      \* oidc_subject of a local account

ASSUME AccountsAssumption == NoSubject \notin Subjects /\ MaxIds \in Nat

VARIABLES
  users,      \* the users table, a set of rows
  nextId,     \* newID() never returns the same id twice
  session,    \* claims in the session cookie of each browser
  csrf,       \* browsers that have a csrf cookie
  req,        \* requests in progress
  held,       \* history: <<id, role>> that a row has had
  orphaned    \* history: a user was deleted by a caller whose own row was gone

vars == <<users, nextId, session, csrf, req, held, orphaned>>

Roles == {"admin", "user"}
Ids == 1..MaxIds
User == [id : Ids, name : Names, role : Roles, sub : Subjects \cup {NoSubject}]
Anonymous == [id |-> 0, role |-> "user"]
Claims == [id : 0..MaxIds, role : Roles]
Idle == [pc |-> "idle"]

Request ==
  {Idle} \cup [pc : {"setup"}, b : Browsers, name : Names]
         \cup [pc : {"login"}, b : Browsers, id : Ids, role : Roles]
         \cup [pc : {"upsert"}, b : Browsers, id : 0..MaxIds, name : Names, role : Roles, sub : Subjects]
         \cup [pc : {"delete"}, caller : Ids, id : Ids]

TypeOK ==
  /\ users \in SUBSET User
  /\ nextId \in 1..MaxIds + 1
  /\ session \in [Browsers -> Claims] /\ csrf \subseteq Browsers
  /\ req \in [Requests -> Request]
  /\ held \subseteq Ids \X Roles /\ orphaned \in BOOLEAN

Init ==
  /\ users = {} /\ nextId = 1
  /\ session = [b \in Browsers |-> Anonymous] /\ csrf = {}
  /\ req = [r \in Requests |-> Idle]
  /\ held = {} /\ orphaned = FALSE
-----------------------------------------------------------------------------
Begin(r, q) ==
  /\ req[r] = Idle
  /\ req' = [req EXCEPT ![r] = q]
  /\ UNCHANGED <<users, nextId, session, csrf, held, orphaned>>
Return(r) == req' = [req EXCEPT ![r] = Idle]

\* The answer of a login: a signed token and a fresh csrf token.
SetCookies(b, id, role) ==
  /\ session' = [session EXCEPT ![b] = [id |-> id, role |-> role]]
  /\ csrf' = csrf \cup {b}

\* UNIQUE username and oidc_subject; NULL subjects do not clash.
Unique(id, name, sub) ==
  \A u \in users : u.id # id => u.name # name /\ (sub = NoSubject \/ u.sub # sub)

\* At the bound the INSERT fails, as it does on any error of the database.
InsertUser(r, name, role, sub) ==
  /\ IF nextId \in Ids /\ Unique(nextId, name, sub)
     THEN /\ users' = users \cup {[id |-> nextId, name |-> name, role |-> role, sub |-> sub]}
          /\ held' = held \cup {<<nextId, role>>}
          /\ nextId' = nextId + 1
          /\ SetCookies(req[r].b, nextId, role)
     ELSE UNCHANGED <<users, held, nextId, session, csrf>>
  /\ Return(r)
  /\ UNCHANGED orphaned

\* SetupNeeded is asked before the password is hashed, the row inserted after.
HandleSetup(r, b, name) == users = {} /\ Begin(r, [pc |-> "setup", b |-> b, name |-> name])
CreateUser(r) == req[r].pc = "setup" /\ InsertUser(r, req[r].name, "admin", NoSubject)

\* GetUserByUsername, then the comparison of the password; OIDC accounts have none.
HandleLogin(r, b) ==
  \E u \in users : u.sub = NoSubject /\ Begin(r, [pc |-> "login", b |-> b, id |-> u.id, role |-> u.role])
LoggedIn(r) ==
  /\ req[r].pc = "login"
  /\ SetCookies(req[r].b, req[r].id, req[r].role)
  /\ Return(r)
  /\ UNCHANGED <<users, nextId, held, orphaned>>

\* The callback with a verified ID token: UpsertOIDCUser looks the subject up (0: no row)
\* and then updates or inserts.
HandleCallback(r, b, sub, name, role) ==
  \E id \in IF \E u \in users : u.sub = sub THEN {u.id : u \in {v \in users : v.sub = sub}} ELSE {0} :
    Begin(r, [pc |-> "upsert", b |-> b, id |-> id, name |-> name, role |-> role, sub |-> sub])
InsertOIDCUser(r) ==
  req[r].pc = "upsert" /\ req[r].id = 0 /\ InsertUser(r, req[r].name, req[r].role, req[r].sub)

\* Mutant: the UPDATE does not set the role.
UpdatedName(u, q) == [u EXCEPT !.name = q.name]

Updated(u, q) == [id |-> u.id, name |-> q.name, role |-> q.role, sub |-> u.sub]

\* The UPDATE of a row that was deleted meanwhile changes nothing and is no error; a name
\* that is taken makes it fail.
UpdateOIDCUser(r) ==
  LET q == req[r] IN
  /\ q.pc = "upsert" /\ q.id # 0
  /\ IF (\E u \in users : u.id = q.id) => Unique(q.id, q.name, NoSubject)
     THEN /\ users' = {IF u.id = q.id THEN Updated(u, q) ELSE u : u \in users}
          /\ held' = held \cup {<<u.id, u.role>> : u \in users'}
          /\ SetCookies(q.b, q.id, q.role)
     ELSE UNCHANGED <<users, held, session, csrf>>
  /\ Return(r)
  /\ UNCHANGED <<nextId, orphaned>>
-----------------------------------------------------------------------------
\* CSRFProtect and RequireAuth: the page sends its csrf cookie back as a header.
Passes(b) == session[b] # Anonymous /\ b \in csrf

\* Mutant: users may delete themselves.
AnyTarget(b, id) == TRUE

MayDelete(b, id) == session[b].id # id

HandleDeleteUser(r, b, id) ==
  /\ Passes(b) /\ session[b].role = "admin" /\ MayDelete(b, id)
  /\ Begin(r, [pc |-> "delete", caller |-> session[b].id, id |-> id])

DeleteUser(r) ==
  LET q == req[r] IN
  /\ q.pc = "delete"
  /\ users' = {u \in users : u.id # q.id}
  /\ orphaned' = (orphaned \/ (users' # users /\ \A u \in users : u.id # q.caller))
  /\ Return(r)
  /\ UNCHANGED <<nextId, session, csrf, held>>

\* Only the session cookie is cleared; both expire together, with the token.
Logout(b) ==
  /\ Passes(b)
  /\ session' = [session EXCEPT ![b] = Anonymous]
  /\ UNCHANGED <<users, nextId, csrf, req, held, orphaned>>
Expire(b) ==
  /\ b \in csrf
  /\ session' = [session EXCEPT ![b] = Anonymous]
  /\ csrf' = csrf \ {b}
  /\ UNCHANGED <<users, nextId, req, held, orphaned>>

Next ==
  \/ \E r \in Requests :
       \/ CreateUser(r) \/ LoggedIn(r) \/ InsertOIDCUser(r) \/ UpdateOIDCUser(r) \/ DeleteUser(r)
       \/ \E b \in Browsers :
            \/ HandleLogin(r, b)
            \/ \E id \in Ids : HandleDeleteUser(r, b, id)
            \/ \E name \in Names :
                 \/ HandleSetup(r, b, name)
                 \/ \E sub \in Subjects, role \in Roles : HandleCallback(r, b, sub, name, role)
  \/ \E b \in Browsers : Logout(b) \/ Expire(b)

Spec == Init /\ [][Next]_vars
-----------------------------------------------------------------------------
\* Deletions empty the table, and so open the setup again, only through a caller whose own
\* account was deleted before: "cannot delete yourself" alone keeps an account.
AccountsRemain == users = {} /\ held # {} => orphaned

\* A session is of an account that was created, also after two first logins of one subject
\* raced for its row; and while that account exists the session's role is one the row has
\* had, whatever renames, role changes and deletions happened between the reads of a login
\* and its token.
RoleWasHeld ==
  \A b \in Browsers : session[b].id # 0 =>
    /\ \E role \in Roles : <<session[b].id, role>> \in held
    /\ (\E u \in users : u.id = session[b].id) => <<session[b].id, session[b].role>> \in held
=============================================================================
