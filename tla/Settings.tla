------------------------------- MODULE Settings -------------------------------
(***************************************************************************)
(* Settings saved by an administrator (internal/server/settings.go), their *)
(* merge with the environment (internal/config/config.go), the hot reload  *)
(* of the OIDC handler, the key store and the poll interval, and the start *)
(* of the process from the same table (cmd/server/main.go). The keys that  *)
(* only travel along with these (client secret, redirect URL, ...) are     *)
(* left out. Accesses of two requests to the unlocked s.cfg are taken one  *)
(* at a time.                                                              *)
(***************************************************************************)
EXTENDS Integers, FiniteSets

CONSTANTS
  Admins,      \* settings requests that may run at the same time
  Env,         \* per key, its environment variable; Empty when it is not set
  Updates,     \* request bodies: functions from some of the keys to values
  BadURLs,     \* addresses that url.Parse rejects
  MaxFaults,   \* bound: failed database statements
  Empty,       \* the empty string
  NoRow,       \* the settings table has no such key
  NotANumber   \* a value strconv.Atoi rejects

Issuer == "oidc.issuer_url"
Client == "oidc.client_id"
Address == "vault.address"
Token == "vault.token"
Backend == "general.keystore_backend"
Interval == "general.poll_interval"
Keys == {Issuer, Client, Address, Token, Backend, Interval}

Values(k) == {u[k] : u \in {v \in Updates : k \in DOMAIN v}}

ASSUME SettingsAssumption ==
  /\ DOMAIN Env = Keys /\ MaxFaults \in Nat
  /\ \A u \in Updates : DOMAIN u # {} /\ DOMAIN u \subseteq Keys
  /\ \A k \in Keys : NoRow \notin Values(k)
  /\ \A k \in Keys \ {Interval} : NotANumber \notin Values(k) \cup {Env[k]}
  /\ Values(Interval) \cup {Env[Interval]} \subseteq Int \cup {Empty, NotANumber}

VARIABLES
  up,         \* main has not exited
  db,         \* the settings table
  cfg,        \* s.cfg
  oidc,       \* the handler in SwappableOIDCHandler: issuer and client it was built from
  ks,         \* the store in SwappableKeyStore
  interval,   \* interval of the poller's ticker; 0 when polling was not started
  admin,      \* requests: program counter and locals
  faults,
  alone,      \* history: the request that runs, if any, has had no company since it began
  confirmed   \* history: groups whose last change had no company and was answered 200, or
              \* was read at start

vars == <<up, db, cfg, oidc, ks, interval, admin, faults, alone, confirmed>>
liveVars == <<up, oidc, ks, interval>>

\* The prefix of a key selects what is reloaded; the key store backend reloads nothing.
Groups == {"oidc", "vault", "interval"}
Group(k) == IF k \in {Issuer, Client} THEN "oidc" ELSE IF k \in {Address, Token} THEN "vault"
            ELSE IF k = Interval THEN "interval" ELSE "none"
Touched(a) == {Group(k) : k \in DOMAIN admin[a].body} \cap Groups

Default(k) == IF k = Backend THEN "local" ELSE IF k = Interval THEN 30 ELSE Empty
Load == [k \in Keys |-> IF Env[k] \in {Empty, NotANumber} THEN Default(k) ELSE Env[k]]

NoRows == [k \in Keys |-> NoRow]

\* Only a non-empty, well-formed row changes a field, and only one without a variable;
\* a complete Vault configuration selects the backend, unless a row names another.
Given(rows, k) == Env[k] = Empty /\ rows[k] \notin {NoRow, Empty, NotANumber}
ApplyDBSettings(c, rows) ==
  LET merged == [k \in Keys |-> IF Given(rows, k) THEN rows[k] ELSE c[k]]
  IN IF ~Given(rows, Backend) /\ merged[Address] # Empty /\ merged[Token] # Empty
     THEN [merged EXCEPT ![Backend] = "vault"]
     ELSE merged

\* main merges nothing when the read failed or the table is empty.
StartConfig(rows) == IF rows = NoRows THEN Load ELSE ApplyDBSettings(Load, rows)

\* What the settings page shows; of a secret (Token), only whether it is set.
ResolveSettings(rows) ==
  [k \in Keys |-> IF Env[k] # Empty THEN Env[k]
                  ELSE IF rows[k] \notin {NoRow, Empty} THEN rows[k] ELSE Default(k)]

NoHandler == <<>>
HandlerOf(c) ==
  IF c[Issuer] = Empty \/ c[Client] = Empty THEN NoHandler ELSE <<c[Issuer], c[Client]>>
Local == <<"local">>
Vault(c) == <<"vault", c[Address], c[Token]>>

\* main chooses the key store by KeyStoreBackend, reinitVault by address and token.
StartKeyStore(c) == IF c[Backend] = "vault" THEN Vault(c) ELSE Local
ReinitKeyStore(c) == IF c[Address] = Empty \/ c[Token] = Empty THEN Local ELSE Vault(c)
SameKeyStore(c) == StartKeyStore(c) = ReinitKeyStore(c)
CannotOpen(store) == store # Local /\ store[2] \in BadURLs

NoBody == [k \in {} |-> Empty]
Waiting == [pc |-> "idle", body |-> NoBody, todo |-> {}, rows |-> NoRows, conf |-> Load]
Idle(a) == admin[a].pc = "idle"

Init ==
  /\ up = TRUE
  /\ db = NoRows /\ cfg = Load
  /\ oidc = HandlerOf(Load) /\ ks = StartKeyStore(Load) /\ interval = Load[Interval]
  /\ admin = [a \in Admins |-> Waiting]
  /\ faults = 0
  /\ alone = TRUE
  /\ confirmed = IF SameKeyStore(Load) THEN Groups ELSE Groups \ {"vault"}
-----------------------------------------------------------------------------
\* The stages after the configuration is applied, each only if its group was touched.
After(a, stage) ==
  IF stage = "apply" /\ "oidc" \in Touched(a) THEN "oidc"
  ELSE IF stage \in {"apply", "oidc"} /\ "vault" \in Touched(a) THEN "vault"
  ELSE IF "interval" \in Touched(a) THEN "interval" ELSE "answer"

\* Requests to the login and the callback are answered 404 when there is no handler.
IsConfigured == oidc # NoHandler
Swap(h) == oidc' = h

\* A request forgets the rows and the configuration that no later stage looks at.
Goto(a, pc) == admin' = [admin EXCEPT ![a].pc = pc, ![a].rows = NoRows, ![a].conf = Load]
Return(a) == admin' = [admin EXCEPT ![a] = Waiting]
Fault == faults < MaxFaults /\ faults' = faults + 1

PutSettings(a, u) ==
  /\ up /\ Idle(a)
  /\ admin' = [admin EXCEPT ![a] = [Waiting EXCEPT !.pc = "save", !.body = u, !.todo = DOMAIN u]]
  /\ alone' = \A b \in Admins : Idle(b)
  /\ UNCHANGED <<liveVars, db, cfg, faults, confirmed>>

\* One statement per key, in the random order of the map; the first error ends the request
\* and keeps what was saved.
SetSetting(a, k) ==
  LET rest == admin[a].todo \ {k} IN
  /\ admin[a].pc = "save" /\ k \in admin[a].todo
  /\ db' = [db EXCEPT ![k] = admin[a].body[k]]
  /\ confirmed' = confirmed \ {Group(k)}
  /\ admin' = [admin EXCEPT ![a].todo = rest, ![a].pc = IF rest = {} THEN "read" ELSE "save"]
  /\ UNCHANGED <<liveVars, cfg, faults, alone>>

SaveFails(a) ==
  /\ admin[a].pc \in {"save", "read"}
  /\ Fault
  /\ Return(a)
  /\ UNCHANGED <<liveVars, db, cfg, alone, confirmed>>

GetAllSettings(a) ==
  /\ admin[a].pc = "read"
  /\ admin' = [admin EXCEPT ![a].rows = db, ![a].pc = "apply"]
  /\ UNCHANGED <<liveVars, db, cfg, faults, alone, confirmed>>

Apply(a) ==
  /\ admin[a].pc = "apply"
  /\ cfg' = ApplyDBSettings(cfg, admin[a].rows)
  /\ Goto(a, After(a, "apply"))
  /\ UNCHANGED <<liveVars, db, faults, alone, confirmed>>

\* reinitOIDC and reinitVault read the table again, ignoring an error, and merge it into
\* a copy of s.cfg.
ReadAgain(a) ==
  /\ admin[a].pc \in {"oidc", "vault"}
  /\ \E rows \in {db, NoRows} :
       /\ IF rows = db THEN UNCHANGED faults ELSE Fault
       /\ admin' = [admin EXCEPT ![a].rows = rows,
                                 ![a].pc = IF @ = "oidc" THEN "oidcCopy" ELSE "vaultCopy"]
  /\ UNCHANGED <<liveVars, db, cfg, alone, confirmed>>

\* Mutant: the old handler is disabled before the new one is built.
ReinitOIDCDisablesFirst(a) ==
  LET c == ApplyDBSettings(cfg, admin[a].rows) IN
  /\ admin[a].pc = "oidcCopy"
  /\ oidc' = NoHandler
  /\ IF HandlerOf(c) = NoHandler THEN Goto(a, After(a, "oidc"))
     ELSE admin' = [admin EXCEPT ![a].conf = c, ![a].pc = "discover"]
  /\ UNCHANGED <<up, ks, interval, db, cfg, faults, alone, confirmed>>

ReinitOIDC(a) ==
  LET c == ApplyDBSettings(cfg, admin[a].rows) IN
  /\ admin[a].pc = "oidcCopy"
  /\ \/ /\ HandlerOf(c) = NoHandler
        /\ Swap(NoHandler)
        /\ Goto(a, After(a, "oidc"))
     \/ /\ HandlerOf(c) # NoHandler
        /\ admin' = [admin EXCEPT ![a].conf = c, ![a].rows = NoRows, ![a].pc = "discover"]
        /\ UNCHANGED oidc
  /\ UNCHANGED <<up, ks, interval, db, cfg, faults, alone, confirmed>>

\* Mutant: a failed discovery is only logged.
DiscoverLogsOnly(a) ==
  /\ admin[a].pc = "discover"
  /\ \/ oidc' = HandlerOf(admin[a].conf)
     \/ UNCHANGED oidc
  /\ Goto(a, After(a, "oidc"))
  /\ UNCHANGED <<up, ks, interval, db, cfg, faults, alone, confirmed>>

\* NewOIDCHandler asks the issuer; a failure is answered 502 and skips the later stages.
Discover(a) ==
  /\ admin[a].pc = "discover"
  /\ \/ Swap(HandlerOf(admin[a].conf)) /\ Goto(a, After(a, "oidc"))
     \/ Return(a) /\ UNCHANGED oidc
  /\ UNCHANGED <<up, ks, interval, db, cfg, faults, alone, confirmed>>

ReinitVault(a) ==
  LET store == ReinitKeyStore(ApplyDBSettings(cfg, admin[a].rows)) IN
  /\ admin[a].pc = "vaultCopy"
  /\ IF CannotOpen(store) THEN Return(a) /\ UNCHANGED ks
     ELSE ks' = store /\ Goto(a, After(a, "vault"))
  /\ UNCHANGED <<up, oidc, interval, db, cfg, faults, alone, confirmed>>

\* The interval goes to the poller if it is positive and the poller was started.
UpdateInterval(a) ==
  /\ admin[a].pc = "interval"
  /\ interval' = IF interval > 0 /\ cfg[Interval] > 0 THEN cfg[Interval] ELSE interval
  /\ Goto(a, "answer")
  /\ UNCHANGED <<up, oidc, ks, db, cfg, faults, alone, confirmed>>

Answer(a) ==
  /\ admin[a].pc = "answer"
  /\ confirmed' = IF alone THEN confirmed \cup Touched(a) ELSE confirmed
  /\ Return(a)
  /\ UNCHANGED <<liveVars, db, cfg, faults, alone>>

\* The process ends at any point and main runs again. A failed read means "environment
\* only", a failed discovery no handler, a Vault client that cannot be made the exit.
Restart ==
  \E rows \in {db, NoRows}, discovered \in BOOLEAN :
    LET c == StartConfig(rows) IN
    /\ IF rows = db THEN UNCHANGED faults ELSE Fault
    /\ admin' = [a \in Admins |-> Waiting]
    /\ cfg' = c
    /\ up' = ~CannotOpen(StartKeyStore(c))
    /\ ks' = StartKeyStore(c)
    /\ interval' = c[Interval]
    /\ oidc' = IF discovered THEN HandlerOf(c) ELSE NoHandler
    /\ alone' = TRUE
    /\ confirmed' = IF rows # db THEN {}
                    ELSE {g \in Groups : /\ g = "oidc" => discovered
                                         /\ g = "vault" => SameKeyStore(c)}
    /\ UNCHANGED db
-----------------------------------------------------------------------------
Step(a) ==
  \/ \E k \in Keys : SetSetting(a, k)
  \/ SaveFails(a) \/ GetAllSettings(a) \/ Apply(a) \/ ReadAgain(a) \/ ReinitOIDC(a)
  \/ Discover(a) \/ ReinitVault(a) \/ UpdateInterval(a) \/ Answer(a)

Next ==
  \/ \E a \in Admins, u \in Updates : PutSettings(a, u)
  \/ \E a \in Admins : Step(a)
  \/ Restart

Spec == Init /\ [][Next]_vars
-----------------------------------------------------------------------------
\* Values are strings and numbers, so the sets of tables and of configurations are predicates.
IsTable(rows) ==
  /\ rows = [k \in Keys |-> rows[k]]
  /\ \A k \in Keys : rows[k] \in Values(k) \cup {NoRow}
IsConfig(c) ==
  /\ c = [k \in Keys |-> c[k]] /\ c[Interval] \in Int
  /\ \A k \in Keys : c[k] \in (Values(k) \ {Empty, NotANumber}) \cup {Load[k]}
                              \cup (IF k = Backend THEN {"vault"} ELSE {})
IsRequest(r) ==
  /\ r = [pc |-> r.pc, body |-> r.body, todo |-> r.todo, rows |-> r.rows, conf |-> r.conf]
  /\ r.pc \in {"idle", "save", "read", "apply", "oidc", "oidcCopy", "discover", "vault",
               "vaultCopy", "interval", "answer"}
  /\ r.body \in Updates \cup {NoBody} /\ r.todo \subseteq DOMAIN r.body
  /\ IsTable(r.rows) /\ IsConfig(r.conf)
TypeOK ==
  /\ up \in BOOLEAN /\ alone \in BOOLEAN /\ faults \in 0..MaxFaults /\ confirmed \subseteq Groups
  /\ IsTable(db) /\ IsConfig(cfg) /\ interval \in Int
  /\ admin = [a \in Admins |-> admin[a]] /\ \A a \in Admins : IsRequest(admin[a])

\* A row of the group is there and counts for nothing: it is empty, or not a number.
Cleared(g) ==
  \E k \in Keys : Group(k) = g /\ Env[k] = Empty /\ db[k] \in {Empty, NotANumber}

\* What an administrator was told is saved is in force, and is what a restart would read back
\* and what the settings page shows, for each group on its own: failed statements, failed
\* discoveries, early returns and overlapping requests that save other groups change nothing
\* of it, and whatever overlapping requests left behind, one update without company puts
\* right for its groups (settings.go:46-97 against main.go:103-159 and config.go:67-101).
\* What the code does not keep is part of the statement: a group with a row that is empty or
\* no number keeps its old value (config.go:118, 125), a poller that was not started stays
\* so, an interval below 1 waits for a start (settings.go:94), and keystore_backend counts
\* at a start only (settings.go:266).
ConfirmedIsInForce ==
  LET c == StartConfig(db)
      shown == ResolveSettings(db)
      told(g) == g \in confirmed /\ ~Cleared(g)
  IN up => /\ told("oidc") => oidc = HandlerOf(c) /\ oidc = HandlerOf(shown)
           /\ told("vault") =>
                /\ ks = ReinitKeyStore(c) /\ ks = ReinitKeyStore(shown)
                /\ ~Given(db, Backend) /\ Env[Backend] # "vault" => ks = StartKeyStore(c)
           /\ told("interval") /\ interval > 0 /\ c[Interval] > 0 =>
                /\ interval = c[Interval]
                /\ Env[Interval] # NotANumber => interval = shown[Interval]

\* An update without company never takes the OIDC login away while the process runs, even
\* one set up by requests that overlapped: a failed discovery keeps the old handler, and a
\* failed read of the table in reinitOIDC, whose error is ignored, is made up for by s.cfg
\* (settings.go:59, 242-255). Clearing a key is how to ask for it.
LoginIsKept ==
  [][(IsConfigured /\ alone /\ ~Cleared("oidc") /\ \E a \in Admins : Step(a)) =>
       IsConfigured']_vars

\* "If OIDC is not configured (missing issuer URL or client ID), the handler is disabled"
\* (settings.go:240): a cleared issuer, confirmed to the administrator, disables it.
ClearedIsDisabled ==
  (up /\ "oidc" \in confirmed /\ Env[Issuer] = Empty /\ db[Issuer] = Empty) => oidc = NoHandler

\* "Environment variables take precedence over UI settings" (README.md:137), asked of the
\* key store backend.
EnvTakesPrecedence == (up /\ Env[Backend] = "local") => ks = Local

\* "last write wins is fine" (prp-21:150): once nobody is saving and nothing failed, the
\* interval that was saved last is the one in use.
LastWriteWins ==
  (up /\ faults = 0 /\ \A a \in Admins : Idle(a)) => interval = StartConfig(db)[Interval]
=============================================================================
