# A TLA+ verification of Agentic Hive

Agentic Hive is one Go process that shows the tmux sessions of remote SSH hosts in a web
dashboard and connects browser terminals to them. This directory holds TLA+ models of its
stateful parts, the TLC configurations that check them on small instances, and proofs,
checked by TLAPS, of the properties that matter most for every instance. Paths below are
relative to the repository; `PROJECT.json` maps every definition to the lines it models
and lists the hazards, the runs, the mutants and the theorems.

## The system

| part | state | operations | modelled in |
|---|---|---|---|
| SSH pool (`internal/sshpool`) | cached clients, gauge, pinned host keys | Exec, Session, Remove, Close, host key callback | `SSHPool` |
| login rate limiter (`internal/auth/ratelimit.go`) | attempts per address | middleware, cleanup, Close | `RateLimiter` |
| session manager (`internal/session`) | cached sessions, gauges, status column, interval channel | poll, UpdateInterval, Stop, create and kill | `SessionPoller`, `ServerTable` |
| terminal bridge (`internal/terminal`) | WebSocket, SSH session, four goroutines | HandleTerminal | `TerminalState`, `TerminalBridge`, `TerminalSession` |
| settings (`internal/config`, `internal/server/settings.go`, `internal/auth/swappable.go`) | environment, saved rows, live configuration, OIDC handler, key store, interval | start-up, update, hot reload and the settings page | `Settings` |
| database start-up (`internal/store`) | schema, `schema_version`, templates | migrate, SeedTemplates | `Migrations` |
| key stores (`internal/keystore`) | sealed keys in SQLite, keys in Vault, the backend in force | Get, Put, Delete, Swap, with upload, creation and deletion of servers | `ServerKeys` |
| accounts (`internal/auth`, `internal/store/users.go`) | users, session and csrf cookies | setup, both logins, OIDC upsert, deletion, logout | `Accounts` |
| audit log and shutdown (`internal/*/audit.go`, `server.go`, `cmd/server/main.go`) | entries, requests and terminals in progress, stage of `main` | logAudit, paged listing, signal, drain, close | `AuditTrail` |
| dashboard page (`cmd/server/static/js/app.js`) | cards, lists, requests in flight | clicks and answers | `Dashboard` |
| HTTP handlers (`internal/server/server.go`) | none of their own | servers, keys, sessions, users | with the state they change |
| terminal page, backup, metrics registration, logging | overlay, or none | | not modelled |

The parts interact through few places. The poller, the handlers and the terminals share the
pool. The poller, the uploads and the connection attempts write one status column. The
settings handler replaces the OIDC handler, the key store and the poller's interval while
requests use them. A deletion of a server crosses the key store, the pool and the table. The
shutdown closes the database under whoever still writes an audit entry. The page sees all of
it through answers that arrive in any order.

What is hard here: a lock released between a check and the store that depends on it (pool,
host keys, limiter); snapshots used after commands that take seconds (poller); a terminal
whose two ends and timer end in any order, across four goroutines; a save of several steps
that fails in the middle; a crash between two statements of a migration; a key store that
is replaced during a call; logins that read a row, and write or sign it later; a log that is
read page by page while it grows; and a page whose every `await` lets another flow run.

## Modules

Each component is a module with its state as variables, one action per atomic step of the
code, and its properties at the end. `MC*` modules only give constants their values and
define symmetry. Definitions whose comment says *Mutant* are deliberate mistakes in the
code they precede; no specification uses them.

* **SSHPool.** A goroutine is a record with a program counter and the locals that survive
  a step. Steps are split where the code releases `p.mu`, reads or writes the database or
  talks to the host. A client is an element of `Clients`; dialing takes one that
  is neither open, cached nor held. History variables `overwritten` and `dropped` record what Exec lost.
* **RateLimiter.** An attempt is its age, capped just beyond the window. The first and the
  second critical section of the middleware are `Admit`/`Reject` and `Finish`; the handler
  runs between them.
* **SessionPoller.** The poll is a snapshot, then for each server a command, the status
  write and the cache write. Uploads test a connection and write the status later.
  `UpdateInterval` is a drain and a send. A host may hang: its command may end once the
  host answers, and may be cut off once the server is deleted or `main` closes the pool, but
  nothing obliges it to, and the poller waits (`Stuck`).
  **ServerTable** is the status column they all write.
* **TerminalState**, **TerminalBridge.** One terminal: its state with what is asked of it, and
  its steps. A write to the WebSocket has a beginning and an end, so
  that two may overlap; the panic of the library on overlap is modelled.
  **TerminalSession** is the promise: opened, attached, released only after an end is gone,
  and then always released.
* **Settings.** An update is saved key by key, read back, applied to the shared
  configuration, and then each touched group is reloaded. `Restart` is `main` on the rows
  of that moment, or on none when they cannot be read; without a row `main` does not merge at
  all (`StartConfig`). `ResolveSettings` is what the settings page shows. History variables:
  `alone`, whether the request in progress has had no company since it began, and `confirmed`,
  the groups whose last save was answered with success to such a request.
* **Migrations.** `Script` gives the statements of each file. A release embeds the files up
  to some version; each start may be another release.
* **ServerKeys.** A request is a program counter and its locals. The read lock of
  `SwappableKeyStore` is held during a call to the backend, which may be a round trip to
  Vault; a waiting `Swap` keeps new readers out, as `sync.RWMutex` does. A local key is the
  pair of key and secret it was sealed with. A failed call to Vault may have been carried
  out. `conn` is the key the pooled connection was made with. History variables: `saved`,
  the last upload that was answered with success, and `overlapped`, the servers whose
  deletion met another request.
* **Accounts.** The users table, one session cookie per browser, and requests between
  their reads and their writes: the setup check and the INSERT, the SELECT and the UPDATE
  or INSERT of the OIDC upsert, the check of the caller and the DELETE. A request record
  carries only the fields that later steps read.
* **AuditTrail.** Handlers that change something and then log it, terminals that log when
  they connect and when they end, a client that pages through `/api/admin/audit`, and the
  stages of `main` from the signal to the exit. A timestamp is taken before its INSERT, so
  entries arrive out of order, and the wall clock may be set back. A change that fails after
  part of it was made (`Fail`: settings saved but not in force, a key deleted but not its
  server) leaves no entry. `lost` are writers whose INSERT failed, `late` those that met the
  closed database.
* **Dashboard.** A bag of requests in flight, each with the container it will write to:
  on the page, replaced by a later rendering, or null. A login asks for the templates and
  then, whatever came of that, for the servers. A session list is the number of
  changes of its host that it reflects; the clicks are bounded, so the number is too.

The theorems are in modules of their own, which extend the component's module. Two of them
hold the theorems of two components, which share no state: they extend the second one's
state (`TerminalState`, `ServerTable`) and instantiate its steps. `AccessProofs` is about
`Accounts` and `TerminalBridge` (as `Term`), `SettingsProofs` about `Settings` and
`SessionPoller` (as `Poller`).

## Runs

The runs take from a few seconds to about a minute and a half on two workers. Deadlock is
checked except in `terminal` and `audit`, where a released terminal and an exited process
have nothing left to do, and in `poller_interval`, whose updates are bounded and which polls
no server.

| run | bounds | shows |
|---|---|---|
| `pool_safety` | 1 server, 2 goroutines, 3 clients, 2 host keys, 2 faults, 1 rotation | single owner, no closed client in the pool, gauge and leaks accounted for, no host key without server |
| `pool_live` | the same goroutines, 2 clients, 1 fault | the first command that meets a broken client evicts it, even if a host leaves another goroutine without an answer |
| `limiter` | 2 addresses, 3 requests, limit 3, window 2 | bound on failures, exact window, a blocked address is released |
| `poller` | 1 server, 1 upload, at most 1 session | a deleted server stays deleted; status, cache and gauge converge and Stop ends the poll, except while a command on a hung host keeps it |
| `poller_interval` | 2 callers, 2 intervals, 3 updates | while the poller runs and is not stuck, UpdateInterval returns and its value reaches the ticker |
| `terminal` | 1 terminal, with or without idle timeout | complete release by every way of ending; the goroutines end; refinement of `TerminalSession` |
| `settings` | 2 administrators, three updates of two groups each (one clears the issuer, one has an interval of 0, one an address that cannot be parsed), Vault token and OIDC client in the environment, 1 fault | what was confirmed is in force, survives a restart and is what the page shows; the login handler survives; both with the exceptions they name |
| `start_safety` | the six files, 2 templates, 3 crashes or failures | file and `schema_version` agree; start-up comes back |
| `server_keys` | 1 server, 2 requests, 2 keys, 2 secrets, 1 fault, 1 swap, rotation or restart | calls stay on the backend in force; an uploaded key is read back; a deletion leaves nothing; a swap completes |
| `accounts` | 2 browsers, 2 requests, 2 names, 2 OIDC subjects, 2 accounts | the table does not empty by itself; a token's role was one of its row |
| `audit` | 2 requests, 1 terminal, pages of 2 (by default and by the cap), 1 failed INSERT, 1 reading of a clock that was set back | complete entries, a drain that protects the writers, gapless paging, the process ends |
| `page` | 3 servers, two of them registered at first, 3 clicks or changes elsewhere, 1 failure | page and `expandedServers` agree; one refresh at a time; loading ends whatever the hosts do; a refresh ends if they answer and no card is missing |

The bounds are small but reach the cases the properties are about. Two goroutines are
enough for every check-then-store race of the pool, and three clients for one cached and
one in the hands of each. A limit of three and a window of two let attempts expire while
others stay, with three requests between their two critical sections. Three crashes tear a
file, tear it again and interrupt the seeding. Three clicks open a card, change it, and
refresh or delete while requests are in flight. Two requests on one server are enough for
an upload, a deletion, a connection or a swap to overlap, two browsers for one
administrator to delete the other, and two administrators for a save to meet another one.
Three writers give a page boundary with entries arriving before and behind it. Larger instances checked once for the
invariants, with the same result, before the models took in hosts that hang: three goroutines
on the pool without faults, two servers in the poller, four clicks on two servers. What the
bounds cannot show, the proofs do: every safety property of the runs is a theorem.

Every module has a type invariant `TypeOK`, which a theorem proves. It and the inductive
invariants of the proofs were checked on the instances of the runs first.

Symmetry is used in `pool_safety`, where clients, host keys and goroutines are
interchangeable, in `accounts`, for browsers, requests, names and subjects, and in `settings`,
for administrators. No run with a liveness property uses it.

### Where the code and its documents disagree

The modules state lines of the repository that do not hold of the code. TLC refutes each of
them on the instance in the last column, which is the run above with the constants changed
as said and the property as the only one:

| property | the line | what happens | instance |
|---|---|---|---|
| `SessionPoller!MismatchIsVisible` | prp-08:94, "Server `status` column becomes `"key_mismatch"` after a mismatch, visible in `GET /api/servers` response" | the poll overwrites it with `unreachable` | `poller` |
| `TerminalState!IdleFreesSSH` | prp-18:4, "Automatically close idle WebSocket terminal connections to free SSH sessions" | a host that does not read keeps its SSH session | `terminal`, StallSpec |
| `Migrations!OpenNeverFails` | store_test.go:73, "Open again — migrations should not fail" | a torn ADD COLUMN stops every later start | `start_safety` |
| `ServerKeys!RotationTakesEffect` | prp-22:11, "The key is read live on every SSH connection [...] This means key rotation in Vault takes effect immediately." | a cached connection keeps the old key | `server_keys` |
| `AuditTrail!TerminalsAreDrained` | prp-13:37, "No special handling needed beyond what `Shutdown` provides (it waits for handlers to return)" | a hijacked terminal outlives the drain and logs to a closed database | `audit` |
| `SSHPool!GaugeIsPoolSize` | metrics.go:20 | concurrent reconnects count twice | `pool_safety` |
| `SSHPool!PinnedKeyIsKept` | architecture.md:40 | two first connections both pin their key | `pool_safety`, no symmetry, no faults |
| `RateLimiter!LimitAnswers429` | ratelimit.go:69 | a limit of zero panics with the lock held | `limiter`, MaxAttempts 0 |
| `SessionPoller!UpdateNeverBlocks` | manager_test.go:85 | of two concurrent updates one blocks when polling is off | `poller_interval`, PollAtStart FALSE |
| `SessionPoller!LabelsAreRegistered` | prp-14:104 | labels of deleted servers stay | `poller` |
| `TerminalState!DisconnectIsClean` | bridge.go:311 | overlapping writes to the WebSocket may panic | `terminal` |
| `Settings!ClearedIsDisabled` | settings.go:240 | a cleared issuer stays in force | Env NoEnv, Updates Clears |
| `Settings!EnvTakesPrecedence` | README.md:137 | a saved Vault address and token override the variable | Env LocalInEnv, Updates Vaults |
| `Settings!LastWriteWins` | prp-21:150 | the interval in use is not the one saved last | Env NoEnv, Updates Races |
| `AuditTrail!AllActionsLogged` | README.md:193, "All security-relevant actions logged to SQLite" | settings that were saved but could not be put in force leave no entry, nor does a key deleted before its server could not be | `audit` |
| `Dashboard!RefreshAlwaysEnds` | architecture.md:49 | the button stays disabled once the list is empty and the refresh still asks for a server of it | `page`, two servers, one registered |
| `Dashboard!StaleNeverOverwrites` | architecture.md:49 | a cached list replaces a newer live one | `page` |

Two smaller ones met on the way: prp-13:28 has the poller and the pool stop before the HTTP
server, the code drains the server first, and `AuditTrail` follows the code; and the `total`
of an audit page is a query of its own, so a client should page until an empty page, as
`PagingMissesNothing` does, and not until it has `total` entries.

## Fairness

* Go runs every goroutine that can run, so the steps of a goroutine are weakly fair.
* In the pool only the steps that wait for nobody outside the process are fair (`Runs`). A
  dial, the opening of a channel on a live transport and a command wait for the host, and the
  handshake and `session.Run` have no deadline: they may never end. `BrokenIsEvicted` needs
  none of them, and nobody is obliged to issue a command; it begins with one.
* The poller's select picks at random among its ready cases, so each of ticker, channel and
  Stop that is ready again and again is taken: strong fairness. The query of the servers
  does not fail for ever.
* A receiver wakes one of the waiting senders, in the order of their arrival, so the calls
  of UpdateInterval are strongly fair.
* In the poller, the queries end, with or without an error, and so does a command on a host
  that is up, down or has another key. A command on a host that hangs need not, since
  `session.Run` has no deadline: the properties of the poller name a poll that is stuck in one
  as their exception.
* The terminal assumes more of the host: it answers while the terminal is set up
  (`pool.Session`, `RequestPty` and `Start` return), and it answers a close, or TCP keepalive
  breaks the transport. `FairSpec` assumes also that it reads its input; `StallSpec` leaves
  that out. `EndReleases`, `GoroutinesEnd` and `IdleIsReleased` rest on all of these.
  Nothing obliges the user, the program in the terminal or the idle clock.
* Time passes in `RateLimiter`. No client has to come back and no handler has to return.
* A request of the page that asks no host is answered or fails, and the browser delivers
  what has arrived (`Unhindered`). A handler that is in an SSH command may never answer: a
  live list, a change of the sessions, the test of a new key. `LoadingEnds` holds all the
  same; `RefreshEnds` has as its hypothesis that the hosts do not keep a refresh for ever.
  Clicks and changes elsewhere are bounded and not fair.
* Calls of the database and of Vault return, with an answer or an error (`ServerKeys`).
* `main` and the drain's timer go on; a handler need not return, nor a terminal end
  (`AuditTrail`).
* A process that was started runs, and one that failed or is down is started again
  (`Migrations`). Crashes are bounded, never fair.

`Settings` and `Accounts` have safety properties only and assume no fairness.

## Proofs

| theorem | says | inductive invariant |
|---|---|---|
| `SSHPoolProofs!TypeCorrect` | types | itself |
| `PoolOwnership`, `PooledStayOpen` | `ExclusiveOwner`, `PooledNotClosed` | `Owned`, the two together, restated pointwise |
| `HostKeyReferences` | `NoOrphanHostKey` | itself, with the types |
| `GaugeTheorem` | `GaugeAccounts` | itself, with `Owned` |
| `LeakTheorem` | `OrphansWereDropped` | `LiveAccounted`: an open client is cached, about to be stored, or was dropped |
| `RateLimiterProofs!TypeCorrect` | types | itself |
| `FailureBound` | `FailuresBounded` | itself, with the types |
| `WindowTheorem` | `WindowIsExact` | `Recorded`: the same count on the unfiltered slice, and its order |
| `MigrationsProofs!TypeCorrect` | types | itself |
| `RecordsAreApplied`, `UpIsComplete`, `FailuresAreTorn` | `RecordedIsApplied`, `UpHasSchema`, `FailureIsTornAlter` | `IInv`: types, `RecordedIsApplied` and `LoopOK` |
| `SeedTheorem` | `SeededOnce` | `SeedOK` |
| `ServerKeysProofs!TypeCorrect` | types | itself |
| `CallsStayInner` | `CallsUseInner` | itself, with `WellFormed` |
| `SavedKeysStay` | `SavedKeyIsRead` | `Kept`: what was saved is what its backend holds |
| `DeletionsLeaveNothing` | `DeletedLeavesNothing` | `Alone(s)`: what a deletion that nobody overlaps has already removed at each step |
| `AccessProofs!TypeCorrect` | types, of `Accounts` | itself |
| `AccountsStay`, `RolesAreHeld` | `AccountsRemain`, `RoleWasHeld` | `IInv`: both, and `Past`: what requests in progress have read was once in the table |
| `TerminalTypeCorrect`, `TerminalReleased` | types and `ReleasedCompletely`, of `TerminalBridge` | `TerminalInv`: types, `Goroutines`, `BothEnds` and `Books` |
| `TerminalImplementsSession` | the bridge implements `TerminalSession!SafeSpec` | `TerminalInv`, before and after the step |
| `SettingsProofs!TypeCorrect` | types, of `Settings` | itself |
| `LoginStays` | `LoginIsKept`, of every step | `Reloads`: what requests in progress have read and copied, and how far `s.cfg` is behind the table |
| `ConfirmedStays` | `ConfirmedIsInForce` | `Confirmations`: with `Reloads` |
| `PollerTypeCorrect` | types, of `SessionPoller` | itself |
| `DeletionIsFinal` | `DeletedStaysDeleted`, of every step | the types |
| `AuditTrailProofs!TypeCorrect` | types | itself |
| `PagesMissNothing` | `PagingMissesNothing` | `PageInv`: with `Stamps` and `Paged` |
| `DrainProtects` | `LateOnlyAfterTimeout` | `DrainInv`: with `Drain` |
| `AuditIsComplete` | `AuditComplete` | `RecordInv`: what each writer has recorded at each point |
| `DashboardProofs!ExpandedStaysOpen` | `ExpandedIsOpen` | itself |
| `TypeCorrect` | types, and that containers on the page belong to cards | itself |
| `RefreshesStayApart` | `OneRefresh` | `Refresh`: at most one request of a refresh, in one copy, and only while the button is disabled; with the types |

They hold for any number of servers, goroutines, clients, addresses, requests, browsers,
administrators, terminals, files and templates, and for
any limit, window, page size, environment and bound on clicks, changes and faults. The
assumptions are the ones named in the modules: bounds are naturals, the window is positive,
the null values are not members of their sets, servers, goroutines and requests are finite
in number, the statements of a migration are numbered from 1, there is at least one id for a
server on the page, and a setting that is not the interval is never "not a number".

No theorem about settings has a hypothesis beyond that. What the code does not keep is part
of the properties themselves, each with the line it comes from:

* What a request was told while another one ran does not count (`alone`): the table moves
  between the reads of one request (`LastWriteWins` above). It need not stay so: the next
  update without company puts its groups right, and this is part of what is proved.
* A group with a row that is empty, or not a number, does not count (`Cleared`):
  `ApplyDBSettings` skips such a row, so the old value stays in force until the next start
  (`ClearedIsDisabled` above).
* The key store is the one `reinitVault` chooses, by address and token. That it is also the
  one of the next start is claimed only while `keystore_backend` is neither saved nor set to
  `vault`, since `main` looks at it and `reinitVault` does not. For the same reason a start
  confirms the group only if the two agree (`SameKeyStore`).
* An interval counts if it is above 0 and the poller was started: `0` turns polling off at
  the next start and is not given to a poller that runs (settings.go:94).

Why the strengthenings are needed:

* `OrphansWereDropped` says nothing of a client that a goroutine is about to store. Its
  goroutine may lose the race and return, so the invariant has to say where an open client
  is at every point. Then the close of the loser is what keeps it.
* `WindowIsExact` speaks of the filtered slice, and `filterExpired` only drops a prefix.
  That this is all that has expired follows from the order of the slice, oldest first.
* `RecordedIsApplied` needs what the loop knows. `LoopOK` says that the embedded versions
  are closed downwards, that `currentVersion` is recorded or 0, and that every embedded
  file before the one in progress is recorded. The next file is the least pending one, so
  each earlier one is at most `currentVersion`, and recorded since the rows are closed
  downwards, or was recorded in this start.
* `FailureIsTornAlter` follows because the file in progress is not recorded, unless the
  version was not read.

* `RoleWasHeld` speaks of sessions only. A login signs what it read earlier, so the
  invariant needs the same of every request in progress, and that ids are not used again.
* `AccountsRemain` needs that a deletion in progress does not name its own caller, which was
  checked before: then a table that becomes empty has lost the caller before.
* `DeletedLeavesNothing` is about the last state of a deletion. `Alone` follows it: no other
  request works on the server, after `Delete` its key is gone from Vault, after `Remove` its
  connection is gone, and nobody is left who could bring either back. The local key needs no
  such help, since the row takes it along.
* `PagingMissesNothing` is about the last page. `Paged` says that the client has every entry
  of the beginning whose rank, the number of matching entries that are newer, is below its
  offset. Inserts only raise ranks, so an entry not yet read never moves into a part that
  was read, and on an empty page every rank is below the offset.
* `LateOnlyAfterTimeout` needs that after `Shutdown` returned without an error no handler is
  at work and none arrives (`Drain`).
* `ReleasedCompletely` is about the return of the handler. `Goroutines` says which of them
  run at each of its program counters and what a panic leaves out, `BothEnds` what state the
  two connections are in and when `done` is closed, `Books` how gauge and audit entries
  follow. The refinement needs the same to tell the steps that end a session from those that
  find it ended.
* `LoginIsKept` speaks of two states. A reload reads the table again, ignores the error of
  that read and copies `s.cfg`: `Reloads` says of a request without company that the copy has
  the issuer and client of `s.cfg`, whether the read succeeded or not, because the same
  request merged the table before and nobody else writes. It also has to say what overlapping
  requests leave: a field of `s.cfg` nobody ever saved still has the value of the environment,
  and a handler that is in force has an issuer and a client in `s.cfg` or rows for them.
* `ConfirmedIsInForce` is about confirmed groups, and the answer of a request confirms them
  long after they were reloaded. `Confirmations` says that a request has taken its groups out
  of the set before it reloads any, and that each stage that a request without company has
  passed has put its group in force.
* `OneRefresh` bounds a cardinality in a bag. `Refresh` says the same of the members, which
  is what sending, answering and delivering change. A rendering renames the requests that
  hold a container, and two of them might become one: the proof shows that a refresh's
  request stays single because there is no second one to meet.

Only model-checked: the liveness properties (`BrokenIsEvicted`, `BlockedIsReleased`,
`StatusConverges`, `SessionsConverge`, `StopEndsPolling`, `UpdateReturns`, `EndReleases`,
`GoroutinesEnd`, `IdleIsReleased`, `ComesUp`, `SwapCompletes`, `SignalEnds`, `LoadingEnds`,
`RefreshEnds`), and of `ImplementsSession` the fairness of `TerminalSession`. They rest on
fairness, hence on ENABLED, which is beyond the prover.

## Abstractions

* One database file has one process (one replica, strategy Recreate, in the Helm chart).
* SQLite statements are atomic and foreign keys are enforced, as `Open` asks for.
* In `SSHPool` keys are abstracted to whether their use succeeds; `ServerKeys` has the keys
  themselves and a pool reduced to one connection per server. Passwords, signatures and the
  exchange of the OIDC code are taken to work. Ownership of servers is not modelled: every
  caller is one that may see the row.
* A timestamp of an audit entry is its place in the order of the listing. Two entries with the
  same reading of the clock are listed in one order or the other, so the places are distinct;
  a reading may be earlier than one before it, at most `MaxBack` times.
* In `Accounts` the csrf cookie and the header agree, as the page sends them.
* Session lists are counts (`SessionPoller`) or versions (`Dashboard`); parsing and
  formatting are left out.
* Accesses of two requests to the unlocked `s.cfg` are taken one at a time, without torn values.
* In `Dashboard`, the poll of one server is one step, and the order in which the refresh
  visits the expanded servers is arbitrary.

## Not modelled

* The terminal page (`terminal.js`): one socket and an overlay in one tab. Whatever it can
  send is an input of `TerminalBridge`, and nothing on the server depends on what it shows.
* `parseSessions` and `formatIdle`, and the messages of the pages: strings.
* The two connection tests of the settings page, readiness, the list of users, the
  configuration and about handlers: they read and change nothing.
* The administrator's section and the setup form in `app.js`, themes and menus:
  each sends one request and shows its answer.
* Backup: one `VACUUM INTO` on a connection of its own, by SQLite.
* Client addresses, logging, registration of metrics: without state of their own. The gauges
  are variables of the modules that move them.
* Ownership of servers and the roles it depends on: conditions of queries, the same in every
  handler.

## Plan

The core came first: the pool that everything shares, the parts that run concurrently with
it, start-up, and the page. Then the key stores, the accounts, the audit log with the
shutdown, and their proofs, and then the proofs about the terminal, the settings and the
page's requests. What would come next:

1. `TerminalPage`: reconnects and the sockets they leave (terminal.js:132), composed with
   `TerminalSession`.
2. `parseSessions` and `formatIdle` against reference definitions.
