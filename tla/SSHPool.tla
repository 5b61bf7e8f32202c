------------------------------- MODULE SSHPool -------------------------------
(***************************************************************************)
(* The SSH connection pool (internal/sshpool/pool.go) under concurrent     *)
(* callers: Exec (poller, session and key handlers), Session (terminals),  *)
(* Remove (accept-key and delete-server handlers) and Close (shutdown).    *)
(* A goroutine runs one operation at a time; each of its steps is one      *)
(* critical section of p.mu, one database statement or one SSH round trip. *)
(***************************************************************************)
EXTENDS Integers, FiniteSets

CONSTANTS
  Servers,       \* rows of the servers table
  Goroutines,    \* concurrent callers of the pool
  Clients,       \* identities of *ssh.Client values; an unreferenced dead one is reused
  HostKeys,      \* public keys a host may present
  MaxFaults,     \* bound: transport breaks, rejected channels, database errors
  MaxRotations,  \* bound: host key rotations
  NoServer, NoClient, NoKey

ASSUME PoolAssumption ==
  /\ IsFiniteSet(Servers) /\ IsFiniteSet(Goroutines)
  /\ NoServer \notin Servers /\ NoClient \notin Clients /\ NoKey \notin HostKeys
  /\ MaxFaults \in Nat /\ MaxRotations \in Nat

VARIABLES
  status,       \* servers.status; "deleted" once the row is gone
  pinned,       \* host_keys.host_key per server
  hostKey,      \* the key the host presents now
  conns,        \* Pool.conns
  gauge,        \* metrics.SSHConnectionsActive
  open,         \* clients whose transport is up
  broken,       \* clients whose transport failed and on which Close was not called
  go,           \* goroutines: program counter and locals
  shutdown,     \* main has called pool.Close
  faults, rotations,
  overwritten,  \* history: entries Exec replaced without decrementing the gauge
  dropped       \* history: clients Exec removed from conns without Close

vars == <<status, pinned, hostKey, conns, gauge, open, broken, go, shutdown,
          faults, rotations, overwritten, dropped>>
dbVars == <<status, pinned>>
poolVars == <<conns, gauge, overwritten, dropped>>
netVars == <<open, broken>>
envVars == <<hostKey, shutdown, rotations>>

\* The statuses the pool tells apart; the other writers are in module SessionPoller.
Status == {"unknown", "key_mismatch", "deleted"}
Ops == {"Exec", "Session", "AcceptKey", "DeleteServer"}
Pcs == {"idle", "lookup", "connect", "verify", "trust", "auth", "store", "overwrite",
        "inc", "newSession", "evict", "run", "deleteHostKey", "remove", "deleteRow"}

Goroutine == [pc: Pcs, op: Ops, srv: Servers \cup {NoServer},
              client: Clients \cup {NoClient}, seen: HostKeys \cup {NoKey}, retry: BOOLEAN]
Frame(label, o, s, c, k, r) == [pc |-> label, op |-> o, srv |-> s,
                                client |-> c, seen |-> k, retry |-> r]
Idle == Frame("idle", "Exec", NoServer, NoClient, NoKey, FALSE)

Pooled == {s \in Servers : conns[s] # NoClient}
PooledClients == {conns[s] : s \in Pooled}
Held == {go[g].client : g \in Goroutines} \ {NoClient}
AtInc == {g \in Goroutines : go[g].pc = "inc"}

Init ==
  /\ status = [s \in Servers |-> "unknown"]
  /\ pinned = [s \in Servers |-> NoKey]
  /\ hostKey \in [Servers -> HostKeys]
  /\ conns = [s \in Servers |-> NoClient]
  /\ gauge = 0
  /\ open = {} /\ broken = {}
  /\ go = [g \in Goroutines |-> Idle]
  /\ shutdown = FALSE
  /\ faults = 0 /\ rotations = 0 /\ overwritten = 0 /\ dropped = {}
-----------------------------------------------------------------------------
\* The operation goes on at label, with new or with the same values of its locals.
Move(g, label, c, k, r) ==
  go' = [go EXCEPT ![g] = Frame(label, go[g].op, go[g].srv, c, k, r)]
Goto(g, label) == Move(g, label, go[g].client, go[g].seen, go[g].retry)

\* The operation returns, with or without an error; its locals go out of scope.
Return(g) == go' = [go EXCEPT ![g] = Idle]

EntryPc(o) == CASE o \in {"Exec", "Session"} -> "lookup"
                [] o = "AcceptKey"    -> "deleteHostKey"
                [] o = "DeleteServer" -> "remove"

\* The two handlers answer 404 unless GetServer finds the row. Exec and Session are
\* also called for a server deleted after the caller listed it. The pool knows no "closed":
\* a poll, a hijacked terminal or a request that outlived the drain may enter it after Close.
Start(g, o, s) ==
  /\ go[g].pc = "idle"
  /\ o \in {"AcceptKey", "DeleteServer"} => status[s] # "deleted"
  /\ go' = [go EXCEPT ![g] = Frame(EntryPc(o), o, s, NoClient, NoKey, FALSE)]
  /\ UNCHANGED <<dbVars, poolVars, netVars, envVars, faults>>

Lookup(g) ==
  LET cached == conns[go[g].srv] IN
  /\ go[g].pc = "lookup"
  /\ \/ /\ cached # NoClient
        /\ Move(g, "newSession", cached, NoKey, FALSE)
     \/ /\ cached = NoClient
        /\ Goto(g, "connect")
  /\ UNCHANGED <<dbVars, poolVars, netVars, envVars, faults>>

\* connect: GetServer, getKey, ParsePrivateKey and the TCP dial all succeeded, and the
\* key exchange has delivered the host's key.
Connect(g) ==
  /\ go[g].pc = "connect"
  /\ status[go[g].srv] # "deleted"
  /\ Move(g, "verify", NoClient, hostKey[go[g].srv], go[g].retry)
  /\ UNCHANGED <<dbVars, poolVars, netVars, envVars, faults>>

\* connect returns an error: row or key missing, dial failure, authentication refused.
ConnectFails(g) ==
  /\ go[g].pc \in {"connect", "auth"}
  /\ Return(g)
  /\ UNCHANGED <<dbVars, poolVars, netVars, envVars, faults>>

\* The callback returns nil: the handshake goes on with user authentication.
AcceptHost(g) == Move(g, "auth", NoClient, NoKey, go[g].retry)

\* hostKeyCallback reads host_keys; every error of GetHostKey counts as "no stored key".
HostKeyCallback(g) ==
  LET s == go[g].srv IN
  /\ go[g].pc = "verify"
  /\ \/ /\ pinned[s] = NoKey
        /\ Goto(g, "trust")
        /\ UNCHANGED <<status, faults>>
     \/ /\ pinned[s] # NoKey /\ faults < MaxFaults
        /\ faults' = faults + 1
        /\ Goto(g, "trust")
        /\ UNCHANGED status
     \/ /\ pinned[s] = go[g].seen
        /\ AcceptHost(g)
        /\ UNCHANGED <<status, faults>>
     \/ /\ pinned[s] \notin {NoKey, go[g].seen}
        /\ status' = [status EXCEPT ![s] = IF @ = "deleted" THEN @ ELSE "key_mismatch"]
        /\ Return(g)
        /\ UNCHANGED faults
  /\ UNCHANGED <<pinned, poolVars, netVars, envVars>>

\* Mutant: host_keys has no foreign key.
StoreHostKeyUnchecked(g) ==
  /\ go[g].pc = "trust"
  /\ pinned' = [pinned EXCEPT ![go[g].srv] = go[g].seen]
  /\ AcceptHost(g)
  /\ UNCHANGED <<status, poolVars, netVars, envVars, faults>>

\* StoreHostKey is INSERT OR REPLACE; the foreign key rejects it once the row is gone.
StoreHostKey(g) ==
  LET s == go[g].srv IN
  /\ go[g].pc = "trust"
  /\ \/ /\ status[s] # "deleted"
        /\ pinned' = [pinned EXCEPT ![s] = go[g].seen]
        /\ AcceptHost(g)
     \/ /\ status[s] = "deleted"
        /\ Return(g)
        /\ UNCHANGED pinned
  /\ UNCHANGED <<status, poolVars, netVars, envVars, faults>>

Dialed(g, c) ==
  /\ go[g].pc = "auth"
  /\ c \notin open \cup PooledClients \cup Held
  /\ open' = open \cup {c}
  /\ broken' = broken \ {c}
  /\ Move(g, IF go[g].retry THEN "overwrite" ELSE "store", c, NoKey, go[g].retry)
  /\ UNCHANGED <<dbVars, poolVars, envVars, faults>>

CloseClient(c) == open' = open \ {c} /\ broken' = broken \ {c}

\* Mutant: the goroutine that lost the race closes the cached client and goes on with its own.
StoreClientClosesExisting(g) ==
  LET s == go[g].srv IN
  /\ go[g].pc = "store"
  /\ \/ /\ conns[s] # NoClient
        /\ CloseClient(conns[s])
        /\ Goto(g, "newSession")
        /\ UNCHANGED conns
     \/ /\ conns[s] = NoClient
        /\ conns' = [conns EXCEPT ![s] = go[g].client]
        /\ Goto(g, "inc")
        /\ UNCHANGED netVars
  /\ UNCHANGED <<gauge, overwritten, dropped, dbVars, envVars, faults>>

\* Mutant: the goroutine that lost the race does not close its client.
StoreClientLeaks(g) ==
  LET s == go[g].srv IN
  /\ go[g].pc = "store"
  /\ \/ /\ conns[s] # NoClient
        /\ Move(g, "newSession", conns[s], NoKey, FALSE)
        /\ UNCHANGED conns
     \/ /\ conns[s] = NoClient
        /\ conns' = [conns EXCEPT ![s] = go[g].client]
        /\ Goto(g, "inc")
  /\ UNCHANGED <<netVars, gauge, overwritten, dropped, dbVars, envVars, faults>>

\* getOrConnect, second critical section: the first goroutine to get here wins.
StoreClient(g) ==
  LET s == go[g].srv IN
  /\ go[g].pc = "store"
  /\ \/ /\ conns[s] # NoClient
        /\ CloseClient(go[g].client)
        /\ Move(g, "newSession", conns[s], NoKey, FALSE)
        /\ UNCHANGED conns
     \/ /\ conns[s] = NoClient
        /\ conns' = [conns EXCEPT ![s] = go[g].client]
        /\ Goto(g, "inc")
        /\ UNCHANGED netVars
  /\ UNCHANGED <<gauge, overwritten, dropped, dbVars, envVars, faults>>

\* The gauge is incremented after p.mu is released.
IncGauge(g) ==
  /\ go[g].pc = "inc"
  /\ gauge' = gauge + 1
  /\ Goto(g, "newSession")
  /\ UNCHANGED <<conns, overwritten, dropped, dbVars, netVars, envVars, faults>>

\* Mutant: Exec returns the error without a reconnect.
SessionErrorNoRetry(g) == Return(g)

\* Only the first failure of Exec is retried; Session and a retried Exec return the error.
SessionError(g) ==
  IF go[g].op = "Exec" /\ ~go[g].retry THEN Goto(g, "evict") ELSE Return(g)

NewSession(g) ==
  /\ go[g].pc = "newSession"
  /\ \/ /\ go[g].client \in open
        /\ Goto(g, "run")
        /\ UNCHANGED faults
     \/ /\ go[g].client \notin open
        /\ SessionError(g)
        /\ UNCHANGED faults
     \/ /\ go[g].client \in open /\ faults < MaxFaults   \* the server rejects the channel
        /\ SessionError(g)
        /\ faults' = faults + 1
  /\ UNCHANGED <<dbVars, poolVars, netVars, envVars>>

\* Mutant: Exec stores the client that failed again, without dialling.
EvictReuses(g) ==
  /\ go[g].pc = "evict"
  /\ Move(g, "overwrite", go[g].client, NoKey, TRUE)
  /\ UNCHANGED <<poolVars, dbVars, netVars, envVars, faults>>

\* Exec removes whatever client is cached now, not necessarily the one that failed.
Evict(g) ==
  LET s == go[g].srv IN
  /\ go[g].pc = "evict"
  /\ conns' = [conns EXCEPT ![s] = NoClient]
  /\ gauge' = IF conns[s] = NoClient THEN gauge ELSE gauge - 1
  /\ dropped' = dropped \cup ({conns[s]} \cap open)
  /\ Move(g, "connect", NoClient, NoKey, TRUE)
  /\ UNCHANGED <<overwritten, dbVars, netVars, envVars, faults>>

\* Exec stores the new client without looking at the entry it replaces.
OverwriteClient(g) ==
  LET s == go[g].srv IN
  /\ go[g].pc = "overwrite"
  /\ conns' = [conns EXCEPT ![s] = go[g].client]
  /\ overwritten' = IF conns[s] = NoClient THEN overwritten ELSE overwritten + 1
  /\ dropped' = dropped \cup ({conns[s]} \cap open)
  /\ Goto(g, "inc")
  /\ UNCHANGED <<gauge, dbVars, netVars, envVars, faults>>

\* session.Run returned, or the terminal released its session.
RunEnds(g) ==
  /\ go[g].pc = "run"
  /\ Return(g)
  /\ UNCHANGED <<dbVars, poolVars, netVars, envVars, faults>>
-----------------------------------------------------------------------------
\* handleAcceptKey: DeleteHostKey, then pool.Remove.
DeleteHostKey(g) ==
  /\ go[g].pc = "deleteHostKey"
  /\ pinned' = [pinned EXCEPT ![go[g].srv] = NoKey]
  /\ Goto(g, "remove")
  /\ UNCHANGED <<status, poolVars, netVars, envVars, faults>>

\* Mutant: Remove does not decrement the gauge.
RemoveWithoutDec(g) ==
  LET s == go[g].srv IN
  /\ go[g].pc = "remove"
  /\ CloseClient(conns[s])
  /\ conns' = [conns EXCEPT ![s] = NoClient]
  /\ IF go[g].op = "DeleteServer" THEN Goto(g, "deleteRow") ELSE Return(g)
  /\ UNCHANGED <<gauge, overwritten, dropped, dbVars, envVars, faults>>


Remove(g) ==
  LET s == go[g].srv IN
  /\ go[g].pc = "remove"
  /\ \/ /\ conns[s] # NoClient
        /\ CloseClient(conns[s])
        /\ conns' = [conns EXCEPT ![s] = NoClient]
        /\ gauge' = gauge - 1
     \/ /\ conns[s] = NoClient
        /\ UNCHANGED <<netVars, conns, gauge>>
  /\ IF go[g].op = "DeleteServer" THEN Goto(g, "deleteRow") ELSE Return(g)
  /\ UNCHANGED <<overwritten, dropped, dbVars, envVars, faults>>

\* handleDeleteServer deletes the row last; host_keys cascades.
DeleteRow(g) ==
  LET s == go[g].srv IN
  /\ go[g].pc = "deleteRow"
  /\ status' = [status EXCEPT ![s] = "deleted"]
  /\ pinned' = [pinned EXCEPT ![s] = NoKey]
  /\ Return(g)
  /\ UNCHANGED <<poolVars, netVars, envVars, faults>>

\* A failed statement makes the handler answer 500 and leaves what was done so far.
HandlerDbError(g) ==
  /\ go[g].pc \in {"deleteHostKey", "deleteRow"}
  /\ faults < MaxFaults
  /\ faults' = faults + 1
  /\ Return(g)
  /\ UNCHANGED <<dbVars, poolVars, netVars, envVars>>

\* pool.Close at the end of main, whoever is inside the pool.
Close ==
  /\ ~shutdown
  /\ shutdown' = TRUE
  /\ conns' = [s \in Servers |-> NoClient]
  /\ gauge' = gauge - Cardinality(Pooled)
  /\ open' = open \ PooledClients
  /\ broken' = broken \ PooledClients
  /\ UNCHANGED <<overwritten, dropped, dbVars, hostKey, rotations, go, faults>>

\* The transport of a client breaks: network loss, sshd restart, keepalive limit.
TransportBreaks(c) ==
  /\ c \in open /\ faults < MaxFaults
  /\ open' = open \ {c}
  /\ broken' = broken \cup {c}
  /\ dropped' = dropped \ {c}
  /\ faults' = faults + 1
  /\ UNCHANGED <<conns, gauge, overwritten, dbVars, envVars, go>>

HostRotates(s, k) ==
  /\ k # hostKey[s] /\ rotations < MaxRotations
  /\ hostKey' = [hostKey EXCEPT ![s] = k]
  /\ rotations' = rotations + 1
  /\ UNCHANGED <<shutdown, dbVars, poolVars, netVars, go, faults>>

-----------------------------------------------------------------------------
Step(g) ==
  \/ Lookup(g) \/ Connect(g) \/ ConnectFails(g) \/ HostKeyCallback(g) \/ StoreHostKey(g)
  \/ \E c \in Clients : Dialed(g, c)
  \/ StoreClient(g) \/ IncGauge(g) \/ NewSession(g) \/ Evict(g) \/ OverwriteClient(g)
  \/ RunEnds(g) \/ DeleteHostKey(g) \/ Remove(g) \/ DeleteRow(g) \/ HandlerDbError(g)

Environment ==
  \/ Close
  \/ \E c \in Clients : TransportBreaks(c)
  \/ \E s \in Servers, k \in HostKeys : HostRotates(s, k)

Next ==
  \/ \E g \in Goroutines, o \in Ops, s \in Servers : Start(g, o, s)
  \/ \E g \in Goroutines : Step(g)
  \/ Environment

Spec == Init /\ [][Next]_vars

\* The steps that wait for nobody outside the process. A dial, the opening of a channel on a
\* live transport and a command wait for the host, which need not answer: the handshake and
\* session.Run have no deadline.
Runs(g) ==
  \/ Lookup(g) \/ HostKeyCallback(g) \/ StoreHostKey(g) \/ StoreClient(g) \/ IncGauge(g)
  \/ go[g].client \notin open /\ NewSession(g)
  \/ Evict(g) \/ OverwriteClient(g) \/ DeleteHostKey(g) \/ Remove(g) \/ DeleteRow(g)

\* Go schedules every goroutine that can run.
FairSpec == Spec /\ \A g \in Goroutines : WF_vars(Runs(g))
-----------------------------------------------------------------------------
TypeOK ==
  /\ status \in [Servers -> Status]
  /\ pinned \in [Servers -> HostKeys \cup {NoKey}]
  /\ hostKey \in [Servers -> HostKeys]
  /\ conns \in [Servers -> Clients \cup {NoClient}]
  /\ gauge \in Int
  /\ open \subseteq Clients /\ broken \subseteq Clients /\ dropped \subseteq Clients
  /\ go \in [Goroutines -> Goroutine]
  /\ \A g \in Goroutines : go[g].pc # "idle" => go[g].srv \in Servers
  /\ shutdown \in BOOLEAN
  /\ faults \in 0..MaxFaults /\ rotations \in 0..MaxRotations
  /\ overwritten \in Nat

\* A client belongs to at most one place that may close or cache it: the goroutine that
\* dialled it, until it stores it (pool.go:102-115, 144-153), then one entry of conns.
Dialing == {g \in Goroutines : go[g].pc \in {"store", "overwrite"}}
ExclusiveOwner ==
  /\ \A s, t \in Pooled : conns[s] = conns[t] => s = t
  /\ \A g \in Dialing :
       /\ go[g].client \in (open \cup broken) \ PooledClients
       /\ \A h \in Goroutines \ {g} : go[h].client # go[g].client

\* No caller is ever handed a cached client that the pool itself has closed: the close
\* in getOrConnect's lost race (pool.go:111) and the ones in Remove and Close never hit
\* a client that is, or will again be, an entry of conns, of the same or another server.
PooledNotClosed == PooledClients \subseteq open \cup broken

\* The gauge differs from the number of cached connections by exactly two effects: the
\* increments still pending between Unlock and Inc (pool.go:115-118), and the entries
\* that Exec's reconnect replaced without a decrement (pool.go:153).
GaugeAccounts ==
  gauge + Cardinality(AtInc) = Cardinality(Pooled) + overwritten

\* A live connection nobody can reach any more (not cached, not in use by a goroutine)
\* was dropped by Exec's reconnect path (pool.go:137, 153); getOrConnect, Session,
\* Remove and Close leak none, however they interleave.
OrphansWereDropped == open \ (PooledClients \cup Held) \subseteq dropped

\* host_keys never holds a key for a server whose row is gone, although a dial that read
\* the row before the delete may store the key after it (pool.go:40, 61; server.go:458).
NoOrphanHostKey == \A s \in Servers : pinned[s] # NoKey => status[s] # "deleted"

\* The first command that meets a cached client whose transport broke takes it out of the
\* pool, although Session returns the error and leaves it there (pool.go:132-141, 183-186):
\* whatever the other goroutines do, and although a host may never answer one of them.
BrokenIsEvicted ==
  \A s \in Servers, c \in Clients :
    (/\ conns[s] = c /\ c \notin open
     /\ \E g \in Goroutines : go[g].pc = "lookup" /\ go[g].op = "Exec" /\ go[g].srv = s)
      ~> (conns[s] # c)

\* Help text of the gauge (metrics.go:20): the number of cached connections. Asked only
\* when no operation is in progress.
GaugeIsPoolSize ==
  (\A g \in Goroutines : go[g].pc = "idle") => gauge = Cardinality(Pooled)

\* "First connection stores the host's public key. Subsequent connections verify it
\* matches" (docs/architecture.md:40): a stored key is removed by accept-key or by the
\* deletion of the server, and never replaced by another key.
PinnedKeyIsKept ==
  [][\A s \in Servers : pinned[s] # NoKey => pinned'[s] \in {pinned[s], NoKey}]_vars
=============================================================================
