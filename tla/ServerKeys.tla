------------------------------ MODULE ServerKeys ------------------------------
(***************************************************************************)
(* The SSH keys of the servers: the two key stores (internal/keystore)     *)
(* behind the SwappableKeyStore, the handlers that create and delete a     *)
(* server and upload its key (internal/server/server.go), and the dials    *)
(* that read the key (internal/sshpool/pool.go). A connection is the key   *)
(* it was authenticated with; what else the pool does is in SSHPool.       *)
(***************************************************************************)
EXTENDS Integers, FiniteSets

CONSTANTS
  Servers, Requests, Keys, Secrets,
  MaxFaults,    \* bound: failed calls of Vault or the database, lost connections
  MaxChanges,   \* bound: swaps, restarts and changes made on a host or in Vault
  NoKey

ASSUME KeysAssumption ==
  /\ NoKey \notin Keys /\ Servers # {} /\ Secrets # {}
  /\ MaxFaults \in Nat /\ MaxChanges \in Nat

VARIABLES
  row,        \* servers table: "new" before the INSERT, key_source, "gone" after the DELETE
  local,      \* ssh_keys: the key and the secret it is sealed with
  vault,      \* Vault: the key under secretPath/id
  shared,     \* Vault: the key under the path that the vault_ref servers name
  inner,      \* backend in SwappableKeyStore
  secret,     \* encryption secret of this process
  conn,       \* key of the cached connection
  req,        \* requests: program counter and locals
  faults, changes,
  overlapped, \* history: servers with a request beside their deletion, or whose key the
              \* deletion did not reach
  saved       \* history: the upload last answered with success, with its backend

keyVars == <<row, local, vault, saved>>
hostVars == <<conn, shared>>
ownVars == <<inner, secret, changes>>
vars == <<keyVars, hostVars, ownVars, req, faults, overlapped>>

Backends == {"local", "vault"}
Unsealed == [key |-> NoKey, secret |-> CHOOSE x \in Secrets : TRUE]
Unsaved == [key |-> NoKey, be |-> "local"]
Locals(pc, op, s, call, k, be, again) ==
  [pc |-> pc, op |-> op, srv |-> s, call |-> call, key |-> k, be |-> be, again |-> again]
At(pc, op, s, call, k) == Locals(pc, op, s, call, k, "local", FALSE)
Idle == At("idle", "Use", CHOOSE s \in Servers : TRUE, "Get", NoKey)

Request ==
  [pc : {"idle", "rlock", "call", "lock", "exec", "dial", "insert", "remove", "deleteRow"},
   op : {"Use", "Delete", "Create", "Swap"}, srv : Servers,
   call : {"Get", "GetFromPath", "Put", "Delete"},
   key : Keys \cup {NoKey}, be : Backends, again : BOOLEAN]

TypeOK ==
  /\ row \in [Servers -> {"new", "local", "vault_ref", "gone"}]
  /\ local \in [Servers -> [key : Keys \cup {NoKey}, secret : Secrets]]
  /\ saved \in [Servers -> [key : Keys \cup {NoKey}, be : Backends]]
  /\ vault \in [Servers -> Keys \cup {NoKey}] /\ conn \in [Servers -> Keys \cup {NoKey}]
  /\ shared \in Keys
  /\ inner \in Backends /\ secret \in Secrets
  /\ req \in [Requests -> Request]
  /\ faults \in 0..MaxFaults /\ changes \in 0..MaxChanges
  /\ overlapped \subseteq Servers

Init ==
  /\ row = [s \in Servers |-> "new"]
  /\ local = [s \in Servers |-> Unsealed] /\ vault = [s \in Servers |-> NoKey]
  /\ saved = [s \in Servers |-> Unsaved]
  /\ shared \in Keys
  /\ inner \in Backends /\ secret \in Secrets
  /\ conn = [s \in Servers |-> NoKey]
  /\ req = [r \in Requests |-> Idle]
  /\ faults = 0 /\ changes = 0
  /\ overlapped = {}
-----------------------------------------------------------------------------
Exists(s) == row[s] \in {"local", "vault_ref"}
Working(s) == {r \in Requests : req[r].pc # "idle" /\ req[r].op # "Swap" /\ req[r].srv = s}
Fault == faults < MaxFaults /\ faults' = faults + 1
Change == changes < MaxChanges /\ changes' = changes + 1
Goto(r, pc) == req' = [req EXCEPT ![r] = At(pc, @.op, @.srv, "Get", NoKey)]
Return(r) == req' = [req EXCEPT ![r] = Idle]

Begin(r, op, s, pc, call, k) ==
  /\ req[r].pc = "idle"
  /\ req' = [req EXCEPT ![r] = At(pc, op, s, call, k)]
  /\ overlapped' = IF Working(s) # {} /\ "Delete" \in {op} \cup {req[q].op : q \in Working(s)}
                   THEN overlapped \cup {s} ELSE overlapped
  /\ UNCHANGED <<keyVars, hostVars, inner, secret, faults>>

\* sync.RWMutex: a waiting writer keeps new readers out.
Waiting == {r \in Requests : req[r].pc = "lock"}
Readers == {r \in Requests : req[r].pc = "call"}

\* Mutant: readers overtake a waiting writer.
ReadersFirst == TRUE

MayRLock == Waiting = {}

\* A request that is refused (no such server, wrong key source) changes nothing.
HandleUploadKey(r, s, k) ==
  row[s] = "local" /\ Begin(r, "Use", s, "rlock", "Put", k) /\ UNCHANGED changes

HandleDeleteServer(r, s) ==
  Exists(s) /\ Begin(r, "Delete", s, "rlock", "Delete", NoKey) /\ UNCHANGED changes

\* The poller, a terminal or a session request, perhaps with an id that is gone.
Exec(r, s) ==
  row[s] # "new" /\ Begin(r, "Use", s, "exec", "Get", NoKey) /\ UNCHANGED changes

\* A vault_ref server needs the Vault backend, which Backend() reads under the lock, and a
\* readable path before its INSERT.
HandleCreateServer(r, s) ==
  /\ row[s] = "new" /\ Working(s) = {}
  /\ \/ Begin(r, "Create", s, "insert", "Get", NoKey)
     \/ MayRLock /\ inner = "vault" /\ Begin(r, "Create", s, "rlock", "GetFromPath", NoKey)
  /\ UNCHANGED changes

ReinitVault(r) == Change /\ Begin(r, "Swap", Idle.srv, "lock", "Get", NoKey)
-----------------------------------------------------------------------------
RLock(r) ==
  /\ req[r].pc = "rlock" /\ MayRLock
  /\ req' = [req EXCEPT ![r] = Locals("call", @.op, @.srv, @.call, @.key, inner, @.again)]
  /\ UNCHANGED <<keyVars, hostVars, ownVars, faults, overlapped>>

\* Mutant: Swap does not wait for the calls in progress.
SwapAtOnce == TRUE

MayLock == Readers = {}

Swap(r) ==
  /\ req[r].pc = "lock" /\ MayLock
  /\ inner' \in Backends
  /\ Return(r)
  /\ UNCHANGED <<keyVars, hostVars, secret, changes, faults, overlapped>>

\* What a call finds. A local key opens only under the secret it was sealed with, and the
\* local store has no paths.
Found(be, call, s) ==
  CASE be = "local" /\ call = "Get" -> IF local[s].secret = secret THEN local[s].key ELSE NoKey
    [] be = "vault" /\ call = "Get" -> vault[s]
    [] be = "vault" /\ call = "GetFromPath" -> shared
    [] OTHER -> NoKey

\* Mutant: ON CONFLICT DO NOTHING.
SealFirst(s, k) == IF local[s].key = NoKey THEN [key |-> k, secret |-> secret] ELSE local[s]

Seal(s, k) == [key |-> k, secret |-> secret]

Write(be, s, k) ==
  /\ IF be = "local"
     THEN /\ local' = [local EXCEPT ![s] = IF k = NoKey THEN Unsealed ELSE Seal(s, k)]
          /\ UNCHANGED vault
     ELSE vault' = [vault EXCEPT ![s] = k] /\ UNCHANGED local
  /\ UNCHANGED row

\* ssh_keys references servers; Vault knows nothing of them.
MayPut(be, s) == be = "local" => Exists(s)

\* A call that fails may have been carried out by Vault.
Put(r) ==
  LET q == req[r] IN
  /\ q.pc = "call" /\ q.call = "Put"
  /\ \/ /\ MayPut(q.be, q.srv)
        /\ Write(q.be, q.srv, q.key)
        /\ saved' = [saved EXCEPT ![q.srv] = [key |-> q.key, be |-> q.be]]
        /\ Goto(r, "exec")
        /\ UNCHANGED faults
     \/ ~MayPut(q.be, q.srv) /\ Return(r) /\ UNCHANGED <<keyVars, faults>>
     \/ /\ Fault
        /\ \/ UNCHANGED keyVars
           \/ /\ q.be = "vault" /\ Write(q.be, q.srv, q.key)
              /\ saved' = [saved EXCEPT ![q.srv] = IF @.be = "vault" THEN Unsaved ELSE @]
        /\ Return(r)
  /\ UNCHANGED <<hostVars, ownVars, overlapped>>

\* The handler goes on whatever the store answers.
Delete(r) ==
  LET q == req[r] IN
  /\ q.pc = "call" /\ q.call = "Delete"
  /\ \/ /\ Write(q.be, q.srv, NoKey)
        /\ saved' = [saved EXCEPT ![q.srv] = IF @.be = q.be THEN Unsaved ELSE @]
        /\ UNCHANGED faults
     \/ Fault /\ UNCHANGED keyVars
  /\ overlapped' = IF vault'[q.srv] # NoKey THEN overlapped \cup {q.srv} ELSE overlapped
  /\ Goto(r, "remove")
  /\ UNCHANGED <<hostVars, ownVars>>

\* Get and GetFromPath, for a dial or for the check of a vault_ref path.
Get(r) ==
  LET q == req[r]
      key == Found(q.be, q.call, q.srv)
  IN /\ q.pc = "call" /\ q.call \in {"Get", "GetFromPath"}
     /\ \/ /\ key # NoKey
           /\ req' = [req EXCEPT ![r] =
                        IF q.op = "Create" THEN At("insert", q.op, q.srv, q.call, NoKey)
                        ELSE Locals("dial", q.op, q.srv, "Get", key, "local", q.again)]
           /\ UNCHANGED faults
        \/ key = NoKey /\ Return(r) /\ UNCHANGED faults
        \/ Fault /\ Return(r)
     /\ UNCHANGED <<keyVars, hostVars, ownVars, overlapped>>
-----------------------------------------------------------------------------
KeySource(call) == IF call = "GetFromPath" THEN "vault_ref" ELSE "local"

Insert(r) ==
  LET q == req[r] IN
  /\ q.pc = "insert"
  /\ \/ row' = [row EXCEPT ![q.srv] = KeySource(q.call)] /\ UNCHANGED faults
     \/ Fault /\ UNCHANGED row
  /\ Return(r)
  /\ UNCHANGED <<local, vault, saved, hostVars, ownVars, overlapped>>

\* pool.Exec: a cached connection needs no key. connect reads the row, then the key.
Connect(r, again) ==
  LET s == req[r].srv IN
  IF Exists(s)
  THEN req' = [req EXCEPT ![r] = Locals("rlock", @.op, s, IF row[s] = "vault_ref" THEN "GetFromPath" ELSE "Get",
                                        NoKey, "local", again)]
  ELSE Return(r)

GetOrConnect(r) ==
  LET s == req[r].srv IN
  /\ req[r].pc = "exec"
  /\ \/ conn[s] = NoKey /\ Connect(r, FALSE) /\ UNCHANGED <<conn, faults>>
     \/ conn[s] # NoKey /\ Return(r) /\ UNCHANGED <<conn, faults>>
     \/ /\ conn[s] # NoKey /\ Fault
        /\ conn' = [conn EXCEPT ![s] = NoKey]
        /\ Connect(r, TRUE)
  /\ UNCHANGED <<keyVars, shared, ownVars, overlapped>>

\* The host accepts the key or not. The first connection stays in the pool, one made by a
\* reconnect replaces what is there.
Dial(r) ==
  LET q == req[r] IN
  /\ q.pc = "dial"
  /\ \/ conn' = [conn EXCEPT ![q.srv] = IF @ = NoKey \/ q.again THEN q.key ELSE @]
     \/ UNCHANGED conn
  /\ Return(r)
  /\ UNCHANGED <<keyVars, shared, ownVars, faults, overlapped>>

\* Mutant: the deletion of a server leaves its connection in the pool.
RemoveNothing(r) ==
  /\ req[r].pc = "remove"
  /\ Goto(r, "deleteRow")
  /\ UNCHANGED <<keyVars, hostVars, ownVars, faults, overlapped>>

Remove(r) ==
  /\ req[r].pc = "remove"
  /\ conn' = [conn EXCEPT ![req[r].srv] = NoKey]
  /\ Goto(r, "deleteRow")
  /\ UNCHANGED <<keyVars, shared, ownVars, faults, overlapped>>

\* ON DELETE CASCADE takes the local key along.
DeleteServer(r) ==
  LET s == req[r].srv IN
  /\ req[r].pc = "deleteRow"
  /\ \/ /\ row' = [row EXCEPT ![s] = "gone"]
        /\ local' = [local EXCEPT ![s] = Unsealed]
        /\ saved' = [saved EXCEPT ![s] = IF @.be = "local" THEN Unsaved ELSE @]
        /\ UNCHANGED <<vault, faults>>
     \/ Fault /\ UNCHANGED keyVars
  /\ Return(r)
  /\ UNCHANGED <<hostVars, ownVars, overlapped>>
-----------------------------------------------------------------------------
\* External: the key under the shared path is rotated.
Rotate ==
  /\ Change
  /\ shared' \in Keys
  /\ UNCHANGED <<keyVars, conn, inner, secret, req, faults, overlapped>>

\* main chooses backend and secret anew; requests and connections are gone.
Restart ==
  /\ Change
  /\ inner' \in Backends /\ secret' \in Secrets
  /\ req' = [r \in Requests |-> Idle]
  /\ conn' = [s \in Servers |-> NoKey]
  /\ UNCHANGED <<keyVars, shared, faults, overlapped>>

Call(r) == Put(r) \/ Delete(r) \/ Get(r)
Step(r) ==
  \/ RLock(r) \/ Swap(r) \/ Call(r) \/ Insert(r)
  \/ GetOrConnect(r) \/ Dial(r) \/ Remove(r) \/ DeleteServer(r)

Next ==
  \/ \E r \in Requests :
       \/ Step(r) \/ ReinitVault(r)
       \/ \E s \in Servers :
            \/ HandleDeleteServer(r, s) \/ Exec(r, s) \/ HandleCreateServer(r, s)
            \/ \E k \in Keys : HandleUploadKey(r, s, k)
  \/ Rotate \/ Restart

Spec == Init /\ [][Next]_vars

\* Calls of the database and of Vault return, with an answer or a timeout.
FairSpec == Spec /\ \A r \in Requests : WF_vars(Swap(r)) /\ WF_vars(Call(r))
-----------------------------------------------------------------------------
\* A call works on the backend that is in force: Swap waits for the calls in progress, so
\* no key is stored in or read from a store that was replaced meanwhile (swappable.go).
CallsUseInner == \A r \in Readers : req[r].be = inner

\* A key whose upload was answered with success stays the key its backend returns, across
\* swaps and restarts with the same secret, until it is uploaded again or deleted.
SavedKeyIsRead ==
  \A s \in Servers :
    LET k == saved[s] IN
    k.key # NoKey /\ (k.be = "local" => local[s].secret = secret) => Found(k.be, "Get", s) = k.key

\* A deleted server leaves no key and no connection behind, unless another request worked
\* on it during the deletion or Vault still held its key after the store's Delete.
DeletedLeavesNothing ==
  \A s \in Servers :
    row[s] = "gone" => /\ local[s].key = NoKey
                       /\ s \notin overlapped => vault[s] = NoKey /\ conn[s] = NoKey

\* A swap of the key store ends although requests keep coming.
SwapCompletes == \A r \in Requests : req[r].pc = "lock" ~> req[r].pc = "idle"

\* "The key is read live on every SSH connection [...] This means key rotation in Vault
\* takes effect immediately" (prp-22:11): the connection in use has the current key.
RotationTakesEffect ==
  \A s \in Servers : row[s] = "vault_ref" /\ conn[s] # NoKey => conn[s] = shared
=============================================================================
