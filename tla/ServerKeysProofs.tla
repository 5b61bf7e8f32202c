--------------------------- MODULE ServerKeysProofs ---------------------------
(***************************************************************************)
(* Proofs about the stored keys, for every number of servers, concurrent   *)
(* requests, keys, secrets, faults and changes.                            *)
(***************************************************************************)
EXTENDS ServerKeys, TLAPS

\* Which program counters belong to which operation.
Shape(q) ==
  \/ q.pc = "idle"
  \/ q.op = "Use" /\ q.pc \in {"rlock", "call"} /\ q.call \in {"Get", "GetFromPath", "Put"}
  \/ q.op = "Use" /\ q.pc \in {"exec", "dial"}
  \/ q.op = "Delete" /\ q.pc \in {"rlock", "call"} /\ q.call = "Delete"
  \/ q.op = "Delete" /\ q.pc \in {"remove", "deleteRow"}
  \/ q.op = "Create" /\ q.pc \in {"rlock", "call"} /\ q.call = "GetFromPath"
  \/ q.op = "Create" /\ q.pc = "insert"
  \/ q.op = "Swap" /\ q.pc = "lock"

WellFormed == TypeOK /\ \A r \in Requests : Shape(req[r])

LEMMA IdleShape == Idle \in Request /\ Shape(Idle) /\ Idle.pc = "idle" /\ Idle.srv \in Servers
<1>1. (CHOOSE s \in Servers : TRUE) \in Servers
  BY KeysAssumption
<1> QED BY <1>1 DEF Idle, At, Locals, Request, Shape, Backends

LEMMA UnsealedType == Unsealed \in [key : Keys \cup {NoKey}, secret : Secrets] /\ Unsealed.key = NoKey
<1>1. (CHOOSE x \in Secrets : TRUE) \in Secrets
  BY KeysAssumption
<1> QED BY <1>1 DEF Unsealed

LEMMA RequestStep ==
  ASSUME WellFormed, NEW r \in Requests, NEW q \in Request, Shape(q), req' = [req EXCEPT ![r] = q]
  PROVE  req' \in [Requests -> Request] /\ \A x \in Requests : Shape(req'[x])
BY DEF WellFormed, TypeOK

LEMMA LocalsType ==
  ASSUME NEW pc \in {"idle", "rlock", "call", "lock", "exec", "dial", "insert", "remove", "deleteRow"},
         NEW op \in {"Use", "Delete", "Create", "Swap"}, NEW s \in Servers,
         NEW call \in {"Get", "GetFromPath", "Put", "Delete"},
         NEW k \in Keys \cup {NoKey}, NEW be \in Backends, NEW again \in BOOLEAN
  PROVE  /\ Locals(pc, op, s, call, k, be, again) \in Request
         /\ At(pc, op, s, call, k) \in Request
BY DEF Locals, At, Request, Backends

LEMMA BeginType ==
  ASSUME WellFormed, NEW r \in Requests, NEW op, NEW s \in Servers, NEW pc, NEW call, NEW k,
         At(pc, op, s, call, k) \in Request, Shape(At(pc, op, s, call, k)), Begin(r, op, s, pc, call, k),
         changes' \in 0..MaxChanges
  PROVE  WellFormed'
<1>1. /\ req' = [req EXCEPT ![r] = At(pc, op, s, call, k)]
      /\ UNCHANGED <<keyVars, hostVars, inner, secret, faults>>
      /\ overlapped' \in {overlapped, overlapped \cup {s}}
  BY DEF Begin
<1>2. req' \in [Requests -> Request] /\ \A x \in Requests : Shape(req'[x])
  BY <1>1, RequestStep
<1> QED BY <1>1, <1>2 DEF WellFormed, TypeOK, keyVars, hostVars

LEMMA GotoType ==
  ASSUME WellFormed, NEW r \in Requests, NEW pc \in {"exec", "remove", "deleteRow"}, Goto(r, pc),
         pc = "exec" => req[r].op = "Use", pc # "exec" => req[r].op = "Delete"
  PROVE  req' \in [Requests -> Request] /\ \A x \in Requests : Shape(req'[x])
<1>1. req[r] \in Request
  BY DEF WellFormed, TypeOK
<1> DEFINE q == At(pc, req[r].op, req[r].srv, "Get", NoKey)
<1>2. q \in Request
  BY <1>1 DEF Request, At, Locals, Backends
<1>3. Shape(q)
  BY DEF At, Locals, Shape
<1>4. req' = [req EXCEPT ![r] = q]
  BY DEF Goto, WellFormed, TypeOK
<1> HIDE DEF q
<1> QED BY <1>2, <1>3, <1>4, RequestStep

LEMMA ReturnType ==
  ASSUME WellFormed, NEW r \in Requests, Return(r)
  PROVE  req' \in [Requests -> Request] /\ \A x \in Requests : Shape(req'[x])
BY IdleShape, RequestStep DEF Return

LEMMA FaultType == ASSUME TypeOK, Fault PROVE faults' \in 0..MaxFaults
BY KeysAssumption DEF TypeOK, Fault

LEMMA ChangeType == ASSUME TypeOK, Change PROVE changes' \in 0..MaxChanges
BY KeysAssumption DEF TypeOK, Change

LEMMA WriteType ==
  ASSUME TypeOK, NEW be \in Backends, NEW s \in Servers, NEW k \in Keys \cup {NoKey}, Write(be, s, k)
  PROVE  /\ local' \in [Servers -> [key : Keys \cup {NoKey}, secret : Secrets]]
         /\ vault' \in [Servers -> Keys \cup {NoKey}]
         /\ row' = row
<1> DEFINE v == IF k = NoKey THEN Unsealed ELSE Seal(s, k)
<1>1. v \in [key : Keys \cup {NoKey}, secret : Secrets]
  BY UnsealedType DEF TypeOK, Seal
<1>2. \/ local' = [local EXCEPT ![s] = v] /\ UNCHANGED <<vault, row>>
      \/ vault' = [vault EXCEPT ![s] = k] /\ UNCHANGED <<local, row>>
  BY DEF Write
<1> HIDE DEF v
<1>3. CASE local' = [local EXCEPT ![s] = v] /\ UNCHANGED <<vault, row>>
  BY <1>1, <1>3 DEF TypeOK
<1>4. CASE vault' = [vault EXCEPT ![s] = k] /\ UNCHANGED <<local, row>>
  BY <1>4 DEF TypeOK
<1> QED BY <1>2, <1>3, <1>4

LEMMA UnsavedType == Unsaved \in [key : Keys \cup {NoKey}, be : Backends] /\ Unsaved.key = NoKey
BY DEF Unsaved, Backends

LEMMA PutType == ASSUME WellFormed, NEW r \in Requests, Put(r) PROVE WellFormed'
<1> DEFINE q == req[r]
<1>1. q \in Request /\ q.pc = "call" /\ q.call = "Put" /\ q.op = "Use"
  BY DEF WellFormed, TypeOK, Put, Shape
<1>2. q.srv \in Servers /\ q.be \in Backends /\ q.key \in Keys \cup {NoKey}
  BY <1>1 DEF Request
<1>3. UNCHANGED <<hostVars, ownVars, overlapped>>
  BY DEF Put
<1>4. CASE /\ Write(q.be, q.srv, q.key)
           /\ saved' = [saved EXCEPT ![q.srv] = [key |-> q.key, be |-> q.be]]
           /\ Goto(r, "exec") /\ UNCHANGED faults
  <2> HIDE DEF q
  <2>1. req' \in [Requests -> Request] /\ \A x \in Requests : Shape(req'[x])
    BY <1>1, <1>4, GotoType DEF q
  <2>2. saved' \in [Servers -> [key : Keys \cup {NoKey}, be : Backends]]
    BY <1>2, <1>4 DEF WellFormed, TypeOK
  <2> QED BY <1>2, <1>3, <1>4, <2>1, <2>2, WriteType DEF WellFormed, TypeOK, hostVars, ownVars
<1>5. CASE Return(r) /\ UNCHANGED <<keyVars, faults>>
  BY <1>3, <1>5, ReturnType DEF WellFormed, TypeOK, hostVars, ownVars, keyVars
<1>6. CASE /\ Fault /\ Return(r)
           /\ \/ UNCHANGED keyVars
              \/ /\ Write(q.be, q.srv, q.key)
                 /\ saved' = [saved EXCEPT ![q.srv] = IF @.be = "vault" THEN Unsaved ELSE @]
  <2> HIDE DEF q
  <2>1. /\ req' \in [Requests -> Request] /\ \A x \in Requests : Shape(req'[x])
        /\ faults' \in 0..MaxFaults
    BY <1>6, ReturnType, FaultType DEF WellFormed
  <2>2. CASE UNCHANGED keyVars
    BY <1>3, <2>1, <2>2 DEF WellFormed, TypeOK, hostVars, ownVars, keyVars
  <2>3. CASE /\ Write(q.be, q.srv, q.key)
             /\ saved' = [saved EXCEPT ![q.srv] = IF @.be = "vault" THEN Unsaved ELSE @]
    <3>1. saved' \in [Servers -> [key : Keys \cup {NoKey}, be : Backends]]
      BY <1>2, <2>3, UnsavedType DEF WellFormed, TypeOK
    <3> QED BY <1>2, <1>3, <2>1, <2>3, <3>1, WriteType DEF WellFormed, TypeOK, hostVars, ownVars
  <2> QED BY <1>6, <2>2, <2>3
<1> QED BY <1>4, <1>5, <1>6 DEF Put

LEMMA DeleteType == ASSUME WellFormed, NEW r \in Requests, Delete(r) PROVE WellFormed'
<1> DEFINE q == req[r]
<1>1. q \in Request /\ q.pc = "call" /\ q.call = "Delete" /\ q.op = "Delete"
  BY DEF WellFormed, TypeOK, Delete, Shape
<1>2. q.srv \in Servers /\ q.be \in Backends
  BY <1>1 DEF Request
<1>3. /\ UNCHANGED <<hostVars, ownVars>>
      /\ overlapped' \in {overlapped, overlapped \cup {q.srv}}
      /\ Goto(r, "remove")
  BY DEF Delete
<1>4. req' \in [Requests -> Request] /\ \A x \in Requests : Shape(req'[x])
  BY <1>1, <1>3, GotoType
<1>5. CASE Fault /\ UNCHANGED keyVars
  BY <1>2, <1>3, <1>4, <1>5, FaultType DEF WellFormed, TypeOK, hostVars, ownVars, keyVars
<1>6. CASE /\ Write(q.be, q.srv, NoKey)
           /\ saved' = [saved EXCEPT ![q.srv] = IF @.be = q.be THEN Unsaved ELSE @]
           /\ UNCHANGED faults
  <2> HIDE DEF q
  <2>1. saved' \in [Servers -> [key : Keys \cup {NoKey}, be : Backends]]
    BY <1>2, <1>6, UnsavedType DEF WellFormed, TypeOK
  <2> QED BY <1>2, <1>3, <1>4, <1>6, <2>1, WriteType DEF WellFormed, TypeOK, hostVars, ownVars
<1> QED BY <1>5, <1>6 DEF Delete

LEMMA GetType == ASSUME WellFormed, NEW r \in Requests, Get(r) PROVE WellFormed'
<1> DEFINE q == req[r]
           key == Found(q.be, q.call, q.srv)
<1>1. q \in Request /\ Shape(q) /\ q.pc = "call" /\ q.call \in {"Get", "GetFromPath"}
  BY DEF WellFormed, TypeOK, Get
<1>2. q.srv \in Servers /\ q.again \in BOOLEAN /\ q.op \in {"Use", "Create"}
  BY <1>1 DEF Request, Shape
<1>3. key \in Keys \cup {NoKey}
  BY <1>2 DEF Found, WellFormed, TypeOK
<1>4. UNCHANGED <<keyVars, hostVars, ownVars, overlapped>>
  BY DEF Get
<1>5. CASE /\ req' = [req EXCEPT ![r] = IF q.op = "Create" THEN At("insert", q.op, q.srv, q.call, NoKey)
                         ELSE Locals("dial", q.op, q.srv, "Get", key, "local", q.again)]
           /\ UNCHANGED faults
  <2> HIDE DEF q, key
  <2> DEFINE n == IF q.op = "Create" THEN At("insert", q.op, q.srv, q.call, NoKey)
                  ELSE Locals("dial", q.op, q.srv, "Get", key, "local", q.again)
  <2>1. n \in Request
    <3>1. At("insert", "Create", q.srv, q.call, NoKey) \in Request
      BY <1>1, <1>2 DEF At, Locals, Request, Backends
    <3>2. Locals("dial", "Use", q.srv, "Get", key, "local", q.again) \in Request
      BY <1>2, <1>3 DEF Locals, Request, Backends
    <3> QED BY <1>2, <3>1, <3>2
  <2>2. Shape(n)
    BY <1>2 DEF Shape, At, Locals
  <2>3. req' = [req EXCEPT ![r] = n]
    BY <1>5
  <2> HIDE DEF n
  <2>4. req' \in [Requests -> Request] /\ \A x \in Requests : Shape(req'[x])
    BY <2>1, <2>2, <2>3, RequestStep
  <2> QED BY <1>4, <1>5, <2>4 DEF WellFormed, TypeOK, hostVars, ownVars, keyVars
<1>6. CASE Return(r) /\ (Fault \/ UNCHANGED faults)
  <2>1. faults' \in 0..MaxFaults
    BY <1>6, FaultType DEF WellFormed, TypeOK
  <2> QED BY <1>4, <1>6, <2>1, ReturnType DEF WellFormed, TypeOK, hostVars, ownVars, keyVars
<1> QED BY <1>5, <1>6 DEF Get

LEMMA ConnectType ==
  ASSUME WellFormed, NEW r \in Requests, NEW again \in BOOLEAN, req[r].pc = "exec", Connect(r, again)
  PROVE  req' \in [Requests -> Request] /\ \A x \in Requests : Shape(req'[x])
<1> DEFINE s == req[r].srv
           call == IF row[s] = "vault_ref" THEN "GetFromPath" ELSE "Get"
           q == Locals("rlock", req[r].op, s, call, NoKey, "local", again)
<1>1. req[r] \in Request /\ req[r].op = "Use" /\ s \in Servers
  BY DEF WellFormed, TypeOK, Request, Shape
<1>2. CASE Return(r)
  BY <1>2, ReturnType
<1>3. CASE req' = [req EXCEPT ![r] = q]
  <2>1. call \in {"Get", "GetFromPath"}
    OBVIOUS
  <2> HIDE DEF call, s
  <2>2. q \in Request
    BY <1>1, <2>1, LocalsType DEF Backends
  <2>3. Shape(q)
    BY <1>1, <2>1 DEF Locals, Shape
  <2> HIDE DEF q
  <2> QED BY <1>3, <2>2, <2>3, RequestStep
<1> QED BY <1>2, <1>3 DEF Connect, WellFormed, TypeOK

LEMMA TypeStep == WellFormed /\ [Next]_vars => WellFormed'
<1> SUFFICES ASSUME WellFormed, [Next]_vars PROVE WellFormed'
  OBVIOUS
<1> USE DEF keyVars, hostVars, ownVars
<1>1. CASE UNCHANGED vars
  BY <1>1 DEF vars, WellFormed, TypeOK
<1>2. ASSUME NEW r \in Requests, RLock(r) PROVE WellFormed'
  <2> DEFINE q == req[r]
             n == Locals("call", q.op, q.srv, q.call, q.key, inner, q.again)
  <2>1. q \in Request /\ Shape(q) /\ q.pc = "rlock" /\ inner \in Backends
    BY <1>2 DEF WellFormed, TypeOK, RLock
  <2>2. n \in Request
    BY <2>1 DEF Request, Locals
  <2>3. Shape(n)
    BY <2>1 DEF Shape, Locals
  <2>4. req' = [req EXCEPT ![r] = n] /\ UNCHANGED <<keyVars, hostVars, ownVars, faults, overlapped>>
    BY <1>2 DEF RLock, WellFormed, TypeOK
  <2> HIDE DEF q, n
  <2> QED BY <2>2, <2>3, <2>4, RequestStep DEF WellFormed, TypeOK
<1>3. ASSUME NEW r \in Requests, Swap(r) PROVE WellFormed'
  BY <1>3, ReturnType DEF Swap, WellFormed, TypeOK
<1>4. ASSUME NEW r \in Requests, Insert(r) PROVE WellFormed'
  <2>1. req[r].srv \in Servers
    BY DEF WellFormed, TypeOK, Request
  <2>2. row' \in [Servers -> {"new", "local", "vault_ref", "gone"}] /\ faults' \in 0..MaxFaults
    BY <1>4, <2>1, FaultType DEF Insert, KeySource, WellFormed, TypeOK
  <2> QED BY <1>4, <2>2, ReturnType DEF Insert, WellFormed, TypeOK
<1>5. ASSUME NEW r \in Requests, GetOrConnect(r) PROVE WellFormed'
  <2>1. req[r].srv \in Servers
    BY DEF WellFormed, TypeOK, Request
  <2>2. conn' \in [Servers -> Keys \cup {NoKey}] /\ faults' \in 0..MaxFaults
    BY <1>5, <2>1, FaultType DEF GetOrConnect, WellFormed, TypeOK
  <2>3. req' \in [Requests -> Request] /\ \A x \in Requests : Shape(req'[x])
    BY <1>5, ConnectType, ReturnType DEF GetOrConnect
  <2> QED BY <1>5, <2>2, <2>3 DEF GetOrConnect, WellFormed, TypeOK
<1>6. ASSUME NEW r \in Requests, Dial(r) PROVE WellFormed'
  <2>1. req[r].srv \in Servers /\ req[r].key \in Keys \cup {NoKey}
    BY DEF WellFormed, TypeOK, Request
  <2>2. conn' \in [Servers -> Keys \cup {NoKey}]
    BY <1>6, <2>1 DEF Dial, WellFormed, TypeOK
  <2> QED BY <1>6, <2>2, ReturnType DEF Dial, WellFormed, TypeOK
<1>7. ASSUME NEW r \in Requests, Remove(r) PROVE WellFormed'
  <2>1. req[r].srv \in Servers /\ req[r].op = "Delete"
    BY <1>7 DEF WellFormed, TypeOK, Request, Shape, Remove
  <2>2. conn' \in [Servers -> Keys \cup {NoKey}]
    BY <1>7, <2>1 DEF Remove, WellFormed, TypeOK
  <2> QED BY <1>7, <2>1, <2>2, GotoType DEF Remove, WellFormed, TypeOK
<1>8. ASSUME NEW r \in Requests, DeleteServer(r) PROVE WellFormed'
  <2>1. req[r].srv \in Servers
    BY DEF WellFormed, TypeOK, Request
  <2>2. CASE Fault /\ UNCHANGED keyVars
    BY <1>8, <2>2, FaultType, ReturnType DEF DeleteServer, WellFormed, TypeOK
  <2>3. CASE /\ row' = [row EXCEPT ![req[r].srv] = "gone"]
             /\ local' = [local EXCEPT ![req[r].srv] = Unsealed]
             /\ saved' = [saved EXCEPT ![req[r].srv] = IF @.be = "local" THEN Unsaved ELSE @]
             /\ UNCHANGED <<vault, faults>>
    <3>1. /\ row' \in [Servers -> {"new", "local", "vault_ref", "gone"}]
          /\ local' \in [Servers -> [key : Keys \cup {NoKey}, secret : Secrets]]
      BY <2>1, <2>3, UnsealedType DEF WellFormed, TypeOK
    <3>2. saved' \in [Servers -> [key : Keys \cup {NoKey}, be : Backends]]
      BY <2>1, <2>3, UnsavedType DEF WellFormed, TypeOK
    <3> QED BY <1>8, <2>3, <3>1, <3>2, ReturnType DEF DeleteServer, WellFormed, TypeOK
  <2> QED BY <1>8, <2>2, <2>3 DEF DeleteServer
<1>9. ASSUME NEW r \in Requests, NEW s \in Servers,
             HandleDeleteServer(r, s) \/ Exec(r, s) \/ HandleCreateServer(r, s)
      PROVE  WellFormed'
  <2>1. /\ At("rlock", "Delete", s, "Delete", NoKey) \in Request
        /\ At("exec", "Use", s, "Get", NoKey) \in Request
        /\ At("insert", "Create", s, "Get", NoKey) \in Request
        /\ At("rlock", "Create", s, "GetFromPath", NoKey) \in Request
    BY DEF Request, At, Locals, Backends
  <2>2. /\ Shape(At("rlock", "Delete", s, "Delete", NoKey))
        /\ Shape(At("exec", "Use", s, "Get", NoKey))
        /\ Shape(At("insert", "Create", s, "Get", NoKey))
        /\ Shape(At("rlock", "Create", s, "GetFromPath", NoKey))
    BY DEF Shape, At, Locals
  <2>3. changes' \in 0..MaxChanges
    BY <1>9 DEF HandleDeleteServer, Exec, HandleCreateServer, WellFormed, TypeOK
  <2> QED BY <1>9, <2>1, <2>2, <2>3, BeginType DEF HandleDeleteServer, Exec, HandleCreateServer
<1>10. ASSUME NEW r \in Requests, NEW s \in Servers, NEW k \in Keys, HandleUploadKey(r, s, k)
       PROVE  WellFormed'
  <2>1. At("rlock", "Use", s, "Put", k) \in Request /\ Shape(At("rlock", "Use", s, "Put", k))
    BY DEF Request, At, Locals, Backends, Shape
  <2>2. changes' \in 0..MaxChanges
    BY <1>10 DEF HandleUploadKey, WellFormed, TypeOK
  <2> QED BY <1>10, <2>1, <2>2, BeginType DEF HandleUploadKey
<1>11. ASSUME NEW r \in Requests, ReinitVault(r) PROVE WellFormed'
  <2>1. Idle.srv \in Servers
    BY IdleShape
  <2>2. At("lock", "Swap", Idle.srv, "Get", NoKey) \in Request /\ Shape(At("lock", "Swap", Idle.srv, "Get", NoKey))
    BY <2>1 DEF Request, At, Locals, Backends, Shape
  <2> QED BY <1>11, <2>1, <2>2, BeginType, ChangeType DEF ReinitVault, WellFormed
<1>12. CASE Rotate
  BY <1>12, ChangeType DEF Rotate, WellFormed, TypeOK
<1>13. CASE Restart
  <2>1. req' \in [Requests -> Request] /\ \A x \in Requests : Shape(req'[x])
    BY <1>13, IdleShape DEF Restart
  <2> QED BY <1>13, <2>1, ChangeType DEF Restart, WellFormed, TypeOK
<1> QED BY <1>1, <1>2, <1>3, <1>4, <1>5, <1>6, <1>7, <1>8, <1>9, <1>10, <1>11, <1>12, <1>13,
           PutType, DeleteType, GetType DEF Next, Step, Call

LEMMA InitialWellFormed == Init => WellFormed
<1> SUFFICES ASSUME Init PROVE WellFormed
  OBVIOUS
<1>1. 0 \in 0..MaxFaults /\ 0 \in 0..MaxChanges
  BY KeysAssumption
<1> QED BY <1>1, IdleShape, UnsealedType, UnsavedType DEF Init, WellFormed, TypeOK

\* Rows, keys and the locals of the requests are well formed in every reachable state.
THEOREM TypeCorrect == Spec => []TypeOK
<1>1. WellFormed => TypeOK
  BY DEF WellFormed
<1> QED BY <1>1, InitialWellFormed, TypeStep, PTL DEF Spec
-----------------------------------------------------------------------------
\* Only RLock enters a call, and only Swap and Restart change the backend.
LEMMA OnlyRLockCalls ==
  ASSUME WellFormed, [Next]_vars
  PROVE  \/ Restart \/ \E r \in Requests : RLock(r) \/ Swap(r)
         \/ /\ inner' = inner
            /\ \A x \in Requests : req'[x].pc = "call" => req'[x] = req[x]
<1> DEFINE Keeps == inner' = inner /\ \A x \in Requests : req'[x].pc = "call" => req'[x] = req[x]
<1> USE DEF keyVars, hostVars, ownVars
<1>1. CASE UNCHANGED vars
  BY <1>1 DEF vars
<1>2. ASSUME NEW r \in Requests, Return(r), inner' = inner PROVE Keeps
  BY <1>2, IdleShape DEF Return, WellFormed, TypeOK
<1>3. ASSUME NEW r \in Requests, NEW pc \in {"exec", "remove", "deleteRow"}, Goto(r, pc), inner' = inner
      PROVE  Keeps
  BY <1>3 DEF Goto, At, Locals, WellFormed, TypeOK
<1>4. ASSUME NEW r \in Requests, NEW op, NEW x, NEW call, NEW k,
             NEW pc \in {"rlock", "exec", "insert", "lock"}, Begin(r, op, x, pc, call, k)
      PROVE  Keeps
  BY <1>4 DEF Begin, At, Locals, WellFormed, TypeOK
<1>5. ASSUME NEW r \in Requests, NEW again, Connect(r, again), inner' = inner PROVE Keeps
  <2>1. CASE Return(r)
    BY <1>2, <1>5, <2>1
  <2>2. CASE ~Return(r)
    BY <1>5, <2>2 DEF Connect, Locals, WellFormed, TypeOK
  <2> QED BY <2>1, <2>2
<1>6. ASSUME NEW r \in Requests, Get(r) PROVE Keeps
  <2>1. CASE Return(r)
    BY <1>2, <1>6, <2>1 DEF Get
  <2>2. CASE ~Return(r)
    BY <1>6, <2>2 DEF Get, At, Locals, WellFormed, TypeOK
  <2> QED BY <2>1, <2>2
<1>7. ASSUME NEW r \in Requests, Put(r) \/ Delete(r) PROVE Keeps
  BY <1>2, <1>3, <1>7 DEF Put, Delete
<1>8. ASSUME NEW r \in Requests, Insert(r) \/ Dial(r) \/ DeleteServer(r) PROVE Keeps
  BY <1>2, <1>8 DEF Insert, Dial, DeleteServer
<1>9. ASSUME NEW r \in Requests, GetOrConnect(r) PROVE Keeps
  BY <1>2, <1>5, <1>9 DEF GetOrConnect
<1>10. ASSUME NEW r \in Requests, Remove(r) PROVE Keeps
  BY <1>3, <1>10 DEF Remove
<1>11. ASSUME NEW r \in Requests, NEW s \in Servers,
              \/ HandleDeleteServer(r, s) \/ Exec(r, s) \/ HandleCreateServer(r, s) \/ ReinitVault(r)
              \/ \E k \in Keys : HandleUploadKey(r, s, k)
       PROVE  Keeps
  BY <1>4, <1>11 DEF HandleDeleteServer, Exec, HandleCreateServer, HandleUploadKey, ReinitVault
<1>12. CASE Rotate
  BY <1>12 DEF Rotate
<1>13. Servers # {}
  BY KeysAssumption
<1> HIDE DEF Keeps
<1>14. \/ Restart \/ (\E r \in Requests : RLock(r) \/ Swap(r)) \/ Keeps
  BY <1>1, <1>6, <1>7, <1>8, <1>9, <1>10, <1>11, <1>12, <1>13 DEF Next, Step, Call, Keeps
<1> QED BY <1>14 DEF Keeps

\* No call of a key store outlives its backend, for any number of requests and swaps
\* (SwappableKeyStore's read lock, swappable.go:18-58).
THEOREM CallsStayInner == Spec => []CallsUseInner
<1>1. Init => CallsUseInner
  BY IdleShape DEF Init, CallsUseInner, Readers
<1>2. WellFormed /\ CallsUseInner /\ [Next]_vars => CallsUseInner'
  <2> SUFFICES ASSUME WellFormed, CallsUseInner, [Next]_vars, NEW x \in Requests, req'[x].pc = "call"
               PROVE  req'[x].be = inner'
    BY DEF CallsUseInner, Readers
  <2>1. CASE Restart
    BY <2>1, IdleShape DEF Restart
  <2>2. ASSUME NEW r \in Requests, RLock(r) PROVE req'[x].be = inner'
    BY <2>2 DEF RLock, Locals, WellFormed, TypeOK, ownVars, CallsUseInner, Readers
  <2>3. ASSUME NEW r \in Requests, Swap(r) PROVE FALSE
    BY <2>3, IdleShape DEF Swap, Return, MayLock, Readers, WellFormed, TypeOK
  <2>4. CASE inner' = inner /\ req'[x] = req[x]
    BY <2>4 DEF CallsUseInner, Readers
  <2> QED BY <2>1, <2>2, <2>3, <2>4, OnlyRLockCalls
<1> QED BY <1>1, <1>2, InitialWellFormed, TypeStep, PTL DEF Spec
-----------------------------------------------------------------------------
\* The key last saved is in its store, sealed or not with the secret of this process.
Kept ==
  \A s \in Servers : saved[s].key # NoKey =>
    IF saved[s].be = "local" THEN local[s].key = saved[s].key ELSE vault[s] = saved[s].key

LEMMA KeysStep ==
  ASSUME [Next]_vars
  PROVE  \/ UNCHANGED <<local, vault, saved>>
         \/ \E r \in Requests : Put(r) \/ Delete(r) \/ DeleteServer(r)
<1> DEFINE Same == UNCHANGED <<local, vault, saved>>
<1> USE DEF keyVars
<1>1. ASSUME NEW r \in Requests, RLock(r) \/ Swap(r) \/ Get(r) \/ Insert(r) \/ GetOrConnect(r)
      PROVE  Same
  BY <1>1 DEF RLock, Swap, Get, Insert, GetOrConnect
<1>2. ASSUME NEW r \in Requests, Dial(r) \/ Remove(r) \/ ReinitVault(r) PROVE Same
  BY <1>2 DEF Dial, Remove, ReinitVault, Begin
<1>3. ASSUME NEW r \in Requests, NEW s \in Servers,
             HandleDeleteServer(r, s) \/ Exec(r, s) \/ HandleCreateServer(r, s)
      PROVE  Same
  BY <1>3 DEF HandleDeleteServer, Exec, HandleCreateServer, Begin
<1>4. ASSUME NEW r \in Requests, NEW s \in Servers, NEW k \in Keys, HandleUploadKey(r, s, k) PROVE Same
  BY <1>4 DEF HandleUploadKey, Begin
<1>5. ASSUME Rotate \/ Restart \/ UNCHANGED vars PROVE Same
  BY <1>5 DEF Rotate, Restart, vars
<1> HIDE DEF Same
<1>6. ASSUME NEW r \in Requests, Step(r) PROVE Same \/ Put(r) \/ Delete(r) \/ DeleteServer(r)
  BY <1>1, <1>2, <1>6 DEF Step, Call
<1>7. CASE \E r \in Requests : Step(r)
  BY <1>6, <1>7 DEF Same
<1>8. CASE Same
  BY <1>8 DEF Same
<1>9. Same \/ \E r \in Requests : Step(r)
  BY <1>2, <1>3, <1>4, <1>5 DEF Next
<1> QED BY <1>7, <1>8, <1>9

LEMMA KeptStep == WellFormed /\ Kept /\ [Next]_vars => Kept'
<1> SUFFICES ASSUME WellFormed, Kept, [Next]_vars, NEW s \in Servers, saved'[s].key # NoKey
             PROVE  IF saved'[s].be = "local" THEN local'[s].key = saved'[s].key
                    ELSE vault'[s] = saved'[s].key
  BY DEF Kept
<1> DEFINE Goal == IF saved'[s].be = "local" THEN local'[s].key = saved'[s].key
                   ELSE vault'[s] = saved'[s].key
<1> SUFFICES Goal
  OBVIOUS
<1>0. saved[s].be \in Backends
  BY DEF WellFormed, TypeOK
<1>1. CASE UNCHANGED <<local, vault, saved>>
  BY <1>1 DEF Kept
<1>2. ASSUME NEW be \in Backends, NEW t \in Servers, NEW k \in Keys \cup {NoKey}, Write(be, t, k)
      PROVE  /\ t # s => local'[s] = local[s] /\ vault'[s] = vault[s]
             /\ t = s /\ be = "local" => vault'[s] = vault[s] /\ local'[s].key = k
             /\ t = s /\ be = "vault" => vault'[s] = k /\ local'[s] = local[s]
  BY <1>2, UnsealedType DEF Write, Seal, WellFormed, TypeOK, Backends
<1>3. ASSUME NEW r \in Requests
      PROVE  req[r].srv \in Servers /\ req[r].be \in Backends /\ req[r].key \in Keys \cup {NoKey}
  BY DEF WellFormed, TypeOK, Request
<1>4. ASSUME NEW r \in Requests, Put(r) PROVE Goal
  <2> DEFINE q == req[r]
  <2>1. CASE /\ Write(q.be, q.srv, q.key)
             /\ saved' = [saved EXCEPT ![q.srv] = [key |-> q.key, be |-> q.be]]
    <3>1. q.srv \in Servers /\ q.be \in Backends /\ q.key \in Keys \cup {NoKey}
      BY <1>3
    <3> HIDE DEF q
    <3>2. CASE q.srv # s
      BY <1>2, <2>1, <3>1, <3>2 DEF Kept, WellFormed, TypeOK
    <3>3. CASE q.srv = s
      <4>1. saved'[s] = [key |-> q.key, be |-> q.be]
        BY <2>1, <3>3 DEF WellFormed, TypeOK
      <4> QED BY <1>2, <2>1, <3>1, <3>3, <4>1 DEF Backends
    <3> QED BY <3>2, <3>3
  <2>2. CASE UNCHANGED keyVars
    BY <1>1, <2>2 DEF keyVars
  <2>3. CASE /\ q.be = "vault" /\ Write(q.be, q.srv, q.key)
             /\ saved' = [saved EXCEPT ![q.srv] = IF @.be = "vault" THEN Unsaved ELSE @]
    <3>1. q.srv \in Servers /\ q.be \in Backends /\ q.key \in Keys \cup {NoKey}
      BY <1>3
    <3> HIDE DEF q
    <3>2. CASE q.srv # s
      BY <1>2, <2>3, <3>1, <3>2 DEF Kept, WellFormed, TypeOK
    <3>3. CASE q.srv = s
      <4>1. saved[s].be = "local" /\ saved'[s] = saved[s]
        BY <1>0, <2>3, <3>3, UnsavedType DEF WellFormed, TypeOK, Backends
      <4> QED BY <1>2, <2>3, <3>1, <3>3, <4>1 DEF Kept
    <3> QED BY <3>2, <3>3
  <2> QED BY <1>4, <2>1, <2>2, <2>3 DEF Put
<1>5. ASSUME NEW r \in Requests, Delete(r) PROVE Goal
  <2> DEFINE q == req[r]
  <2>1. CASE UNCHANGED keyVars
    BY <1>1, <2>1 DEF keyVars
  <2>2. CASE /\ Write(q.be, q.srv, NoKey)
             /\ saved' = [saved EXCEPT ![q.srv] = IF @.be = q.be THEN Unsaved ELSE @]
    <3>1. q.srv \in Servers /\ q.be \in Backends
      BY <1>3
    <3> HIDE DEF q
    <3>2. CASE q.srv # s
      BY <1>2, <2>2, <3>1, <3>2 DEF Kept, WellFormed, TypeOK
    <3>3. CASE q.srv = s
      <4>1. saved[s].be # q.be /\ saved'[s] = saved[s]
        BY <2>2, <3>3, UnsavedType DEF WellFormed, TypeOK
      <4> QED BY <1>0, <1>2, <2>2, <3>1, <3>3, <4>1 DEF Kept, Backends
    <3> QED BY <3>2, <3>3
  <2> QED BY <1>5, <2>1, <2>2 DEF Delete
<1>6. ASSUME NEW r \in Requests, DeleteServer(r) PROVE Goal
  <2> DEFINE t == req[r].srv
  <2>1. CASE UNCHANGED keyVars
    BY <1>1, <2>1 DEF keyVars
  <2>2. CASE /\ local' = [local EXCEPT ![t] = Unsealed]
             /\ saved' = [saved EXCEPT ![t] = IF @.be = "local" THEN Unsaved ELSE @]
             /\ vault' = vault
    <3>1. t \in Servers
      BY <1>3
    <3> HIDE DEF t
    <3>2. /\ saved'[s] = saved[s] /\ (t = s => saved[s].be # "local")
          /\ t # s => local'[s] = local[s]
      BY <2>2, <3>1, UnsavedType DEF WellFormed, TypeOK
    <3> QED BY <2>2, <3>2 DEF Kept
  <2> QED BY <1>6, <2>1, <2>2 DEF DeleteServer
<1> HIDE DEF Goal
<1> QED BY <1>1, <1>4, <1>5, <1>6, KeysStep

\* A key that was confirmed to the user stays the key its store returns, whatever swaps,
\* restarts, failed calls and other requests follow (Put of both stores).
THEOREM SavedKeysStay == Spec => []SavedKeyIsRead
<1>1. Init => Kept
  BY UnsavedType DEF Init, Kept
<1>2. WellFormed /\ Kept => SavedKeyIsRead
  <2> SUFFICES ASSUME WellFormed, Kept, NEW s \in Servers, saved[s].key # NoKey,
                      saved[s].be = "local" => local[s].secret = secret
               PROVE  Found(saved[s].be, "Get", s) = saved[s].key
    BY DEF SavedKeyIsRead
  <2>1. saved[s].be \in Backends
    BY DEF WellFormed, TypeOK
  <2>2. CASE saved[s].be = "local"
    BY <2>2 DEF Kept, Found
  <2>3. CASE saved[s].be = "vault"
    BY <2>3 DEF Kept, Found
  <2> QED BY <2>1, <2>2, <2>3 DEF Backends
<1> QED BY <1>1, <1>2, InitialWellFormed, TypeStep, KeptStep, PTL DEF Spec
-----------------------------------------------------------------------------
\* A deletion that no other request overlaps is alone with its server until the row is gone.
On(q, s) == q.pc # "idle" /\ q.op # "Swap" /\ q.srv = s

CreatesFirst(s) ==
  \A r, x \in Requests : On(req[r], s) /\ req[r].op = "Create" =>
    row[s] = "new" /\ (On(req[x], s) => x = r)

DeletesAlone(s) ==
  \A r, x \in Requests : On(req[r], s) /\ req[r].op = "Delete" =>
    /\ Exists(s) /\ (On(req[x], s) => x = r)
    /\ req[r].pc \in {"remove", "deleteRow"} => vault[s] = NoKey
    /\ req[r].pc = "deleteRow" => conn[s] = NoKey

GoneClean(s) ==
  row[s] = "gone" =>
    /\ vault[s] = NoKey /\ conn[s] = NoKey
    /\ \A r \in Requests : On(req[r], s) => req[r].op = "Use" /\ req[r].pc = "exec"

Alone(s) ==
  /\ row[s] = "gone" => local[s].key = NoKey
  /\ CreatesFirst(s)
  /\ s \notin overlapped => DeletesAlone(s) /\ GoneClean(s)

\* Nothing at s changes, and the requests on s go on with what they were doing.
LEMMA Quiet ==
  ASSUME NEW s \in Servers, Alone(s),
         row'[s] = row[s], local'[s] = local[s], vault'[s] = vault[s], conn'[s] \in {conn[s], NoKey},
         s \in overlapped => s \in overlapped',
         \A x \in Requests : On(req'[x], s) =>
           /\ On(req[x], s) /\ req'[x].op = req[x].op
           /\ req'[x].op = "Delete" /\ req'[x].pc \in {"remove", "deleteRow"} => req'[x].pc = req[x].pc
           /\ req[x].pc = "exec" => req'[x].pc = "exec" \/ Exists(s)
  PROVE  Alone(s)'
<1>1. CreatesFirst(s)'
  BY DEF Alone, CreatesFirst
<1>2. ASSUME s \notin overlapped' PROVE DeletesAlone(s)'
  BY <1>2 DEF Alone, DeletesAlone, Exists
<1>3. ASSUME s \notin overlapped' PROVE GoneClean(s)'
  BY <1>3 DEF Alone, GoneClean, Exists
<1> QED BY <1>1, <1>2, <1>3 DEF Alone

\* A step of a request that stays on its server leaves the other servers alone.
LEMMA Elsewhere ==
  ASSUME WellFormed, NEW s \in Servers, Alone(s), NEW r \in Requests, NEW q,
         req' = [req EXCEPT ![r] = q], On(q, s) => On(req[r], s), req[r].srv # s,
         row'[s] = row[s], local'[s] = local[s], vault'[s] = vault[s], conn'[s] = conn[s],
         s \in overlapped => s \in overlapped'
  PROVE  Alone(s)'
<1>1. \A x \in Requests : On(req'[x], s) => req'[x] = req[x]
  BY DEF WellFormed, TypeOK, On
<1> QED BY <1>1, Quiet

LEMMA IdleIsOff == \A s : ~On(Idle, s)
BY IdleShape DEF On

\* What a step of r may do to the server it works on, when nothing of the server changes.
LEMMA Proceeds ==
  ASSUME WellFormed, NEW s \in Servers, Alone(s), NEW r \in Requests, NEW q,
         req' = [req EXCEPT ![r] = q], UNCHANGED <<row, local, vault, conn, overlapped>>,
         On(q, s) => /\ On(req[r], s) /\ q.op = req[r].op
                     /\ q.pc \notin {"remove", "deleteRow"}
                     /\ req[r].pc = "exec" => Exists(s)
  PROVE  Alone(s)'
<1>1. ASSUME NEW x \in Requests, On(req'[x], s)
      PROVE  /\ On(req[x], s) /\ req'[x].op = req[x].op
             /\ req'[x].op = "Delete" /\ req'[x].pc \in {"remove", "deleteRow"} => req'[x].pc = req[x].pc
             /\ req[x].pc = "exec" => req'[x].pc = "exec" \/ Exists(s)
  BY <1>1 DEF WellFormed, TypeOK
<1> QED BY <1>1, Quiet

\* A request that begins beside a deletion, or a deletion beside a request, is an overlap.
LEMMA BeginAlone ==
  ASSUME WellFormed, NEW s \in Servers, Alone(s), NEW r \in Requests, NEW op, NEW t \in Servers,
         NEW pc, NEW call, NEW k, Begin(r, op, t, pc, call, k), pc # "idle",
         op = "Create" => row[t] = "new" /\ Working(t) = {},
         op \in {"Use", "Delete"} => row[t] # "new",
         op = "Delete" => Exists(t) /\ pc = "rlock",
         op = "Use" => pc = "exec" \/ Exists(t),
         op \in {"Use", "Delete", "Create", "Swap"}
  PROVE  Alone(s)'
<1> DEFINE q == At(pc, op, t, call, k)
<1>1. /\ req' = [req EXCEPT ![r] = q] /\ ~On(req[r], s)
      /\ UNCHANGED <<row, local, vault, conn>>
      /\ overlapped \subseteq overlapped'
  BY DEF Begin, keyVars, hostVars, On
<1>2. /\ q.op = op /\ q.pc = pc /\ q.srv = t
      /\ req'[r] = q /\ \A x \in Requests \ {r} : req'[x] = req[x]
  BY <1>1 DEF At, Locals, WellFormed, TypeOK
<1> HIDE DEF q
<1>3. CASE ~On(q, s)
  <2>1. \A x \in Requests : On(req'[x], s) => req'[x] = req[x]
    BY <1>2, <1>3
  <2> QED BY <1>1, <2>1, Quiet
<1>4. CASE On(q, s)
  <2>1. t = s /\ op # "Swap"
    BY <1>2, <1>4 DEF On
  <2>2. Working(s) = {x \in Requests : On(req[x], s)}
    BY DEF Working, On
  <2>3. CreatesFirst(s)'
    <3>1. CASE op = "Create"
      <4>1. row'[s] = "new" /\ \A x \in Requests : On(req'[x], s) => x = r
        BY <1>1, <1>2, <2>1, <2>2, <3>1
      <4> QED BY <4>1 DEF CreatesFirst
    <3>2. CASE op # "Create"
      <4>1. \A x \in Requests : On(req[x], s) => req[x].op # "Create"
        BY <2>1, <3>2 DEF Alone, CreatesFirst
      <4>2. \A x \in Requests : On(req'[x], s) => req'[x].op # "Create"
        BY <1>2, <3>2, <4>1
      <4> QED BY <4>2 DEF CreatesFirst
    <3> QED BY <3>1, <3>2
  <2>4. ASSUME s \notin overlapped' PROVE DeletesAlone(s)' /\ GoneClean(s)'
    <3>1. s \notin overlapped
      BY <1>1, <2>4
    <3>2. \A x \in Requests : On(req[x], s) => op # "Delete" /\ req[x].op # "Delete"
      BY <2>1, <2>2, <2>4 DEF Begin
    <3>3. DeletesAlone(s)'
      <4>1. CASE op = "Delete"
        <5>1. \A x \in Requests : On(req'[x], s) => x = r
          BY <1>2, <3>2, <4>1
        <5>2. Exists(s)' /\ req'[r].pc = "rlock"
          BY <1>1, <1>2, <2>1, <4>1 DEF Exists
        <5> QED BY <5>1, <5>2 DEF DeletesAlone
      <4>2. CASE op # "Delete"
        <5>1. \A x \in Requests : On(req'[x], s) => req'[x].op # "Delete"
          BY <1>2, <3>2, <4>2
        <5> QED BY <5>1 DEF DeletesAlone
      <4> QED BY <4>1, <4>2
    <3>4. GoneClean(s)'
      BY <1>1, <1>2, <2>1, <3>1 DEF Alone, GoneClean, Exists
    <3> QED BY <3>3, <3>4
  <2> QED BY <1>1, <2>3, <2>4 DEF Alone
<1> QED BY <1>3, <1>4

\* No deletion and no creation of s is in progress beside a request of another kind.
LEMMA UsesExclude ==
  ASSUME NEW s \in Servers, Alone(s), NEW r \in Requests, On(req[r], s), req[r].op = "Use"
  PROVE  /\ \A x \in Requests : On(req[x], s) => req[x].op # "Create"
         /\ s \notin overlapped => \A x \in Requests : On(req[x], s) => req[x].op # "Delete"
         /\ s \notin overlapped /\ req[r].pc # "exec" => row[s] # "gone"
BY DEF Alone, CreatesFirst, DeletesAlone, GoneClean

\* A use that has changed key or connection of a server with which nothing else is done.
LEMMA UseStep ==
  ASSUME WellFormed, NEW s \in Servers, Alone(s), NEW r \in Requests, NEW q,
         On(req[r], s), req[r].op = "Use", req[r].pc # "exec" \/ row[s] # "gone" \/ s \in overlapped,
         req' = [req EXCEPT ![r] = q], On(q, s) => q.op = "Use",
         UNCHANGED <<row, overlapped>>, row[s] = "gone" => local'[s].key = NoKey
  PROVE  Alone(s)'
<1>1. \A x \in Requests : On(req'[x], s) => On(req[x], s) /\ req'[x].op = req[x].op
  BY DEF WellFormed, TypeOK
<1>2. CreatesFirst(s)'
  BY <1>1, UsesExclude DEF CreatesFirst
<1>3. ASSUME s \notin overlapped PROVE DeletesAlone(s)' /\ row[s] # "gone"
  BY <1>1, <1>3, UsesExclude DEF DeletesAlone
<1> QED BY <1>2, <1>3 DEF Alone, GoneClean

LEMMA PutAlone == ASSUME WellFormed, NEW s \in Servers, Alone(s), NEW r \in Requests, Put(r) PROVE Alone(s)'
<1> DEFINE q == req[r]
<1>1. /\ q.pc = "call" /\ q.op = "Use" /\ q.srv \in Servers /\ q.be \in Backends
      /\ UNCHANGED <<conn, overlapped>>
  BY DEF Put, WellFormed, TypeOK, Shape, Request, hostVars
<1>2. row' = row
  BY DEF Put, Write, keyVars
<1>3. PICK n : req' = [req EXCEPT ![r] = n] /\ (n = Idle \/ n = At("exec", "Use", q.srv, "Get", NoKey))
  BY <1>1 DEF Put, Return, Goto, WellFormed, TypeOK
<1>4. \A x \in Servers : On(n, x) => n.op = "Use" /\ x = q.srv
  BY <1>3, IdleIsOff DEF On, At, Locals
<1>5. CASE q.srv # s
  <2>1. local'[s] = local[s] /\ vault'[s] = vault[s]
    BY <1>5 DEF Put, Write, keyVars, WellFormed, TypeOK
  <2> QED BY <1>1, <1>2, <1>3, <1>4, <1>5, <2>1, Elsewhere
<1>6. CASE q.srv = s
  <2>1. row[s] = "gone" => local'[s].key = NoKey
    BY <1>1, <1>6 DEF Put, MayPut, Write, Exists, keyVars, Alone, WellFormed, TypeOK, Backends
  <2>2. On(req[r], s)
    BY <1>1, <1>6 DEF On
  <2> QED BY <1>1, <1>2, <1>3, <1>4, <1>6, <2>1, <2>2, UseStep
<1> QED BY <1>5, <1>6

LEMMA DeleteAlone == ASSUME WellFormed, NEW s \in Servers, Alone(s), NEW r \in Requests, Delete(r) PROVE Alone(s)'
<1> DEFINE q == req[r]
           n == At("remove", "Delete", q.srv, "Get", NoKey)
<1>1. /\ q.pc = "call" /\ q.op = "Delete" /\ q.srv \in Servers
      /\ UNCHANGED <<conn, row>> /\ overlapped \subseteq overlapped'
  BY DEF Delete, Write, WellFormed, TypeOK, Shape, Request, hostVars, keyVars
<1>2. req' = [req EXCEPT ![r] = n]
  BY <1>1 DEF Delete, Goto, WellFormed, TypeOK
<1>3. n.op = "Delete" /\ n.pc = "remove" /\ n.srv = q.srv
  BY DEF At, Locals
<1> HIDE DEF n
<1>4. CASE q.srv # s
  <2>1. local'[s] = local[s] /\ vault'[s] = vault[s]
    BY <1>4 DEF Delete, Write, keyVars, WellFormed, TypeOK
  <2>2. ~On(n, s)
    BY <1>3, <1>4 DEF On
  <2> QED BY <1>1, <1>2, <1>4, <2>1, <2>2, Elsewhere
<1>5. CASE q.srv = s
  <2>1. On(q, s) /\ On(n, s)
    BY <1>1, <1>3, <1>5 DEF On
  <2>2. /\ req'[r] = n /\ \A x \in Requests \ {r} : req'[x] = req[x]
    BY <1>2 DEF WellFormed, TypeOK
  <2>3. row[s] = "gone" => local'[s].key = NoKey
    BY UnsealedType DEF Delete, Write, keyVars, Alone, WellFormed, TypeOK
  <2>4. CreatesFirst(s)'
    <3>1. \A x \in Requests : On(req[x], s) => req[x].op # "Create"
      BY <1>1, <2>1 DEF Alone, CreatesFirst
    <3>2. \A x \in Requests : On(req'[x], s) => req'[x].op # "Create"
      BY <1>3, <2>2, <3>1
    <3> QED BY <3>2 DEF CreatesFirst
  <2>5. ASSUME s \notin overlapped' PROVE DeletesAlone(s)' /\ GoneClean(s)'
    <3>1. s \notin overlapped /\ vault'[s] = NoKey
      BY <1>1, <1>5, <2>5 DEF Delete
    <3>2. Exists(s) /\ \A x \in Requests : On(req[x], s) => x = r
      BY <1>1, <2>1, <3>1 DEF Alone, DeletesAlone
    <3>3. Exists(s)' /\ \A x \in Requests : On(req'[x], s) => x = r
      BY <1>1, <2>2, <3>2 DEF Exists
    <3> QED BY <1>3, <2>2, <3>1, <3>3 DEF DeletesAlone, GoneClean, Exists
  <2> QED BY <1>1, <2>3, <2>4, <2>5 DEF Alone
<1> QED BY <1>4, <1>5

LEMMA DeleteRowAlone ==
  ASSUME WellFormed, NEW s \in Servers, Alone(s), NEW r \in Requests, DeleteServer(r) PROVE Alone(s)'
<1> DEFINE t == req[r].srv
<1>1. /\ req[r].pc = "deleteRow" /\ req[r].op = "Delete" /\ t \in Servers
      /\ UNCHANGED <<conn, vault, overlapped>> /\ req' = [req EXCEPT ![r] = Idle]
  BY DEF DeleteServer, Return, WellFormed, TypeOK, Shape, Request, hostVars, keyVars
<1>2. CASE t # s
  <2>1. local'[s] = local[s] /\ row'[s] = row[s]
    BY <1>2 DEF DeleteServer, keyVars, WellFormed, TypeOK
  <2> QED BY <1>1, <1>2, <2>1, IdleIsOff, Elsewhere
<1>3. CASE t = s /\ UNCHANGED <<row, local>>
  BY <1>1, <1>3, IdleIsOff, Proceeds
<1>4. CASE t = s /\ row'[s] = "gone" /\ local'[s].key = NoKey
  <2>1. On(req[r], s)
    BY <1>1, <1>4 DEF On
  <2>2. \A x \in Requests : On(req'[x], s) => x # r /\ req'[x] = req[x]
    BY <1>1, IdleIsOff DEF WellFormed, TypeOK
  <2>3. CreatesFirst(s)'
    BY <1>1, <2>1, <2>2 DEF Alone, CreatesFirst
  <2>4. ASSUME s \notin overlapped PROVE DeletesAlone(s)' /\ GoneClean(s)'
    BY <1>1, <2>1, <2>2, <2>4 DEF Alone, DeletesAlone, GoneClean
  <2> QED BY <1>1, <1>4, <2>3, <2>4 DEF Alone
<1> QED BY <1>1, <1>2, <1>3, <1>4, UnsealedType DEF DeleteServer, keyVars, WellFormed, TypeOK

LEMMA InsertAlone == ASSUME WellFormed, NEW s \in Servers, Alone(s), NEW r \in Requests, Insert(r) PROVE Alone(s)'
<1> DEFINE t == req[r].srv
<1>1. /\ req[r].pc = "insert" /\ req[r].op = "Create" /\ t \in Servers
      /\ UNCHANGED <<local, vault, conn, overlapped>> /\ req' = [req EXCEPT ![r] = Idle]
  BY DEF Insert, Return, WellFormed, TypeOK, Shape, Request, hostVars
<1>2. CASE t # s
  <2>1. row'[s] = row[s]
    BY <1>2 DEF Insert, WellFormed, TypeOK
  <2> QED BY <1>1, <1>2, <2>1, IdleIsOff, Elsewhere
<1>3. CASE t = s /\ UNCHANGED row
  BY <1>1, <1>3, IdleIsOff, Proceeds
<1>4. CASE t = s /\ row'[s] \in {"local", "vault_ref"}
  <2>1. On(req[r], s)
    BY <1>1, <1>4 DEF On
  <2>2. \A x \in Requests : ~On(req'[x], s)
    BY <1>1, <2>1, IdleIsOff DEF Alone, CreatesFirst, WellFormed, TypeOK
  <2> QED BY <1>4, <2>2 DEF Alone, CreatesFirst, DeletesAlone, GoneClean
<1> QED BY <1>1, <1>2, <1>3, <1>4 DEF Insert, KeySource, WellFormed, TypeOK

LEMMA ConnectAlone ==
  ASSUME WellFormed, NEW s \in Servers, Alone(s), NEW r \in Requests, GetOrConnect(r) PROVE Alone(s)'
<1> DEFINE q == req[r]
           t == q.srv
<1>1. /\ q.pc = "exec" /\ q.op = "Use" /\ t \in Servers
      /\ UNCHANGED <<row, local, vault, overlapped>>
  BY DEF GetOrConnect, WellFormed, TypeOK, Shape, Request, keyVars
<1>2. PICK n : /\ req' = [req EXCEPT ![r] = n]
               /\ \A x \in Servers : On(n, x) => n.op = "Use" /\ n.pc = "rlock" /\ x = t /\ Exists(t)
  <2>1. CASE Return(r)
    BY <2>1, IdleIsOff DEF Return
  <2>2. ASSUME NEW again, Exists(t), Connect(r, again)
        PROVE  \E m : /\ req' = [req EXCEPT ![r] = m]
                      /\ \A x \in Servers : On(m, x) => m.op = "Use" /\ m.pc = "rlock" /\ x = t /\ Exists(t)
    <3> DEFINE m == Locals("rlock", q.op, t, IF row[t] = "vault_ref" THEN "GetFromPath" ELSE "Get",
                           NoKey, "local", again)
    <3>1. req' = [req EXCEPT ![r] = m]
      BY <2>2 DEF Connect, WellFormed, TypeOK
    <3>2. \A x \in Servers : On(m, x) => m.op = "Use" /\ m.pc = "rlock" /\ x = t /\ Exists(t)
      BY <1>1, <2>2 DEF On, Locals
    <3> HIDE DEF m
    <3> QED BY <3>1, <3>2
  <2> QED BY <2>1, <2>2 DEF GetOrConnect, Connect
<1>3. CASE t # s
  <2>1. conn'[s] = conn[s]
    BY <1>3 DEF GetOrConnect, WellFormed, TypeOK
  <2> QED BY <1>1, <1>2, <1>3, <2>1, Elsewhere
<1>4. CASE t = s
  <2>1. conn'[s] \in {conn[s], NoKey}
    BY <1>4 DEF GetOrConnect, WellFormed, TypeOK
  <2>2. ASSUME NEW x \in Requests, On(req'[x], s)
        PROVE  /\ On(req[x], s) /\ req'[x].op = req[x].op
               /\ req'[x].op = "Delete" /\ req'[x].pc \in {"remove", "deleteRow"} => req'[x].pc = req[x].pc
               /\ req[x].pc = "exec" => req'[x].pc = "exec" \/ Exists(s)
    <3>1. CASE x = r
      BY <1>1, <1>2, <1>4, <2>2, <3>1 DEF On, WellFormed, TypeOK
    <3>2. CASE x # r
      BY <1>2, <2>2, <3>2 DEF WellFormed, TypeOK
    <3> QED BY <3>1, <3>2
  <2> QED BY <1>1, <2>1, <2>2, Quiet
<1> QED BY <1>3, <1>4

LEMMA DialAlone == ASSUME WellFormed, NEW s \in Servers, Alone(s), NEW r \in Requests, Dial(r) PROVE Alone(s)'
<1>1. /\ req[r].pc = "dial" /\ req[r].op = "Use" /\ req[r].srv \in Servers
      /\ UNCHANGED <<row, local, vault, overlapped>> /\ req' = [req EXCEPT ![r] = Idle]
  BY DEF Dial, Return, WellFormed, TypeOK, Shape, Request, keyVars
<1>2. CASE req[r].srv # s
  <2>1. conn'[s] = conn[s]
    BY <1>2 DEF Dial, WellFormed, TypeOK
  <2> QED BY <1>1, <1>2, <2>1, IdleIsOff, Elsewhere
<1>3. CASE req[r].srv = s
  BY <1>1, <1>3, IdleIsOff, UseStep DEF On, Alone
<1> QED BY <1>2, <1>3

LEMMA RemoveAlone == ASSUME WellFormed, NEW s \in Servers, Alone(s), NEW r \in Requests, Remove(r) PROVE Alone(s)'
<1> DEFINE t == req[r].srv
           n == At("deleteRow", "Delete", t, "Get", NoKey)
<1>1. /\ req[r].pc = "remove" /\ req[r].op = "Delete" /\ t \in Servers
      /\ UNCHANGED <<row, local, vault, overlapped>>
  BY DEF Remove, WellFormed, TypeOK, Shape, Request, keyVars
<1>2. req' = [req EXCEPT ![r] = n] /\ n.op = "Delete" /\ n.pc = "deleteRow" /\ n.srv = t
  BY <1>1 DEF Remove, Goto, WellFormed, TypeOK, At, Locals
<1> HIDE DEF n
<1>3. CASE t # s
  <2>1. conn'[s] = conn[s] /\ ~On(n, s)
    BY <1>2, <1>3 DEF Remove, WellFormed, TypeOK, On
  <2> QED BY <1>1, <1>2, <1>3, <2>1, Elsewhere
<1>4. CASE t = s
  <2>1. conn'[s] = NoKey /\ On(req[r], s)
    BY <1>1, <1>4 DEF Remove, WellFormed, TypeOK, On
  <2>2. /\ req'[r] = n /\ \A x \in Requests \ {r} : req'[x] = req[x]
    BY <1>2 DEF WellFormed, TypeOK
  <2>3. CreatesFirst(s)'
    <3>1. \A x \in Requests : On(req[x], s) => req[x].op # "Create"
      BY <1>1, <2>1 DEF Alone, CreatesFirst
    <3>2. \A x \in Requests : On(req'[x], s) => req'[x].op # "Create"
      BY <1>2, <2>2, <3>1
    <3> QED BY <3>2 DEF CreatesFirst
  <2>4. ASSUME s \notin overlapped PROVE DeletesAlone(s)' /\ GoneClean(s)'
    <3>1. Exists(s) /\ vault[s] = NoKey /\ \A x \in Requests : On(req[x], s) => x = r
      BY <1>1, <2>1, <2>4 DEF Alone, DeletesAlone
    <3> QED BY <1>1, <2>1, <2>2, <3>1 DEF DeletesAlone, GoneClean, Exists
  <2> QED BY <1>1, <2>3, <2>4 DEF Alone
<1> QED BY <1>3, <1>4

\* Taking the read lock, reading a key and swapping the store change nothing of a server.
LEMMA ReadAlone ==
  ASSUME WellFormed, NEW s \in Servers, Alone(s), NEW r \in Requests, RLock(r) \/ Swap(r) \/ Get(r)
  PROVE  Alone(s)'
<1> DEFINE q == req[r]
<1>1. UNCHANGED <<row, local, vault, conn, overlapped>> /\ q.pc \in {"rlock", "lock", "call"}
  BY DEF RLock, Swap, Get, keyVars, hostVars
<1>2. CASE req' = [req EXCEPT ![r] = Idle]
  BY <1>1, <1>2, IdleIsOff, Proceeds
<1>3. CASE RLock(r)
  <2> DEFINE n == Locals("call", q.op, q.srv, q.call, q.key, inner, q.again)
  <2>1. req' = [req EXCEPT ![r] = n] /\ q.pc = "rlock"
    BY <1>3 DEF RLock, WellFormed, TypeOK
  <2>2. On(n, s) => On(q, s) /\ n.op = q.op /\ n.pc = "call"
    BY <2>1 DEF On, Locals
  <2> HIDE DEF n
  <2> QED BY <1>1, <2>1, <2>2, Proceeds
<1>4. CASE Get(r) /\ req' # [req EXCEPT ![r] = Idle]
  <2> DEFINE n == IF q.op = "Create" THEN At("insert", q.op, q.srv, q.call, NoKey)
                  ELSE Locals("dial", q.op, q.srv, "Get", Found(q.be, q.call, q.srv), "local", q.again)
  <2>1. req' = [req EXCEPT ![r] = n] /\ q.pc = "call"
    BY <1>4 DEF Get, Return
  <2>2. On(n, s) => On(q, s) /\ n.op = q.op /\ n.pc \in {"insert", "dial"}
    BY <2>1 DEF On, At, Locals
  <2> HIDE DEF n
  <2> QED BY <1>1, <2>1, <2>2, Proceeds
<1> QED BY <1>2, <1>3, <1>4 DEF Swap, Return

LEMMA AloneStep ==
  ASSUME WellFormed, [Next]_vars, NEW s \in Servers, Alone(s) PROVE Alone(s)'
<1>1. ASSUME UNCHANGED vars PROVE Alone(s)'
  BY <1>1 DEF vars, keyVars, hostVars, Alone, CreatesFirst, DeletesAlone, GoneClean, Exists, On
<1>2. ASSUME Rotate PROVE Alone(s)'
  BY <1>2 DEF Rotate, keyVars, Alone, CreatesFirst, DeletesAlone, GoneClean, Exists, On
<1>3. ASSUME Restart PROVE Alone(s)'
  <2>1. \A x \in Requests : ~On(req'[x], s)
    BY <1>3, IdleIsOff DEF Restart
  <2> QED BY <1>3, <2>1, Quiet DEF Restart, keyVars
<1>4. ASSUME NEW r \in Requests, ReinitVault(r) PROVE Alone(s)'
  BY <1>4, IdleShape, BeginAlone DEF ReinitVault
<1>5. ASSUME NEW r \in Requests, NEW t \in Servers, NEW k \in Keys, HandleUploadKey(r, t, k) PROVE Alone(s)'
  BY <1>5, BeginAlone DEF HandleUploadKey, Exists
<1>6. ASSUME NEW r \in Requests, NEW t \in Servers, HandleDeleteServer(r, t) PROVE Alone(s)'
  BY <1>6, BeginAlone DEF HandleDeleteServer, Exists
<1>7. ASSUME NEW r \in Requests, NEW t \in Servers, Exec(r, t) PROVE Alone(s)'
  BY <1>7, BeginAlone DEF Exec
<1>8. ASSUME NEW r \in Requests, NEW t \in Servers, HandleCreateServer(r, t) PROVE Alone(s)'
  BY <1>8, BeginAlone DEF HandleCreateServer
<1>9. ASSUME NEW r \in Requests, Step(r) PROVE Alone(s)'
  BY <1>9, ReadAlone, PutAlone, DeleteAlone, InsertAlone, ConnectAlone, DialAlone, RemoveAlone, DeleteRowAlone
     DEF Step, Call
<1> QED BY <1>1, <1>2, <1>3, <1>4, <1>5, <1>6, <1>7, <1>8, <1>9 DEF Next

\* A deletion that no other request overlapped leaves neither key nor connection, for any
\* number of servers, requests and faults (handleDeleteServer, Remove, ON DELETE CASCADE).
THEOREM DeletionsLeaveNothing == Spec => []DeletedLeavesNothing
<1> DEFINE AllAlone == \A s \in Servers : Alone(s)
<1>1. Init => AllAlone
  BY IdleIsOff DEF Init, Alone, CreatesFirst, DeletesAlone, GoneClean
<1>2. WellFormed /\ AllAlone /\ [Next]_vars => AllAlone'
  BY AloneStep
<1>3. AllAlone => DeletedLeavesNothing
  BY DEF Alone, GoneClean, DeletedLeavesNothing
<1> HIDE DEF AllAlone
<1> QED BY <1>1, <1>2, <1>3, InitialWellFormed, TypeStep, PTL DEF Spec
=============================================================================
