---------------------------- MODULE SSHPoolProofs ----------------------------
(***************************************************************************)
(* Proofs about SSHPool for every set of servers, goroutines, clients and  *)
(* host keys and every bound.                                              *)
(***************************************************************************)
EXTENDS SSHPool, FiniteSetTheorems, TLAPS

\* The effect of Goto, AcceptHost and Return on the goroutine records.
LEMMA IdleType == Idle \in Goroutine /\ Idle.pc = "idle" /\ Idle.client = NoClient
  BY DEF Idle, Frame, Goroutine, Pcs, Ops

\* Every variable keeps its type, and an active goroutine always works on a server.
THEOREM TypeCorrect == Spec => []TypeOK
<1>1. Init => TypeOK
  <2> SUFFICES ASSUME Init PROVE TypeOK
    OBVIOUS
  <2>1. go \in [Goroutines -> Goroutine] /\ \A g \in Goroutines : go[g].pc = "idle"
    BY IdleType DEF Init
  <2>2. status \in [Servers -> Status] /\ pinned \in [Servers -> HostKeys \cup {NoKey}]
        /\ conns \in [Servers -> Clients \cup {NoClient}]
    BY DEF Init, Status
  <2>3. faults \in 0..MaxFaults /\ rotations \in 0..MaxRotations /\ overwritten \in Nat
    BY PoolAssumption DEF Init
  <2>4. gauge \in Int
    BY DEF Init
  <2> QED
    BY <2>1, <2>2, <2>3, <2>4, Zenon DEF Init, TypeOK
<1>2. TypeOK /\ [Next]_vars => TypeOK'
  <2> SUFFICES ASSUME TypeOK, [Next]_vars PROVE TypeOK'
    OBVIOUS
  <2> USE PoolAssumption, IdleType DEF TypeOK, Move, Frame, dbVars, poolVars, netVars, envVars
  <2>1. ASSUME NEW g \in Goroutines, NEW o \in Ops, NEW s \in Servers, Start(g, o, s)
        PROVE TypeOK'
    BY <2>1 DEF Start, EntryPc, Goroutine, Pcs, Ops
  <2>2. ASSUME NEW g \in Goroutines, Step(g) PROVE TypeOK'
    <3> DEFINE s == go[g].srv
    <3>0. go[g].pc # "idle" => conns[s] \in Clients \cup {NoClient}
      OBVIOUS
    <3>1. CASE Lookup(g)
      <4>1. go' \in [Goroutines -> Goroutine]
        <5>1. CASE Move(g, "newSession", conns[s], NoKey, FALSE)
          <6>1. conns[s] \in Clients \cup {NoClient}
            BY <3>0, <3>1 DEF Lookup
          <6>2. "newSession" \in Pcs
            BY DEF Pcs
          <6>3. Frame("newSession", go[g].op, s, conns[s], NoKey, FALSE) \in Goroutine
            BY <6>1, <6>2 DEF Goroutine
          <6> QED
            BY <5>1, <6>3
        <5>2. CASE Goto(g, "connect")
          BY <5>2 DEF Goto, Goroutine, Pcs
        <5> QED
          BY <3>1, <5>1, <5>2 DEF Lookup
      <4>2. \A h \in Goroutines : go'[h].pc # "idle" => go'[h].srv \in Servers
        BY <3>1 DEF Lookup, Goto
      <4> QED
        BY <3>1, <4>1, <4>2 DEF Lookup
    <3>2. CASE Connect(g)
      BY <3>2 DEF Connect, Goroutine, Pcs
    <3>3. CASE ConnectFails(g)
      BY <3>3 DEF ConnectFails, Return
    <3>4. CASE HostKeyCallback(g)
      <4>1. go' \in [Goroutines -> Goroutine]
        <5>1. CASE Goto(g, "trust")
          BY <5>1 DEF Goto, Goroutine, Pcs
        <5>2. CASE AcceptHost(g)
          BY <5>2 DEF AcceptHost, Goroutine, Pcs
        <5>3. CASE Return(g)
          BY <5>3 DEF Return
        <5> QED
          BY <3>4, <5>1, <5>2, <5>3, Zenon DEF HostKeyCallback
      <4>2. \A h \in Goroutines : go'[h].pc # "idle" => go'[h].srv \in Servers
        <5>1. go[g].pc # "idle"
          BY <3>4 DEF HostKeyCallback
        <5>2. CASE Goto(g, "trust")
          BY <5>1, <5>2 DEF Goto
        <5>3. CASE AcceptHost(g)
          BY <5>1, <5>3 DEF AcceptHost
        <5>4. CASE Return(g)
          BY <5>4 DEF Return
        <5> QED
          BY <3>4, <5>2, <5>3, <5>4, Zenon DEF HostKeyCallback
      <4>3. status' \in [Servers -> Status]
        BY <3>4 DEF HostKeyCallback, Status
      <4>4. faults' \in 0..MaxFaults
        BY <3>4 DEF HostKeyCallback
      <4>5. UNCHANGED <<pinned, poolVars, netVars, envVars>>
        BY <3>4, Zenon DEF HostKeyCallback
      <4> QED
        BY <4>1, <4>2, <4>3, <4>4, <4>5
    <3>5. CASE StoreHostKey(g)
      <4>1. CASE AcceptHost(g)
        <5>1. go' \in [Goroutines -> Goroutine]
          BY <4>1 DEF AcceptHost, Goroutine, Pcs
        <5>2. \A h \in Goroutines : go'[h].pc # "idle" => go'[h].srv \in Servers
          BY <3>5, <4>1 DEF StoreHostKey, AcceptHost
        <5>3. pinned' \in [Servers -> HostKeys \cup {NoKey}]
          BY <3>5 DEF StoreHostKey, Goroutine
        <5> QED
          BY <3>5, <5>1, <5>2, <5>3 DEF StoreHostKey
      <4>2. CASE Return(g) /\ UNCHANGED pinned
        BY <3>5, <4>2 DEF StoreHostKey, Return
      <4> QED
        BY <3>5, <4>1, <4>2, Zenon DEF StoreHostKey
    <3>6. ASSUME NEW c \in Clients, Dialed(g, c) PROVE TypeOK'
      BY <3>6 DEF Dialed, Goroutine, Pcs
    <3>7. CASE StoreClient(g)
      <4>1. go' \in [Goroutines -> Goroutine]
        <5>1. CASE Move(g, "newSession", conns[s], NoKey, FALSE)
          <6>1. conns[s] \in Clients \cup {NoClient}
            BY <3>0, <3>7 DEF StoreClient
          <6>2. "newSession" \in Pcs
            BY DEF Pcs
          <6>3. Frame("newSession", go[g].op, s, conns[s], NoKey, FALSE) \in Goroutine
            BY <6>1, <6>2 DEF Goroutine
          <6> QED
            BY <5>1, <6>3
        <5>2. CASE Goto(g, "inc")
          BY <5>2 DEF Goto, Goroutine, Pcs
        <5> QED
          BY <3>7, <5>1, <5>2 DEF StoreClient
      <4>2. \A h \in Goroutines : go'[h].pc # "idle" => go'[h].srv \in Servers
        BY <3>7 DEF StoreClient, Goto
      <4>3. conns' \in [Servers -> Clients \cup {NoClient}]
        BY <3>7 DEF StoreClient, Goroutine
      <4> QED
        BY <3>7, <4>1, <4>2, <4>3 DEF StoreClient, CloseClient
    <3>8. CASE IncGauge(g)
      BY <3>8 DEF IncGauge, Goto, Goroutine, Pcs
    <3>9. CASE NewSession(g)
      <4>1. Goto(g, "run") \/ Goto(g, "evict") \/ Return(g)
        BY <3>9 DEF NewSession, SessionError
      <4>2. go[g].pc # "idle"
        BY <3>9 DEF NewSession
      <4>3. go' \in [Goroutines -> Goroutine]
        BY <4>1 DEF Goto, Return, Goroutine, Pcs
      <4>4. \A h \in Goroutines : go'[h].pc # "idle" => go'[h].srv \in Servers
        BY <4>1, <4>2 DEF Goto, Return
      <4> QED
        BY <3>9, <4>3, <4>4 DEF NewSession
    <3>10. CASE Evict(g)
      BY <3>10 DEF Evict, Goroutine, Pcs
    <3>11. CASE OverwriteClient(g)
      BY <3>11 DEF OverwriteClient, Goto, Goroutine, Pcs
    <3>12. CASE RunEnds(g)
      BY <3>12 DEF RunEnds, Return
    <3>13. CASE DeleteHostKey(g)
      BY <3>13 DEF DeleteHostKey, Goto, Goroutine, Pcs
    <3>14. CASE Remove(g)
      <4>1. Goto(g, "deleteRow") \/ Return(g)
        BY <3>14 DEF Remove
      <4>2. go[g].pc # "idle"
        BY <3>14 DEF Remove
      <4>3. go' \in [Goroutines -> Goroutine]
        BY <4>1 DEF Goto, Return, Goroutine, Pcs
      <4>4. \A h \in Goroutines : go'[h].pc # "idle" => go'[h].srv \in Servers
        BY <4>1, <4>2 DEF Goto, Return
      <4>5. conns' \in [Servers -> Clients \cup {NoClient}] /\ gauge' \in Int
        BY <3>14 DEF Remove
      <4>6. open' \subseteq Clients /\ broken' \subseteq Clients
        BY <3>14 DEF Remove, CloseClient
      <4> QED
        BY <3>14, <4>3, <4>4, <4>5, <4>6 DEF Remove
    <3>15. CASE DeleteRow(g)
      BY <3>15 DEF DeleteRow, Return, Status
    <3>16. CASE HandlerDbError(g)
      BY <3>16 DEF HandlerDbError, Return
    <3> QED
      BY <2>2, <3>1, <3>2, <3>3, <3>4, <3>5, <3>6, <3>7, <3>8, <3>9, <3>10, <3>11, <3>12,
         <3>13, <3>14, <3>15, <3>16 DEF Step
  <2>3. CASE Close
    <3>1. Cardinality(Pooled) \in Nat
      BY FS_Subset, FS_CardinalityType DEF Pooled
    <3> QED
      BY <2>3, <3>1 DEF Close
  <2>4. ASSUME NEW c \in Clients, TransportBreaks(c) PROVE TypeOK'
    BY <2>4 DEF TransportBreaks
  <2>5. ASSUME NEW s \in Servers, NEW k \in HostKeys, HostRotates(s, k) PROVE TypeOK'
    BY <2>5 DEF HostRotates
  <2>6. CASE UNCHANGED vars
    BY <2>6 DEF vars
  <2> QED
    BY <2>1, <2>2, <2>3, <2>4, <2>5, <2>6 DEF Next, Environment
<1> QED
  BY <1>1, <1>2, PTL DEF Spec
-----------------------------------------------------------------------------
\* ExclusiveOwner and PooledNotClosed are inductive together; Owned is their conjunction
\* without the derived sets.
OneEntry == \A s, t \in Servers : conns[s] = conns[t] /\ conns[s] # NoClient => s = t
CachedLive == \A s \in Servers : conns[s] # NoClient => conns[s] \in open \cup broken
DialersOwn ==
  \A g \in Goroutines : go[g].pc \in {"store", "overwrite"} =>
    /\ go[g].client \in open \cup broken
    /\ \A s \in Servers : conns[s] # go[g].client
    /\ \A h \in Goroutines : h # g => go[h].client # go[g].client
Owned == OneEntry /\ CachedLive /\ DialersOwn

LEMMA OwnedMeaning == TypeOK => (Owned <=> ExclusiveOwner /\ PooledNotClosed)
<1> SUFFICES ASSUME TypeOK PROVE Owned <=> ExclusiveOwner /\ PooledNotClosed
  OBVIOUS
<1>1. \A c \in Clients : c \in PooledClients <=> \E s \in Servers : conns[s] = c
  BY PoolAssumption DEF PooledClients, Pooled
<1>2. PooledNotClosed <=> \A s \in Servers : conns[s] # NoClient => conns[s] \in open \cup broken
  BY DEF PooledNotClosed, PooledClients, Pooled
<1> QED
  BY <1>1, <1>2 DEF TypeOK, Owned, OneEntry, CachedLive, DialersOwn, ExclusiveOwner, Pooled, Dialing

\* A step of one goroutine that neither dials, stores nor closes anything.
LEMMA QuietStep ==
  ASSUME TypeOK, Owned, NEW g \in Goroutines, NEW f, go' = [go EXCEPT ![g] = f],
         f.pc \notin {"store", "overwrite"},
         \/ f.client = NoClient
         \/ f.client = go[g].client
         \/ \E s \in Servers : f.client = conns[s],
         UNCHANGED <<conns, open, broken>>
  PROVE  Owned'
  BY PoolAssumption DEF TypeOK, Owned, OneEntry, CachedLive, DialersOwn

LEMMA OwnedStep == TypeOK /\ Owned /\ [Next]_vars => Owned'
<1> SUFFICES ASSUME TypeOK, Owned, [Next]_vars PROVE Owned'
  OBVIOUS
<1> USE DEF Move, Frame, Goto, poolVars, netVars
<1>0. /\ go \in [Goroutines -> Goroutine]
      /\ conns \in [Servers -> Clients \cup {NoClient}]
      /\ open \subseteq Clients /\ broken \subseteq Clients
      /\ \A g \in Goroutines : go[g].pc # "idle" => go[g].srv \in Servers
  BY DEF TypeOK
<1>1. ASSUME NEW g \in Goroutines, NEW o \in Ops, NEW s \in Servers, Start(g, o, s)
      PROVE  Owned'
  <2>1. EntryPc(o) \in {"lookup", "deleteHostKey", "remove"}
    BY DEF EntryPc, Ops
  <2> QED
    BY <1>1, <2>1, QuietStep DEF Start
<1>2. ASSUME NEW g \in Goroutines, Step(g)
      PROVE  Owned'
  <2>1. CASE Lookup(g)
    BY <1>0, <2>1, QuietStep DEF Lookup
  <2>2. CASE Connect(g)
    BY <2>2, QuietStep DEF Connect
  <2>3. CASE ConnectFails(g)
    BY <2>3, QuietStep, IdleType DEF ConnectFails, Return
  <2>4. CASE HostKeyCallback(g)
    BY <2>4, QuietStep, IdleType DEF HostKeyCallback, Return, AcceptHost
  <2>5. CASE StoreHostKey(g)
    BY <2>5, QuietStep, IdleType DEF StoreHostKey, Return, AcceptHost
  <2>6. ASSUME NEW c \in Clients, Dialed(g, c)
        PROVE  Owned'
    <3>1. /\ \A s \in Servers : conns[s] # c
          /\ \A h \in Goroutines : go[h].client # c
      BY <1>0, <2>6, PoolAssumption DEF Dialed, Held, PooledClients, Pooled
    <3> QED
      BY <1>0, <2>6, <3>1 DEF Dialed, Owned, OneEntry, CachedLive, DialersOwn
  <2>7. CASE StoreClient(g)
    <3>1. CASE conns[go[g].srv] # NoClient
      <4>1. OneEntry'
        BY <1>0, <2>7, <3>1 DEF StoreClient, CloseClient, Owned, OneEntry, CachedLive, DialersOwn
      <4>2. CachedLive'
        BY <1>0, <2>7, <3>1 DEF StoreClient, CloseClient, Owned, OneEntry, CachedLive, DialersOwn
      <4>3. DialersOwn'
        BY <1>0, <2>7, <3>1 DEF StoreClient, CloseClient, Owned, OneEntry, CachedLive, DialersOwn
      <4> QED
        BY <4>1, <4>2, <4>3 DEF Owned
    <3>2. CASE conns[go[g].srv] = NoClient
      <4>1. OneEntry'
        BY <1>0, <2>7, <3>2 DEF StoreClient, Owned, OneEntry, CachedLive, DialersOwn
      <4>2. CachedLive'
        BY <1>0, <2>7, <3>2 DEF StoreClient, Owned, OneEntry, CachedLive, DialersOwn
      <4>3. DialersOwn'
        BY <1>0, <2>7, <3>2 DEF StoreClient, Owned, OneEntry, CachedLive, DialersOwn
      <4> QED
        BY <4>1, <4>2, <4>3 DEF Owned
    <3> QED
      BY <3>1, <3>2
  <2>8. CASE IncGauge(g)
    BY <2>8, QuietStep DEF IncGauge
  <2>9. CASE NewSession(g)
    BY <2>9, QuietStep, IdleType DEF NewSession, SessionError, Return
  <2>10. CASE Evict(g)
    <3>1. OneEntry'
      BY <1>0, <2>10, PoolAssumption DEF Evict, Owned, OneEntry, CachedLive, DialersOwn
    <3>2. CachedLive'
      BY <1>0, <2>10, PoolAssumption DEF Evict, Owned, OneEntry, CachedLive, DialersOwn
    <3>3. DialersOwn'
      BY <1>0, <2>10, PoolAssumption DEF Evict, Owned, OneEntry, CachedLive, DialersOwn
    <3> QED
      BY <3>1, <3>2, <3>3 DEF Owned
  <2>11. CASE OverwriteClient(g)
    <3>1. OneEntry'
      BY <1>0, <2>11 DEF OverwriteClient, Owned, OneEntry, CachedLive, DialersOwn
    <3>2. CachedLive'
      BY <1>0, <2>11 DEF OverwriteClient, Owned, OneEntry, CachedLive, DialersOwn
    <3>3. DialersOwn'
      BY <1>0, <2>11 DEF OverwriteClient, Owned, OneEntry, CachedLive, DialersOwn
    <3> QED
      BY <3>1, <3>2, <3>3 DEF Owned
  <2>12. CASE RunEnds(g)
    BY <2>12, QuietStep, IdleType DEF RunEnds, Return
  <2>13. CASE DeleteHostKey(g)
    BY <2>13, QuietStep DEF DeleteHostKey
  <2>14. CASE Remove(g)
    <3>1. CASE conns[go[g].srv] # NoClient
      <4>1. OneEntry'
        BY <1>0, <2>14, <3>1, IdleType, PoolAssumption DEF Remove, CloseClient, Return,
               Owned, OneEntry, CachedLive, DialersOwn
      <4>2. CachedLive'
        BY <1>0, <2>14, <3>1, IdleType, PoolAssumption DEF Remove, CloseClient, Return,
               Owned, OneEntry, CachedLive, DialersOwn
      <4>3. DialersOwn'
        BY <1>0, <2>14, <3>1, IdleType, PoolAssumption DEF Remove, CloseClient, Return,
               Owned, OneEntry, CachedLive, DialersOwn
      <4> QED
        BY <4>1, <4>2, <4>3 DEF Owned
    <3>2. CASE conns[go[g].srv] = NoClient
      BY <2>14, <3>2, QuietStep, IdleType DEF Remove, Return
    <3> QED
      BY <3>1, <3>2
  <2>15. CASE DeleteRow(g)
    BY <2>15, QuietStep, IdleType DEF DeleteRow, Return
  <2>16. CASE HandlerDbError(g)
    BY <2>16, QuietStep, IdleType DEF HandlerDbError, Return
  <2> QED
    BY <1>2, <2>1, <2>2, <2>3, <2>4, <2>5, <2>6, <2>7, <2>8, <2>9, <2>10, <2>11, <2>12,
       <2>13, <2>14, <2>15, <2>16 DEF Step
<1>3. CASE Close
  <2>1. \A s \in Servers : conns'[s] = NoClient
    BY <1>3 DEF Close
  <2>2. \A c : c \in PooledClients => \E s \in Servers : conns[s] = c
    BY DEF PooledClients, Pooled
  <2>3. OneEntry' /\ CachedLive'
    BY <2>1 DEF OneEntry, CachedLive
  <2>4. \A g \in Goroutines : go[g].pc \in {"store", "overwrite"} =>
           go[g].client \notin PooledClients /\ go[g].client # NoClient
    BY <1>0, <2>2, PoolAssumption DEF Owned, DialersOwn
  <2>5. DialersOwn'
    BY <1>3, <2>1, <2>4 DEF Close, Owned, DialersOwn
  <2> QED
    BY <2>3, <2>5 DEF Owned
<1>4. ASSUME NEW c \in Clients, TransportBreaks(c)
      PROVE  Owned'
  BY <1>0, <1>4 DEF TransportBreaks, Owned, OneEntry, CachedLive, DialersOwn
<1>5. ASSUME NEW s \in Servers, NEW k \in HostKeys, HostRotates(s, k)
      PROVE  Owned'
  BY <1>5 DEF HostRotates, Owned, OneEntry, CachedLive, DialersOwn
<1>6. CASE UNCHANGED vars
  BY <1>6 DEF vars, Owned, OneEntry, CachedLive, DialersOwn
<1> QED
  BY <1>1, <1>2, <1>3, <1>4, <1>5, <1>6 DEF Next, Environment

LEMMA Ownership == Spec => [](TypeOK /\ Owned)
<1>1. Init => Owned
  BY DEF Init, Owned, OneEntry, CachedLive, DialersOwn, Idle, Frame
<1>2. TypeOK /\ Owned /\ [Next]_vars => Owned'
  BY OwnedStep
<1> QED
  BY <1>1, <1>2, TypeCorrect, PTL DEF Spec

\* Every client has one owner that may close it (pool.go:107-115, 152-154), for any number
\* of callers and servers.
THEOREM PoolOwnership == Spec => []ExclusiveOwner
<1>1. TypeOK /\ Owned => ExclusiveOwner
  BY OwnedMeaning
<1> QED BY <1>1, Ownership, PTL

\* No cached client has been closed by the pool: who closes it takes it out of the map in
\* the same critical section (pool.go:191-215).
THEOREM PooledStayOpen == Spec => []PooledNotClosed
<1>1. TypeOK /\ Owned => PooledNotClosed
  BY OwnedMeaning
<1> QED BY <1>1, Ownership, PTL
-----------------------------------------------------------------------------
\* No host key outlives its server's row: the foreign key rejects the late insert of a
\* dial that overtook the delete (pool.go:61), and the delete cascades (server.go:458).
THEOREM HostKeyReferences == Spec => []NoOrphanHostKey
<1>1. Init => NoOrphanHostKey
  BY DEF Init, NoOrphanHostKey
<1>2. TypeOK /\ NoOrphanHostKey /\ [Next]_vars => NoOrphanHostKey'
  <2> SUFFICES ASSUME TypeOK, NoOrphanHostKey, [Next]_vars PROVE NoOrphanHostKey'
    OBVIOUS
  <2>1. CASE UNCHANGED dbVars
    BY <2>1 DEF dbVars, NoOrphanHostKey
  <2>2. ASSUME NEW g \in Goroutines,
               \/ HostKeyCallback(g) \/ StoreHostKey(g) \/ DeleteHostKey(g) \/ DeleteRow(g)
        PROVE  NoOrphanHostKey'
    BY <2>2 DEF TypeOK, NoOrphanHostKey, HostKeyCallback, StoreHostKey, DeleteHostKey, DeleteRow
  <2> QED
    BY <2>1, <2>2 DEF Next, Step, Environment, vars, dbVars, Start, Lookup, Connect,
       ConnectFails, Dialed, StoreClient, IncGauge, NewSession, Evict, OverwriteClient,
       RunEnds, Remove, HandlerDbError, Close, TransportBreaks, HostRotates
<1> QED
  BY <1>1, <1>2, TypeCorrect, PTL DEF Spec
-----------------------------------------------------------------------------
LEMMA PooledFinite == IsFiniteSet(Pooled) /\ IsFiniteSet(AtInc)
                      /\ Cardinality(Pooled) \in Nat /\ Cardinality(AtInc) \in Nat
<1>1. Pooled \subseteq Servers /\ AtInc \subseteq Goroutines
  BY DEF Pooled, AtInc
<1> QED
  BY <1>1, PoolAssumption, FS_Subset, FS_CardinalityType

\* A step that leaves the table and the gauge alone and no goroutine at the increment.
LEMMA GaugeQuiet ==
  ASSUME GaugeAccounts, AtInc' = AtInc, UNCHANGED <<conns, gauge, overwritten>>
  PROVE  GaugeAccounts'
<1>1. Pooled' = Pooled
  BY DEF Pooled
<1> QED
  BY <1>1 DEF GaugeAccounts

LEMMA GaugeStep == TypeOK /\ Owned /\ GaugeAccounts /\ [Next]_vars => GaugeAccounts'
<1> SUFFICES ASSUME TypeOK, Owned, GaugeAccounts, [Next]_vars PROVE GaugeAccounts'
  OBVIOUS
<1> USE DEF Move, Frame, Goto, poolVars, netVars
<1>0. /\ go \in [Goroutines -> Goroutine]
      /\ conns \in [Servers -> Clients \cup {NoClient}]
      /\ gauge \in Int /\ overwritten \in Nat
      /\ \A g \in Goroutines : go[g].pc # "idle" => go[g].srv \in Servers
  BY DEF TypeOK
<1>1. ASSUME NEW g \in Goroutines, NEW o \in Ops, NEW s \in Servers, Start(g, o, s)
      PROVE  GaugeAccounts'
  <2>1. EntryPc(o) \in {"lookup", "deleteHostKey", "remove"}
    BY DEF EntryPc, Ops
  <2>2. AtInc' = AtInc
    BY <1>0, <1>1, <2>1 DEF Start, AtInc
  <2> QED
    BY <1>1, <2>2, GaugeQuiet DEF Start
<1>2. ASSUME NEW g \in Goroutines, Step(g)
      PROVE  GaugeAccounts'
  <2> DEFINE s == go[g].srv
  <2>0. /\ s \in Servers => Cardinality(Pooled \cup {s}) =
              IF s \in Pooled THEN Cardinality(Pooled) ELSE Cardinality(Pooled) + 1
        /\ Cardinality(Pooled \ {s}) =
              IF s \in Pooled THEN Cardinality(Pooled) - 1 ELSE Cardinality(Pooled)
        /\ Cardinality(AtInc \cup {g}) =
              IF g \in AtInc THEN Cardinality(AtInc) ELSE Cardinality(AtInc) + 1
        /\ Cardinality(AtInc \ {g}) =
              IF g \in AtInc THEN Cardinality(AtInc) - 1 ELSE Cardinality(AtInc)
    BY PooledFinite, FS_AddElement, FS_RemoveElement
  <2>own. go[g].pc \in {"store", "overwrite"} => go[g].client \in Clients /\ go[g].client # NoClient
    <3>1. go[g].pc \in {"store", "overwrite"} => go[g].client \in open \cup broken
      BY DEF Owned, OneEntry, CachedLive, DialersOwn
    <3> QED
      BY <3>1, PoolAssumption DEF TypeOK
  <2>Lookup. CASE Lookup(g)
    <3>1. AtInc' = AtInc
      BY <1>0, <2>Lookup DEF Lookup, AtInc
    <3> QED
      BY <2>Lookup, <3>1, GaugeQuiet DEF Lookup
  <2>Connect. CASE Connect(g)
    <3>1. AtInc' = AtInc
      BY <1>0, <2>Connect DEF Connect, AtInc
    <3> QED
      BY <2>Connect, <3>1, GaugeQuiet DEF Connect
  <2>NewSession. CASE NewSession(g)
    <3>1. AtInc' = AtInc
      BY <1>0, <2>NewSession, IdleType DEF NewSession, SessionError, Return, AtInc
    <3> QED
      BY <2>NewSession, <3>1, GaugeQuiet DEF NewSession
  <2>DeleteHostKey. CASE DeleteHostKey(g)
    <3>1. AtInc' = AtInc
      BY <1>0, <2>DeleteHostKey DEF DeleteHostKey, AtInc
    <3> QED
      BY <2>DeleteHostKey, <3>1, GaugeQuiet DEF DeleteHostKey
  <2>ConnectFails. CASE ConnectFails(g)
    <3>1. AtInc' = AtInc
      BY <1>0, <2>ConnectFails, IdleType DEF ConnectFails, Return, AtInc
    <3> QED
      BY <2>ConnectFails, <3>1, GaugeQuiet DEF ConnectFails
  <2>RunEnds. CASE RunEnds(g)
    <3>1. AtInc' = AtInc
      BY <1>0, <2>RunEnds, IdleType DEF RunEnds, Return, AtInc
    <3> QED
      BY <2>RunEnds, <3>1, GaugeQuiet DEF RunEnds
  <2>DeleteRow. CASE DeleteRow(g)
    <3>1. AtInc' = AtInc
      BY <1>0, <2>DeleteRow, IdleType DEF DeleteRow, Return, AtInc
    <3> QED
      BY <2>DeleteRow, <3>1, GaugeQuiet DEF DeleteRow
  <2>HandlerDbError. CASE HandlerDbError(g)
    <3>1. AtInc' = AtInc
      BY <1>0, <2>HandlerDbError, IdleType DEF HandlerDbError, Return, AtInc
    <3> QED
      BY <2>HandlerDbError, <3>1, GaugeQuiet DEF HandlerDbError
  <2>HostKeyCallback. CASE HostKeyCallback(g)
    <3>1. AtInc' = AtInc
      <4>1. Goto(g, "trust") \/ AcceptHost(g) \/ Return(g)
        BY <2>HostKeyCallback, Zenon DEF HostKeyCallback
      <4>2. go[g].pc = "verify"
        BY <2>HostKeyCallback DEF HostKeyCallback
      <4> QED
        BY <1>0, <4>1, <4>2, IdleType DEF Return, AcceptHost, AtInc
    <3> QED
      BY <2>HostKeyCallback, <3>1, GaugeQuiet DEF HostKeyCallback
  <2>StoreHostKey. CASE StoreHostKey(g)
    <3>1. AtInc' = AtInc
      BY <1>0, <2>StoreHostKey, IdleType DEF StoreHostKey, Return, AcceptHost, AtInc
    <3> QED
      BY <2>StoreHostKey, <3>1, GaugeQuiet DEF StoreHostKey
  <2>4. ASSUME NEW c \in Clients, Dialed(g, c)
        PROVE  GaugeAccounts'
    <3>1. AtInc' = AtInc
      BY <1>0, <2>4 DEF Dialed, AtInc
    <3> QED
      BY <2>4, <3>1, GaugeQuiet DEF Dialed
  <2>5. CASE StoreClient(g)
    <3>1. CASE conns[s] # NoClient
      <4>1. AtInc' = AtInc
        BY <1>0, <2>5, <3>1 DEF StoreClient, AtInc
      <4> QED
        BY <2>5, <3>1, <4>1, GaugeQuiet DEF StoreClient
    <3>2. CASE conns[s] = NoClient
      <4>1. Pooled' = Pooled \cup {s} /\ s \notin Pooled
        BY <1>0, <2>5, <2>own, <3>2 DEF StoreClient, Pooled
      <4>2. AtInc' = AtInc \cup {g} /\ g \notin AtInc
        BY <1>0, <2>5, <3>2 DEF StoreClient, AtInc
      <4>3. Cardinality(Pooled') = Cardinality(Pooled) + 1
        BY <1>0, <2>0, <2>5, <4>1 DEF StoreClient
      <4>4. Cardinality(AtInc') = Cardinality(AtInc) + 1
        BY <2>0, <4>2
      <4>5. UNCHANGED <<gauge, overwritten>>
        BY <2>5 DEF StoreClient
      <4> QED
        BY <1>0, <4>3, <4>4, <4>5, PooledFinite DEF GaugeAccounts
    <3> QED
      BY <3>1, <3>2
  <2>6. CASE IncGauge(g)
    <3>1. AtInc' = AtInc \ {g} /\ g \in AtInc /\ Pooled' = Pooled
      BY <1>0, <2>6 DEF IncGauge, AtInc, Pooled
    <3>2. Cardinality(Pooled') = Cardinality(Pooled)
      BY <3>1
    <3>3. Cardinality(AtInc') = Cardinality(AtInc) - 1
      BY <2>0, <3>1
    <3>4. gauge' = gauge + 1 /\ UNCHANGED overwritten
      BY <2>6 DEF IncGauge
    <3> QED
      BY <1>0, <3>2, <3>3, <3>4, PooledFinite DEF GaugeAccounts
  <2>7. CASE Evict(g)
    <3>1. Pooled' = Pooled \ {s} /\ AtInc' = AtInc /\ (s \in Pooled <=> conns[s] # NoClient)
      BY <1>0, <2>7 DEF Evict, AtInc, Pooled
    <3>2. Cardinality(Pooled') = Cardinality(Pooled) - (IF s \in Pooled THEN 1 ELSE 0)
      <4>1. CASE s \in Pooled
        BY <2>0, <3>1, <4>1
      <4>2. CASE s \notin Pooled
        <5>1. Cardinality(Pooled') = Cardinality(Pooled)
          BY <2>0, <3>1, <4>2, Zenon
        <5>2. Cardinality(Pooled) \in Nat
          BY PooledFinite
        <5> QED
          BY <4>2, <5>1, <5>2
      <4> QED
        BY <4>1, <4>2
    <3>3. Cardinality(AtInc') = Cardinality(AtInc)
      BY <3>1
    <3>4. gauge' = gauge - (IF s \in Pooled THEN 1 ELSE 0) /\ UNCHANGED overwritten
      BY <1>0, <2>7, <3>1 DEF Evict
    <3> QED
      BY <1>0, <3>2, <3>3, <3>4, PooledFinite DEF GaugeAccounts
  <2>8. CASE OverwriteClient(g)
    <3>1. Pooled' = Pooled \cup {s} /\ (s \in Pooled <=> conns[s] # NoClient)
      BY <1>0, <2>8, <2>own DEF OverwriteClient, Pooled
    <3>2. AtInc' = AtInc \cup {g} /\ g \notin AtInc
      BY <1>0, <2>8 DEF OverwriteClient, AtInc
    <3>3. Cardinality(Pooled') = Cardinality(Pooled) + (IF s \in Pooled THEN 0 ELSE 1)
      <4>0. s \in Servers
        BY <1>0, <2>8 DEF OverwriteClient
      <4>1. CASE s \in Pooled
        BY <2>0, <3>1, <4>0, <4>1, PooledFinite
      <4>2. CASE s \notin Pooled
        BY <2>0, <3>1, <4>0, <4>2
      <4> QED
        BY <4>1, <4>2
    <3>4. Cardinality(AtInc') = Cardinality(AtInc) + 1
      BY <2>0, <3>2
    <3>5. overwritten' = overwritten + (IF s \in Pooled THEN 1 ELSE 0) /\ UNCHANGED gauge
      BY <1>0, <2>8, <3>1 DEF OverwriteClient
    <3> QED
      BY <1>0, <3>3, <3>4, <3>5, PooledFinite DEF GaugeAccounts
  <2>9. CASE Remove(g)
    <3>1. CASE conns[s] = NoClient
      <4>1. AtInc' = AtInc
        BY <1>0, <2>9, IdleType DEF Remove, Return, AtInc
      <4> QED
        BY <2>9, <3>1, <4>1, GaugeQuiet DEF Remove
    <3>2. CASE conns[s] # NoClient
      <4>1. Pooled' = Pooled \ {s} /\ s \in Pooled
        BY <1>0, <2>9, <3>2 DEF Remove, Pooled
      <4>2. AtInc' = AtInc
        BY <1>0, <2>9, IdleType DEF Remove, Return, AtInc
      <4>3. Cardinality(Pooled') = Cardinality(Pooled) - 1
        BY <2>0, <4>1
      <4>4. Cardinality(AtInc') = Cardinality(AtInc)
        BY <4>2
      <4>5. gauge' = gauge - 1 /\ UNCHANGED overwritten
        BY <2>9, <3>2 DEF Remove
      <4> QED
        BY <1>0, <4>3, <4>4, <4>5, PooledFinite DEF GaugeAccounts
    <3> QED
      BY <3>1, <3>2
  <2> QED
    BY <1>2, <2>Lookup, <2>Connect, <2>NewSession, <2>DeleteHostKey, <2>ConnectFails, <2>RunEnds,
       <2>DeleteRow, <2>HandlerDbError, <2>HostKeyCallback, <2>StoreHostKey,
       <2>4, <2>5, <2>6, <2>7, <2>8, <2>9 DEF Step
<1>3. CASE Close
  <2>1. Pooled' = {} /\ AtInc' = AtInc
    BY <1>3 DEF Close, Pooled, AtInc
  <2> QED
    BY <1>0, <1>3, <2>1, PooledFinite, FS_EmptySet DEF Close, GaugeAccounts
<1>4. CASE UNCHANGED <<conns, gauge, overwritten, go>>
  BY <1>4 DEF GaugeAccounts, Pooled, AtInc
<1> QED
  BY <1>1, <1>2, <1>3, <1>4 DEF Next, Environment, TransportBreaks, HostRotates, vars

\* The gauge is exact up to the pending increments and the overwrites of Exec's reconnect
\* (pool.go:116, 153-156), for any number of callers and servers.
THEOREM GaugeTheorem == Spec => []GaugeAccounts
<1>1. Init => GaugeAccounts
  <2> SUFFICES ASSUME Init PROVE GaugeAccounts
    OBVIOUS
  <2>1. Pooled = {} /\ AtInc = {}
    BY DEF Init, Pooled, AtInc, Idle, Frame
  <2> QED
    BY <2>1, FS_EmptySet DEF Init, GaugeAccounts
<1>2. Init => Owned
  BY DEF Init, Owned, OneEntry, CachedLive, DialersOwn, Idle, Frame
<1> QED
  BY <1>1, <1>2, OwnedStep, GaugeStep, TypeCorrect, PTL DEF Spec
-----------------------------------------------------------------------------
\* The strengthening of OrphansWereDropped: a caller that only uses a client does not
\* keep it accounted for.
LiveAccounted ==
  \A c \in open : \/ c \in dropped
                  \/ \E s \in Servers : conns[s] = c
                  \/ \E g \in Goroutines : /\ go[g].pc \in {"store", "overwrite"}
                                           /\ go[g].client = c

LEMMA LiveQuiet ==
  ASSUME TypeOK, LiveAccounted, NEW g \in Goroutines, NEW f, go' = [go EXCEPT ![g] = f],
         go[g].pc \notin {"store", "overwrite"}, UNCHANGED <<conns, open, dropped>>
  PROVE  LiveAccounted'
  BY DEF TypeOK, LiveAccounted

\* A step that opens nothing, keeps every cached client cached or dropped, and every
\* client of a dialling goroutine with that goroutine or in the table.
LEMMA LiveKept ==
  ASSUME LiveAccounted, open' \subseteq open, dropped \subseteq dropped',
         \A s \in Servers : conns[s] \in open' =>
            conns[s] \in dropped' \/ \E t \in Servers : conns'[t] = conns[s],
         \A h \in Goroutines : go[h].pc \in {"store", "overwrite"} /\ go[h].client \in open' =>
            \/ go'[h].pc \in {"store", "overwrite"} /\ go'[h].client = go[h].client
            \/ \E t \in Servers : conns'[t] = go[h].client
  PROVE  LiveAccounted'
  BY DEF LiveAccounted

LEMMA LiveStep == TypeOK /\ LiveAccounted /\ [Next]_vars => LiveAccounted'
<1> SUFFICES ASSUME TypeOK, LiveAccounted, [Next]_vars PROVE LiveAccounted'
  OBVIOUS
<1> USE DEF Move, Frame, Goto, poolVars, netVars
<1>0. /\ go \in [Goroutines -> Goroutine]
      /\ conns \in [Servers -> Clients \cup {NoClient}]
      /\ open \subseteq Clients
      /\ \A g \in Goroutines : go[g].pc # "idle" => go[g].srv \in Servers
  BY DEF TypeOK
<1>1. ASSUME NEW g \in Goroutines, NEW o \in Ops, NEW s \in Servers, Start(g, o, s)
      PROVE  LiveAccounted'
  BY <1>1, LiveQuiet DEF Start
<1>2. ASSUME NEW g \in Goroutines, Step(g)
      PROVE  LiveAccounted'
  <2>1. CASE Lookup(g) \/ Connect(g) \/ NewSession(g) \/ DeleteHostKey(g) \/ IncGauge(g)
    BY <2>1, LiveQuiet
       DEF Lookup, Connect, NewSession, SessionError, Return, DeleteHostKey, IncGauge
  <2>2. CASE ConnectFails(g) \/ RunEnds(g) \/ DeleteRow(g) \/ HandlerDbError(g)
    BY <2>2, LiveQuiet DEF ConnectFails, RunEnds, DeleteRow, HandlerDbError, Return
  <2>3. CASE HostKeyCallback(g) \/ StoreHostKey(g)
    BY <2>3, LiveQuiet DEF HostKeyCallback, StoreHostKey, Return, AcceptHost
  <2>4. ASSUME NEW c \in Clients, Dialed(g, c)
        PROVE  LiveAccounted'
    <3>1. open' = open \cup {c} /\ UNCHANGED <<conns, dropped>>
      BY <2>4 DEF Dialed
    <3>2. \A h \in Goroutines \ {g} : go'[h] = go[h]
      BY <1>0, <2>4 DEF Dialed
    <3>3. go[g].pc = "auth" /\ go'[g].pc \in {"store", "overwrite"} /\ go'[g].client = c
      BY <1>0, <2>4 DEF Dialed
    <3> QED
      BY <3>1, <3>2, <3>3 DEF LiveAccounted
  <2>5. CASE StoreClient(g)
    <3>1. CASE conns[go[g].srv] # NoClient
      <4>1. open' = open \ {go[g].client} /\ UNCHANGED <<conns, dropped>>
        BY <2>5, <3>1 DEF StoreClient, CloseClient
      <4>2. \A h \in Goroutines \ {g} : go'[h] = go[h]
        BY <1>0, <2>5, <3>1 DEF StoreClient
      <4> QED
        BY <4>1, <4>2, LiveKept
    <3>2. CASE conns[go[g].srv] = NoClient
      <4>0. go[g].srv \in Servers
        BY <1>0, <2>5 DEF StoreClient
      <4>1. conns' = [conns EXCEPT ![go[g].srv] = go[g].client] /\ UNCHANGED <<open, dropped>>
        BY <2>5, <3>2 DEF StoreClient
      <4>2. conns'[go[g].srv] = go[g].client
        BY <1>0, <4>0, <4>1
      <4>3. \A t \in Servers : conns[t] \in open => t # go[g].srv
        BY <1>0, <3>2, PoolAssumption
      <4>4. \A t \in Servers : conns[t] \in open => conns'[t] = conns[t]
        BY <1>0, <4>1, <4>3
      <4>5. \A h \in Goroutines \ {g} : go'[h] = go[h]
        BY <1>0, <2>5, <3>2 DEF StoreClient
      <4> QED
        BY <4>0, <4>1, <4>2, <4>4, <4>5, LiveKept
    <3> QED
      BY <3>1, <3>2
  <2>6. CASE Evict(g)
    BY <1>0, <2>6 DEF Evict, LiveAccounted
  <2>7. CASE OverwriteClient(g)
    BY <1>0, <2>7 DEF OverwriteClient, LiveAccounted
  <2>8. CASE Remove(g)
    <3>1. CASE conns[go[g].srv] = NoClient
      BY <2>8, <3>1, LiveQuiet DEF Remove, Return
    <3>2. CASE conns[go[g].srv] # NoClient
      <4>1. open' = open \ {conns[go[g].srv]} /\ UNCHANGED dropped
        BY <2>8, <3>2 DEF Remove, CloseClient
      <4>2. \A t \in Servers : conns[t] \in open' => conns'[t] = conns[t]
        BY <1>0, <2>8, <3>2, <4>1 DEF Remove
      <4>3. go[g].pc = "remove" /\ \A h \in Goroutines \ {g} : go'[h] = go[h]
        BY <1>0, <2>8 DEF Remove, Return
      <4> QED
        BY <4>1, <4>2, <4>3, LiveKept
    <3> QED
      BY <3>1, <3>2
  <2> QED
    BY <1>2, <2>1, <2>2, <2>3, <2>4, <2>5, <2>6, <2>7, <2>8 DEF Step
<1>3. CASE Close
  <2>1. \A s \in Servers : conns[s] \in Clients => conns[s] \in PooledClients
    BY PoolAssumption DEF PooledClients, Pooled
  <2> QED
    BY <1>0, <1>3, <2>1 DEF Close, LiveAccounted
<1>4. ASSUME NEW c \in Clients, TransportBreaks(c)
      PROVE  LiveAccounted'
  BY <1>4 DEF TransportBreaks, LiveAccounted
<1>5. CASE UNCHANGED <<conns, open, dropped, go>>
  BY <1>5 DEF LiveAccounted
<1> QED
  BY <1>1, <1>2, <1>3, <1>4, <1>5 DEF Next, Environment, HostRotates, vars

\* Only Exec's reconnect leaks a live connection (pool.go:137, 153): every other one that
\* is neither cached nor in use has been closed, for any number of callers and servers.
THEOREM LeakTheorem == Spec => []OrphansWereDropped
<1>1. Init => LiveAccounted
  BY DEF Init, LiveAccounted
<1>2. TypeOK /\ LiveAccounted => OrphansWereDropped
  BY PoolAssumption DEF TypeOK, LiveAccounted, OrphansWereDropped, PooledClients, Pooled, Held
<1> QED
  BY <1>1, <1>2, LiveStep, TypeCorrect, PTL DEF Spec
=============================================================================
