--------------------------- MODULE AuditTrailProofs ---------------------------
(***************************************************************************)
(* Proofs about the audit log, for every number of writers, every filter   *)
(* and every page size.                                                    *)
(***************************************************************************)
EXTENDS AuditTrail, FiniteSetTheorems, WellFoundedInduction, TLAPS

\* Any set of entries with distinct natural timestamps.
Dated(es) ==
  /\ IsFiniteSet(es)
  /\ \A e \in es : e.ts \in Nat
  /\ \A d, e \in es : d.ts = e.ts => d = e

LEMMA RankType ==
  ASSUME NEW es, Dated(es), NEW e
  PROVE  Rank(e, es) \in Nat /\ IsFiniteSet({d \in es : d.ts > e.ts})
<1>1. {d \in es : d.ts > e.ts} \in SUBSET es
  OBVIOUS
<1> QED BY <1>1, FS_Subset, FS_CardinalityType DEF Dated, Rank

\* An entry that is not older comes earlier.
LEMMA RankOrder ==
  ASSUME NEW es, Dated(es), NEW d \in es, NEW e \in es, d.ts > e.ts
  PROVE  Rank(d, es) < Rank(e, es)
<1> DEFINE D == {x \in es : x.ts > d.ts}
           E == {x \in es : x.ts > e.ts}
<1>1. D \in SUBSET E /\ d \in E /\ d \notin D
  BY DEF Dated
<1>2. IsFiniteSet(E) /\ Cardinality(E) \in Nat /\ Cardinality(D) \in Nat
  BY RankType DEF Rank
<1>3. Cardinality(D) <= Cardinality(E) /\ Cardinality(D) # Cardinality(E)
  BY <1>1, <1>2, FS_Subset
<1> QED BY <1>2, <1>3 DEF Rank

\* More entries move an entry back, never forward.
LEMMA RankGrows ==
  ASSUME NEW es, NEW fs, Dated(fs), es \subseteq fs, NEW e \in es
  PROVE  Rank(e, es) <= Rank(e, fs)
<1>1. {d \in es : d.ts > e.ts} \in SUBSET {d \in fs : d.ts > e.ts}
  OBVIOUS
<1> QED BY <1>1, RankType, FS_Subset DEF Rank

LEMMA NatMin == ASSUME NEW T, T \subseteq Nat, T # {} PROVE \E x \in T : \A y \in T : x <= y
<1> DEFINE R == OpToRel(<, Nat)
<1>1. PICK x \in T : \A y \in T : ~(<<y, x>> \in R)
  <2> HIDE DEF R
  <2>1. IsWellFoundedOn(R, Nat)
    BY NatLessThanWellFounded DEF R
  <2> QED BY <2>1, WFMin
<1>2. \A y \in T : ~(y < x)
  BY <1>1 DEF OpToRel
<1> QED BY <1>2

\* The ranks have no gap: if some entry has rank k or more, one has rank k.
LEMMA RankReached ==
  ASSUME NEW es, Dated(es), NEW e \in es, NEW k \in Nat, k <= Rank(e, es)
  PROVE  \E d \in es : Rank(d, es) = k
<1>1. \A x \in es : Rank(x, es) \in Nat /\ x.ts \in Nat
  BY RankType DEF Dated
<1>2. PICK d \in es : k <= Rank(d, es) /\ \A x \in es : k <= Rank(x, es) => Rank(d, es) <= Rank(x, es)
  <2> DEFINE T == {Rank(x, es) : x \in {y \in es : k <= Rank(y, es)}}
  <2>1. T \subseteq Nat /\ T # {}
    BY <1>1
  <2>2. PICK n \in T : \A m \in T : n <= m
    BY <2>1, NatMin
  <2> QED BY <2>2
<1>3. ASSUME Rank(d, es) # k PROVE FALSE
  <2> DEFINE D == {x \in es : x.ts > d.ts}
             T == {x.ts : x \in D}
  <2>1. Cardinality(D) = Rank(d, es) /\ IsFiniteSet(D) /\ Cardinality(D) > k
    BY <1>1, <1>2, <1>3, RankType DEF Rank
  <2>2. D # {}
    BY <2>1, FS_EmptySet
  <2>3. PICK n \in T : \A y \in T : n <= y
    <3>1. T \subseteq Nat /\ T # {}
      BY <1>1, <2>2
    <3> QED BY <3>1, NatMin
  <2>4. PICK m \in D : \A x \in D : m.ts <= x.ts
    BY <2>3
  <2>5. {x \in es : x.ts > m.ts} = D \ {m}
    <3>1. \A x \in D : x # m => x.ts > m.ts
      BY <1>1, <2>4 DEF Dated
    <3>2. \A x \in es : x.ts > m.ts => x \in D /\ x # m
      BY <1>1, <2>4
    <3> QED BY <3>1, <3>2
  <2>6. Rank(m, es) = Cardinality(D) - 1
    BY <2>1, <2>4, <2>5, FS_RemoveElement DEF Rank
  <2> HIDE DEF D
  <2>7. m \in es
    BY <2>4 DEF D
  <2> QED BY <1>1, <1>2, <2>1, <2>6, <2>7
<1> QED BY <1>3

\* A page holds no more than its limit, because ranks are distinct.
LEMMA PageSize ==
  ASSUME NEW es, Dated(es), NEW offset \in Nat, NEW n \in Nat, n > 0
  PROVE  LET page == {e \in es : Rank(e, es) \in offset..offset + n - 1}
         IN  Cardinality(page) \in 0..n
<1> DEFINE page == {e \in es : Rank(e, es) \in offset..offset + n - 1}
           I == offset..offset + n - 1
           f == [e \in page |-> Rank(e, es)]
<1>1. f \in Injection(page, I)
  <2>1. f \in [page -> I]
    OBVIOUS
  <2>2. ASSUME NEW d \in page, NEW e \in page, f[d] = f[e] PROVE d = e
    <3>1. d \in es /\ e \in es /\ Rank(d, es) = Rank(e, es)
      BY <2>2
    <3>2. d.ts \in Nat /\ e.ts \in Nat /\ Rank(d, es) \in Nat
      BY <3>1, RankType DEF Dated
    <3>3. ~(d.ts > e.ts) /\ ~(e.ts > d.ts)
      BY <3>1, <3>2, RankOrder
    <3> QED BY <3>1, <3>2, <3>3 DEF Dated
  <2> HIDE DEF f, page
  <2> QED BY <2>1, <2>2 DEF Injection, IsInjective
<1>2. IsFiniteSet(I) /\ Cardinality(I) = n
  BY FS_Interval
<1> HIDE DEF f, I
<1>3. IsFiniteSet(page) /\ Cardinality(page) <= n
  BY <1>1, <1>2, FS_Injection
<1> QED BY <1>3, FS_CardinalityType
-----------------------------------------------------------------------------
PCs == {"new", "act", "log", "insert", "answer", "answered", "refused", "failed",
        "connect", "open", "disconnect", "over"}
Readers == [pc : {"idle", "asking", "counted", "end"}, filter : Filters, limit : 0..MaxLimit,
            offset : Nat, base : SUBSET log, got : SUBSET log]

\* The steps by what they change: writers that only go on, that read the clock, that
\* insert; the reader; main.
GoesOn(a) == Arrive(a) \/ Refuse(a) \/ Fail(a) \/ Act(a) \/ Answer(a)
Stamping(a) == Stamp(a) \/ Upgrade(a) \/ Disconnect(a)
Inserting(a) == Insert(a) \/ Connect(a) \/ Disconnected(a)
Reading ==
  (\E f \in Filters, n \in Limits : StartReading(f, n)) \/ CountAuditLog \/ HandleListAuditLog \/ StopReading
Stopping == Signal \/ Drained \/ DrainExpires \/ Stop \/ Crash

LEMMA NextCases ==
  ASSUME [Next]_vars
  PROVE  \/ \E a \in Actors : \/ GoesOn(a) \/ Inserting(a)
                              \/ Stamping(a) /\ (pc[a] = "act" => a \in Terminals)
         \/ Reading \/ Stopping \/ UNCHANGED vars
<1>1. Requests \subseteq Actors /\ Terminals \subseteq Actors
  BY DEF Actors
<1>2. \A r \in Requests : Stamp(r) => pc[r] # "act"
  BY DEF Stamp, Goto
<1> QED BY <1>1, <1>2 DEF Next, GoesOn, Stamping, Inserting, Reading, Stopping

LEMMA GoesOnEffect ==
  ASSUME TypeOK, NEW a \in Actors, GoesOn(a)
  PROVE  /\ pc' \in [Actors -> PCs] /\ UNCHANGED <<stage, expired, stamp, now, readings, back, log, reader, lost, late>>
         /\ \A x \in Actors \ {a} : pc'[x] = pc[x]
         /\ \/ pc[a] = "new" /\ pc'[a] = "act" /\ stage = "serve"
            \/ pc[a] = "act" /\ pc'[a] \in {"refused", "failed", "log"}
            \/ pc[a] = "answer" /\ pc'[a] = "answered"
BY DEF TypeOK, PCs, GoesOn, Arrive, Refuse, Fail, Act, Answer, Goto, Main, logVars

LEMMA StampingEffect ==
  ASSUME TypeOK, NEW a \in Actors, Stamping(a)
  PROVE  /\ pc' \in [Actors -> PCs] /\ UNCHANGED <<stage, expired, log, reader, lost, late>>
         /\ \A x \in Actors \ {a} : pc'[x] = pc[x]
         /\ \E t \in Nat \ readings :
              /\ stamp' = [stamp EXCEPT ![a] = t] /\ readings' = readings \cup {t}
              /\ now' = (IF t < now THEN now ELSE t) /\ back' = (IF t < now THEN back + 1 ELSE back)
         /\ back' \in 0..MaxBack
         /\ \/ pc[a] = "log" /\ pc'[a] = "insert"
            \/ pc[a] = "act" /\ pc'[a] = "connect"
            \/ pc[a] = "open" /\ pc'[a] = "disconnect"
<1>1. /\ \A t \in (1..now) \cup {now + Tick} : t \in Nat
      /\ back \in Nat /\ back + 1 \in Nat /\ MaxBack \in Nat
  BY AuditAssumption DEF TypeOK
<1> QED BY <1>1 DEF TypeOK, PCs, Stamping, Stamp, Upgrade, Disconnect, TakeTimestamp, Goto

LEMMA InsertingEffect ==
  ASSUME TypeOK, NEW a \in Actors, Inserting(a)
  PROVE  \E action \in {"change", "connect", "disconnect"} :
         /\ pc' \in [Actors -> PCs] /\ UNCHANGED <<stage, expired, now, readings, back, reader>>
         /\ \A x \in Actors \ {a} : pc'[x] = pc[x]
         /\ stamp' = [stamp EXCEPT ![a] = 0]
         /\ \/ log' = log \cup {[ts |-> stamp[a], by |-> a, action |-> action]} /\ UNCHANGED <<lost, late>>
            \/ log' = log /\ lost' = lost \cup {a} /\ UNCHANGED late
            \/ log' = log /\ late' = late \cup {a} /\ UNCHANGED lost /\ stage = "srv.Close"
         /\ \/ pc[a] = "insert" /\ pc'[a] = "answer" /\ action = "change"
            \/ pc[a] = "connect" /\ pc'[a] = "open" /\ action = "connect"
            \/ pc[a] = "disconnect" /\ pc'[a] = "over" /\ action = "disconnect"
<1>1. CASE Insert(a)
  BY <1>1 DEF TypeOK, PCs, Insert, LogAudit, Goto, StoreOpen, Main
<1>2. CASE Connect(a)
  BY <1>2 DEF TypeOK, PCs, Connect, LogAudit, Goto, StoreOpen, Main
<1>3. CASE Disconnected(a)
  BY <1>3 DEF TypeOK, PCs, Disconnected, LogAudit, Goto, StoreOpen, Main
<1> QED BY <1>1, <1>2, <1>3 DEF Inserting

LEMMA NoReaderType == NoReader \in Readers /\ NoReader.pc = "idle"
<1>1. (CHOOSE f \in Filters : TRUE) \in Filters
  BY AuditAssumption
<1> QED BY <1>1, AuditAssumption DEF NoReader, Reader, Readers

LEMMA StoppingEffect ==
  ASSUME TypeOK, Stopping
  PROVE  /\ UNCHANGED <<pc, stamp, now, readings, back, log, lost, late>> /\ reader' \in {reader, NoReader}
         /\ stage' \in {"Shutdown", "st.Close", "srv.Close", "exited"}
         /\ expired' = expired \/ expired' = TRUE
BY DEF Stopping, Signal, Drained, DrainExpires, Stop, Crash, MainGoesOn, logVars

\* The entries of a set that a filter selects; Matching(f) is Selected(f, log).
Selected(f, es) ==
  {e \in es : /\ f.user \in {"", e.by} /\ f.action \in {"", e.action}
              /\ e.ts >= f.since /\ (f.until = 0 \/ e.ts <= f.until)}

LEMMA LimitType == ASSUME NEW n \in Limits PROVE Limit(n) \in 1..MaxLimit
BY AuditAssumption DEF Limit

\* Clock readings are never used twice.
Stamped(a) == pc[a] \in {"insert", "connect", "disconnect"}

Stamps ==
  /\ IsFiniteSet(log)
  /\ \A e \in log : e.ts \in readings
  /\ \A a \in Actors : Stamped(a) => stamp[a] \in readings /\ \A e \in log : e.ts # stamp[a]
  /\ \A a, b \in Actors : Stamped(a) /\ Stamped(b) /\ stamp[a] = stamp[b] => a = b
  /\ \A d, e \in log : d.ts = e.ts => d = e

\* What the reader has skipped it has received.
Paged ==
  reader.pc # "idle" =>
    /\ reader.limit > 0 /\ reader.base \subseteq Matching(reader.filter)
    /\ \A e \in reader.base : Rank(e, Matching(reader.filter)) < reader.offset => e \in reader.got

PageInv == TypeOK /\ Stamps /\ Paged /\ PagingMissesNothing

LEMMA MatchingDated == ASSUME TypeOK, Stamps, NEW f PROVE Dated(Selected(f, log))
<1>1. Selected(f, log) \in SUBSET log
  BY DEF Selected
<1>2. IsFiniteSet(Selected(f, log))
  BY <1>1, FS_Subset DEF Stamps
<1> QED BY <1>1, <1>2 DEF Dated, Stamps, TypeOK

\* New entries do not spoil what the reader has got.
LEMMA PagedStays ==
  ASSUME PageInv, TypeOK', Stamps', log \subseteq log', reader' = reader
  PROVE  PageInv'
<1> DEFINE es == Selected(reader.filter, log)
           fs == Selected(reader.filter, log')
<1>1. Matching(reader.filter) = es /\ Matching(reader.filter)' = fs
  BY DEF Matching, Selected
<1>2. es \subseteq fs
  BY DEF Selected
<1>3. Dated(es)
  BY MatchingDated DEF PageInv
<1>4. Dated(fs)
  <2>1. fs \in SUBSET log'
    BY DEF Selected
  <2>2. IsFiniteSet(fs)
    BY <2>1, FS_Subset DEF Stamps
  <2> HIDE DEF fs
  <2> QED BY <2>1, <2>2 DEF Dated, Stamps, TypeOK
<1> HIDE DEF es, fs
<1>5. ASSUME reader.pc # "idle"
      PROVE  /\ reader.limit > 0 /\ reader.base \subseteq fs
             /\ \A e \in reader.base : Rank(e, fs) < reader.offset => e \in reader.got
  <2>1. reader.limit > 0 /\ reader.base \subseteq es /\ reader.offset \in Nat
    BY <1>1, <1>5 DEF PageInv, Paged, TypeOK
  <2>2. ASSUME NEW e \in reader.base, Rank(e, fs) < reader.offset PROVE e \in reader.got
    <3>1. Rank(e, es) <= Rank(e, fs) /\ Rank(e, es) \in Nat /\ Rank(e, fs) \in Nat
      BY <1>2, <1>3, <1>4, <2>1, RankGrows, RankType
    <3>2. Rank(e, es) < reader.offset
      BY <2>1, <2>2, <3>1
    <3> QED BY <1>1, <1>5, <3>2 DEF PageInv, Paged
  <2> QED BY <1>2, <2>1, <2>2
<1>6. Paged'
  BY <1>1, <1>5 DEF Paged
<1>7. PagingMissesNothing'
  BY DEF PageInv, PagingMissesNothing
<1> QED BY <1>6, <1>7 DEF PageInv

LEMMA GoesOnPaged == ASSUME PageInv, NEW a \in Actors, GoesOn(a) PROVE PageInv'
<1>1. TypeOK'
  BY GoesOnEffect DEF PageInv, TypeOK, PCs
<1>2. Stamps'
  <2>1. \A x \in Actors : Stamped(x)' => Stamped(x)
    BY GoesOnEffect DEF PageInv, Stamped
  <2> QED BY <2>1, GoesOnEffect DEF PageInv, Stamps
<1> QED BY <1>1, <1>2, GoesOnEffect, PagedStays DEF PageInv

LEMMA StampingPaged == ASSUME PageInv, NEW a \in Actors, Stamping(a) PROVE PageInv'
<1>0. /\ now \in Nat /\ readings \subseteq 0..now /\ stamp \in [Actors -> Nat] /\ log' = log
      /\ \A x \in Actors \ {a} : pc'[x] = pc[x]
  BY StampingEffect DEF PageInv, TypeOK
<1>t. PICK t \in Nat \ readings : /\ stamp' = [stamp EXCEPT ![a] = t] /\ readings' = readings \cup {t}
                                 /\ now' = (IF t < now THEN now ELSE t)
  BY StampingEffect DEF PageInv
<1>1. TypeOK'
  <2>1. back' \in 0..MaxBack
    BY StampingEffect DEF PageInv
  <2>2. now' \in Nat /\ readings' \subseteq 0..now' /\ stamp' \in [Actors -> Nat]
    BY <1>0, <1>t
  <2> QED BY <1>0, <2>1, <2>2, StampingEffect DEF PageInv, TypeOK, PCs
<1>2. Stamps'
  <2>1. \A e \in log' : e.ts \in readings'
    BY <1>0, <1>t DEF PageInv, Stamps
  <2>2. ASSUME NEW x \in Actors, Stamped(x)'
        PROVE  stamp'[x] \in readings' /\ \A e \in log' : e.ts # stamp'[x]
    BY <1>0, <1>t, <2>2 DEF PageInv, Stamps, Stamped
  <2>3. ASSUME NEW x \in Actors, NEW y \in Actors, Stamped(x)', Stamped(y)', stamp'[x] = stamp'[y]
        PROVE  x = y
    BY <1>0, <1>t, <2>3 DEF PageInv, Stamps, Stamped
  <2> QED BY <1>0, <2>1, <2>2, <2>3 DEF PageInv, Stamps
<1> QED BY <1>1, <1>2, StampingEffect, PagedStays DEF PageInv

LEMMA InsertingPaged == ASSUME PageInv, NEW a \in Actors, Inserting(a) PROVE PageInv'
<1>0. PICK action \in {"change", "connect", "disconnect"} :
        /\ pc' \in [Actors -> PCs] /\ UNCHANGED <<stage, expired, now, readings, back, reader>>
        /\ \A x \in Actors \ {a} : pc'[x] = pc[x]
        /\ stamp' = [stamp EXCEPT ![a] = 0] /\ ~Stamped(a)' /\ Stamped(a)
        /\ \/ log' = log \cup {[ts |-> stamp[a], by |-> a, action |-> action]} /\ UNCHANGED <<lost, late>>
           \/ log' = log /\ lost' = lost \cup {a} /\ UNCHANGED late
           \/ log' = log /\ late' = late \cup {a} /\ UNCHANGED lost
  BY InsertingEffect DEF PageInv, Stamped
<1> DEFINE n == [ts |-> stamp[a], by |-> a, action |-> action]
<1>1. /\ stamp \in [Actors -> Nat] /\ \A e \in log : e.ts \in Nat
      /\ n.ts = stamp[a] /\ n \in [ts : Nat, by : Actors, action : {"change", "connect", "disconnect"}]
  BY DEF PageInv, TypeOK
<1> HIDE DEF n
<1>2. log \subseteq log' /\ log' \subseteq log \cup {n}
  BY <1>0 DEF n
<1>3. TypeOK'
  <2>1. reader' \in Readers'
    BY <1>0, <1>2 DEF PageInv, TypeOK, Readers
  <2>2. stamp' \in [Actors -> Nat] /\ lost' \subseteq Actors /\ late' \subseteq Actors
    BY <1>0 DEF PageInv, TypeOK
  <2>3. log' \subseteq [ts : Nat, by : Actors, action : {"change", "connect", "disconnect"}]
    BY <1>1, <1>2 DEF PageInv, TypeOK
  <2> QED BY <1>0, <2>1, <2>2, <2>3 DEF PageInv, TypeOK, PCs, Readers
<1>4. Stamps'
  <2>1. IsFiniteSet(log')
    <3>1. log' = log \/ log' = log \cup {n}
      BY <1>0 DEF n
    <3> QED BY <3>1, FS_AddElement DEF PageInv, Stamps
  <2>2. \A e \in log' : e.ts \in readings'
    BY <1>0, <1>1, <1>2 DEF PageInv, Stamps
  <2>3. ASSUME NEW x \in Actors, Stamped(x)'
        PROVE  stamp'[x] \in readings' /\ \A e \in log' : e.ts # stamp'[x]
    <3>1. x # a /\ Stamped(x) /\ stamp'[x] = stamp[x]
      BY <1>0, <1>1, <2>3 DEF Stamped
    <3>2. stamp[x] # n.ts
      BY <1>0, <1>1, <3>1 DEF PageInv, Stamps
    <3> QED BY <1>0, <1>2, <3>1, <3>2 DEF PageInv, Stamps
  <2>4. ASSUME NEW x \in Actors, NEW y \in Actors, Stamped(x)', Stamped(y)', stamp'[x] = stamp'[y]
        PROVE  x = y
    <3>1. /\ x # a /\ Stamped(x) /\ stamp'[x] = stamp[x]
          /\ y # a /\ Stamped(y) /\ stamp'[y] = stamp[y]
      BY <1>0, <1>1, <2>4 DEF Stamped
    <3> QED BY <2>4, <3>1 DEF PageInv, Stamps
  <2>5. \A d, e \in log' : d.ts = e.ts => d = e
    BY <1>0, <1>1, <1>2 DEF PageInv, Stamps
  <2> QED BY <2>1, <2>2, <2>3, <2>4, <2>5 DEF Stamps
<1> QED BY <1>0, <1>2, <1>3, <1>4, PagedStays

LEMMA StoppingPaged == ASSUME PageInv, Stopping PROVE PageInv'
<1>1. TypeOK'
  <2>1. reader' \in Readers'
    BY StoppingEffect, NoReaderType DEF PageInv, TypeOK, Readers
  <2>2. expired' \in BOOLEAN /\ back' \in 0..MaxBack
    BY StoppingEffect, Zenon DEF PageInv, TypeOK
  <2> QED BY <2>1, <2>2, StoppingEffect DEF PageInv, TypeOK, Readers, Stages
<1>2. Stamps'
  BY StoppingEffect DEF PageInv, Stamps, Stamped
<1>3. CASE reader' = reader
  BY <1>1, <1>2, <1>3, StoppingEffect, PagedStays DEF PageInv
<1>4. CASE reader' = NoReader
  BY <1>1, <1>2, <1>4, NoReaderType DEF PageInv, Paged, PagingMissesNothing
<1> QED BY <1>3, <1>4, StoppingEffect DEF PageInv

\* A page continues where the reader stopped, and an empty one comes after the last entry.
LEMMA ReadingPaged == ASSUME PageInv, Reading PROVE PageInv'
<1>0. UNCHANGED <<stage, expired, pc, stamp, now, readings, back, log, lost, late>>
  BY DEF Reading, StartReading, CountAuditLog, HandleListAuditLog, StopReading, logVars
<1>1. reader' \in Readers => TypeOK'
  <2>1. expired' \in BOOLEAN /\ back' \in 0..MaxBack
    BY <1>0, Zenon DEF PageInv, TypeOK
  <2> QED BY <1>0, <2>1 DEF PageInv, TypeOK, Readers
<1>2. Stamps'
  BY <1>0 DEF PageInv, Stamps, Stamped
<1>3. ASSUME NEW f \in Filters, NEW n \in Limits, StartReading(f, n) PROVE PageInv'
  <2>1. reader' = Reader("asking", f, Limit(n), 0, Matching(f), {})
    BY <1>3 DEF StartReading
  <2>2. Matching(f) \in SUBSET log /\ Matching(reader.filter)' = Matching(f)
    BY <1>0, <2>1 DEF Matching, Reader
  <2>3. reader' \in Readers
    BY <2>1, <2>2, LimitType DEF Readers, Reader
  <2>4. Paged'
    <3>1. /\ reader'.pc = "asking" /\ reader'.limit = Limit(n) /\ reader'.offset = 0
          /\ reader'.base = Matching(f)
      BY <2>1 DEF Reader
    <3>2. \A e : Rank(e, Matching(f)) \in Nat
      <4>1. Matching(f) = Selected(f, log)
        BY DEF Matching, Selected
      <4> QED BY <4>1, MatchingDated, RankType DEF PageInv
    <3> QED BY <2>2, <3>1, <3>2, LimitType DEF Paged
  <2>5. PagingMissesNothing'
    BY <2>1 DEF PagingMissesNothing, Reader
  <2> QED BY <1>1, <1>2, <2>3, <2>4, <2>5 DEF PageInv
<1>4. CASE CountAuditLog
  <2>1. reader' = [reader EXCEPT !.pc = "counted"] /\ reader.pc = "asking" /\ reader \in Readers
    BY <1>4 DEF CountAuditLog, PageInv, TypeOK, Readers
  <2>2. /\ reader' \in Readers /\ reader'.pc = "counted" /\ reader'.filter = reader.filter
        /\ reader'.limit = reader.limit /\ reader'.offset = reader.offset
        /\ reader'.base = reader.base /\ reader'.got = reader.got
    BY <2>1 DEF Readers
  <2>3. Matching(reader.filter)' = Matching(reader.filter)
    BY <1>0, <2>2 DEF Matching
  <2>4. Paged' /\ PagingMissesNothing'
    BY <2>1, <2>2, <2>3 DEF PageInv, Paged, PagingMissesNothing
  <2> QED BY <1>1, <1>2, <2>2, <2>4 DEF PageInv
<1>5. CASE HandleListAuditLog
  <2> DEFINE es == Matching(reader.filter)
             k == reader.offset
             n == reader.limit
             page == {e \in es : Rank(e, es) \in k..k + n - 1}
  <2>1. /\ reader.pc = "counted"
        /\ reader' = Reader(IF page = {} THEN "end" ELSE "asking", reader.filter, n,
                            k + Cardinality(page), reader.base, reader.got \cup (page \cap reader.base))
    BY <1>5 DEF HandleListAuditLog, ListAuditLog
  <2>2. /\ k \in Nat /\ n \in Nat /\ n > 0 /\ reader \in Readers /\ reader.base \subseteq es
        /\ \A e \in reader.base : Rank(e, es) < k => e \in reader.got
    BY <2>1, AuditAssumption DEF PageInv, TypeOK, Paged, Readers
  <2>3. Dated(es)
    <3>1. es = Selected(reader.filter, log)
      BY DEF Matching, Selected
    <3> QED BY <3>1, MatchingDated DEF PageInv
  <2>4. Matching(reader.filter)' = es
    BY <1>0, <2>1 DEF Matching, Reader
  <2> HIDE DEF es
  <2>5. Cardinality(page) \in 0..n
    BY <2>2, <2>3, PageSize
  <2>6. \A e \in reader.base : Rank(e, es) \in Nat
    BY <2>3, RankType
  <2>7. \A e \in reader.base : Rank(e, es) < k + Cardinality(page) => e \in reader.got \cup (page \cap reader.base)
    <3> DEFINE c == Cardinality(page)
    <3>1. c \in Nat /\ c <= n
      BY <2>2, <2>5
    <3> HIDE DEF c
    <3>2. ASSUME NEW e \in reader.base, Rank(e, es) < k + c PROVE e \in reader.got \cup (page \cap reader.base)
      BY <2>2, <2>6, <3>1, <3>2
    <3> QED BY <3>2 DEF c
  <2>8. ASSUME page = {} PROVE reader.base \subseteq reader.got
    <3> SUFFICES ASSUME NEW e \in reader.base, e \notin reader.got PROVE FALSE
      OBVIOUS
    <3>1. e \in es /\ k <= Rank(e, es)
      BY <2>2, <2>6
    <3>2. PICK d \in es : Rank(d, es) = k
      BY <2>2, <2>3, <3>1, RankReached
    <3> QED BY <2>2, <2>8, <3>2
  <2>9. reader' \in Readers
    <3>1. k + Cardinality(page) \in Nat
      BY <2>2, <2>5
    <3> HIDE DEF page, k, n
    <3>2. n \in 0..MaxLimit /\ reader.filter \in Filters /\ reader.base \in SUBSET log /\ reader.got \in SUBSET log
      BY <2>2 DEF Readers, n
    <3>3. (reader.got \cup (page \cap reader.base)) \in SUBSET log
      BY <3>2
    <3>4. (IF page = {} THEN "end" ELSE "asking") \in {"idle", "asking", "counted", "end"}
      OBVIOUS
    <3> QED BY <2>1, <3>1, <3>2, <3>3, <3>4 DEF Readers, Reader
  <2> HIDE DEF page, k, n
  <2>10. /\ reader'.limit = n /\ reader'.offset = k + Cardinality(page) /\ reader'.base = reader.base
         /\ reader'.got = reader.got \cup (page \cap reader.base)
         /\ reader'.pc = "end" => page = {}
    BY <2>1 DEF Reader
  <2>11. Paged'
    BY <2>2, <2>4, <2>7, <2>10 DEF Paged
  <2>12. PagingMissesNothing'
    BY <2>8, <2>10 DEF PagingMissesNothing
  <2> QED BY <1>1, <1>2, <2>9, <2>11, <2>12 DEF PageInv
<1>6. CASE StopReading
  BY <1>1, <1>2, <1>6, NoReaderType DEF StopReading, PageInv, Paged, PagingMissesNothing
<1> QED BY <1>3, <1>4, <1>5, <1>6 DEF Reading

LEMMA PageStep == ASSUME PageInv, [Next]_vars PROVE PageInv'
<1>1. CASE UNCHANGED vars
  <2>1. TypeOK' /\ Stamps'
    <3>1. expired' \in BOOLEAN /\ back' \in 0..MaxBack
      BY <1>1, Zenon DEF vars, PageInv, TypeOK
    <3> QED BY <1>1, <3>1 DEF vars, PageInv, TypeOK, Stamps, Stamped
  <2> QED BY <1>1, <2>1, PagedStays DEF vars
<1> QED BY <1>1, NextCases, GoesOnPaged, StampingPaged, InsertingPaged, ReadingPaged, StoppingPaged

LEMMA PageInit == ASSUME Init PROVE PageInv
<1>1. reader \in Readers /\ reader.pc = "idle"
  BY NoReaderType DEF Init
<1>2. TypeOK
  <2>1. now \in Nat /\ readings \subseteq 0..now /\ back \in 0..MaxBack
    BY AuditAssumption DEF Init
  <2> QED BY <1>1, <2>1 DEF Init, TypeOK, Readers, Stages
<1>3. Stamps
  BY FS_EmptySet DEF Init, Stamps, Stamped
<1> QED BY <1>1, <1>2, <1>3 DEF PageInv, Paged, PagingMissesNothing

LEMMA PageInvariant == Spec => []PageInv
BY PageInit, PageStep, PTL DEF Spec
-----------------------------------------------------------------------------
\* When main goes on to close the database without a timeout no handler runs, and only
\* terminals have left the drain's reach.
Drain ==
  /\ stage \in {"st.Close", "srv.Close"} /\ ~expired =>
       \A a \in Actors : pc[a] \notin {"act", "log", "insert", "answer"}
  /\ \A a \in Actors : pc[a] \in {"connect", "open", "disconnect", "over"} => a \in Terminals

DrainInv == PageInv /\ Drain /\ LateOnlyAfterTimeout

LEMMA DrainStep == ASSUME DrainInv, [Next]_vars PROVE DrainInv'
<1>0. PageInv' /\ TypeOK
  BY PageStep DEF DrainInv, PageInv
<1>1. ASSUME NEW a \in Actors, GoesOn(a) PROVE Drain' /\ LateOnlyAfterTimeout'
  BY <1>0, <1>1, GoesOnEffect DEF DrainInv, Drain, LateOnlyAfterTimeout
<1>2. ASSUME NEW a \in Actors, Stamping(a), pc[a] = "act" => a \in Terminals
      PROVE  Drain' /\ LateOnlyAfterTimeout'
  BY <1>0, <1>2, StampingEffect DEF DrainInv, Drain, LateOnlyAfterTimeout
<1>3. ASSUME NEW a \in Actors, Inserting(a) PROVE Drain' /\ LateOnlyAfterTimeout'
  <2>1. /\ UNCHANGED <<stage, expired>> /\ \A x \in Actors \ {a} : pc'[x] = pc[x]
        /\ late' \in {late, late \cup {a}} /\ (late' # late => stage = "srv.Close")
        /\ \/ pc[a] = "insert" /\ pc'[a] = "answer"
           \/ pc[a] = "connect" /\ pc'[a] = "open"
           \/ pc[a] = "disconnect" /\ pc'[a] = "over"
    <3>1. PICK action :
            /\ UNCHANGED <<stage, expired>> /\ \A x \in Actors \ {a} : pc'[x] = pc[x]
            /\ \/ UNCHANGED <<lost, late>>
               \/ lost' = lost \cup {a} /\ UNCHANGED late
               \/ late' = late \cup {a} /\ stage = "srv.Close"
            /\ \/ pc[a] = "insert" /\ pc'[a] = "answer" /\ action = "change"
               \/ pc[a] = "connect" /\ pc'[a] = "open" /\ action = "connect"
               \/ pc[a] = "disconnect" /\ pc'[a] = "over" /\ action = "disconnect"
      BY <1>0, <1>3, InsertingEffect
    <3> QED BY <3>1
  <2>2. Drain'
    BY <2>1 DEF DrainInv, Drain
  <2>3. LateOnlyAfterTimeout'
    <3>1. CASE pc[a] = "insert"
      BY <2>1, <3>1 DEF DrainInv, Drain, LateOnlyAfterTimeout
    <3>2. CASE pc[a] # "insert"
      <4>1. a \notin Requests
        BY <2>1, <3>2, AuditAssumption DEF DrainInv, Drain
      <4> QED BY <2>1, <4>1 DEF DrainInv, LateOnlyAfterTimeout
    <3> QED BY <3>1, <3>2
  <2> QED BY <2>2, <2>3
<1>4. ASSUME Reading PROVE Drain' /\ LateOnlyAfterTimeout'
  BY <1>4 DEF DrainInv, Drain, LateOnlyAfterTimeout, Reading, StartReading, CountAuditLog,
              HandleListAuditLog, StopReading, logVars
<1>5. ASSUME Stopping PROVE Drain' /\ LateOnlyAfterTimeout'
  <2>1. LateOnlyAfterTimeout'
    BY <1>0, <1>5, StoppingEffect DEF DrainInv, LateOnlyAfterTimeout
  <2>2. Drain'
    BY <1>5 DEF DrainInv, Drain, Stopping, Signal, Drained, Idle, InHandler, DrainExpires, Stop, Crash,
                MainGoesOn, Main
  <2> QED BY <2>1, <2>2
<1>6. ASSUME UNCHANGED vars PROVE Drain' /\ LateOnlyAfterTimeout'
  BY <1>6 DEF vars, DrainInv, Drain, LateOnlyAfterTimeout
<1>7. Drain' /\ LateOnlyAfterTimeout'
  BY <1>1, <1>2, <1>3, <1>4, <1>5, <1>6, NextCases
<1> QED BY <1>0, <1>7 DEF DrainInv

LEMMA DrainInit == ASSUME Init PROVE DrainInv
BY PageInit DEF Init, DrainInv, Drain, LateOnlyAfterTimeout

LEMMA DrainInvariant == Spec => []DrainInv
BY DrainInit, DrainStep, PTL DEF Spec
-----------------------------------------------------------------------------
\* What the log says of a writer at each point of its life.
Has(a, action) == \E c \in log : c.by = a /\ c.action = action

Recorded(a) ==
  /\ pc[a] \in {"new", "act", "refused", "failed", "log", "insert", "connect"} => \A e \in log : e.by # a
  /\ a \notin lost \cup late =>
       /\ pc[a] \in {"answer", "answered"} => Has(a, "change") /\ \A e \in log : e.by = a => e.action = "change"
       /\ pc[a] = "open" => Has(a, "connect")
       /\ pc[a] = "disconnect" => \E c \in log : c.by = a /\ c.action = "connect" /\ (c.ts < stamp[a] \/ back > 0)
       /\ pc[a] = "over" =>
            \E c, d \in log : /\ c.by = a /\ c.action = "connect"
                              /\ d.by = a /\ d.action = "disconnect"
                              /\ c.ts < d.ts \/ back > 0

RecordInv == PageInv /\ \A a \in Actors : Recorded(a)

LEMMA OthersStay ==
  ASSUME NEW x, Recorded(x), pc'[x] = pc[x], stamp'[x] = stamp[x], log \subseteq log', back > 0 => back' > 0,
         \A e \in log' \ log : e.by # x, x \in lost \cup late => x \in lost' \cup late'
  PROVE  Recorded(x)'
<1>1. \A e \in log' : e.by = x => e \in log
  OBVIOUS
<1> QED BY <1>1 DEF Recorded, Has

LEMMA RecordStep == ASSUME RecordInv, [Next]_vars PROVE RecordInv'
<1>0. PageInv' /\ PageInv /\ TypeOK
  BY PageStep DEF RecordInv, PageInv
<1>1. ASSUME NEW a \in Actors, GoesOn(a) PROVE \A x \in Actors : Recorded(x)'
  <2>1. \A x \in Actors \ {a} : Recorded(x)'
    BY <1>0, <1>1, GoesOnEffect, OthersStay DEF RecordInv
  <2>2. Recorded(a)'
    BY <1>0, <1>1, GoesOnEffect DEF RecordInv, Recorded, Has
  <2> QED BY <2>1, <2>2
<1>2. ASSUME NEW a \in Actors, Stamping(a) PROVE \A x \in Actors : Recorded(x)'
  <2>0. stamp \in [Actors -> Nat]
    BY <1>0 DEF TypeOK
  <2>1. \A x \in Actors \ {a} : Recorded(x)'
    <3>1. back > 0 => back' > 0
      BY <1>0, <1>2, StampingEffect DEF TypeOK
    <3> QED BY <1>0, <1>2, <2>0, <3>1, StampingEffect, OthersStay DEF RecordInv
  <2>2. Recorded(a)'
    <3>1. Recorded(a) /\ \A e \in log : e.ts \in readings /\ e.ts \in 0..now
      BY <1>0 DEF RecordInv, PageInv, Stamps, TypeOK
    <3>2. /\ UNCHANGED <<log, lost, late>> /\ stamp'[a] \in Nat \ readings
          /\ back > 0 => back' > 0
          /\ stamp'[a] < now => back' > 0
      BY <1>0, <1>2, <2>0, StampingEffect DEF TypeOK
    <3>3. CASE pc[a] = "open" /\ pc'[a] = "disconnect"
      <4>1. \A e \in log : e.ts < stamp'[a] \/ back' > 0
        BY <1>0, <3>1, <3>2 DEF TypeOK
      <4> QED BY <3>1, <3>2, <3>3, <4>1 DEF Recorded, Has
    <3>4. CASE pc[a] \in {"act", "log"} /\ pc'[a] \in {"connect", "insert"}
      BY <3>1, <3>2, <3>4 DEF Recorded
    <3> QED BY <1>0, <1>2, <3>3, <3>4, StampingEffect
  <2> QED BY <2>1, <2>2
<1>3. ASSUME NEW a \in Actors, Inserting(a) PROVE \A x \in Actors : Recorded(x)'
  <2>0. PICK action \in {"change", "connect", "disconnect"} :
         /\ \A x \in Actors \ {a} : pc'[x] = pc[x]
         /\ stamp' = [stamp EXCEPT ![a] = 0] /\ back' = back
         /\ \/ log' = log \cup {[ts |-> stamp[a], by |-> a, action |-> action]} /\ UNCHANGED <<lost, late>>
            \/ log' = log /\ lost' = lost \cup {a} /\ UNCHANGED late
            \/ log' = log /\ late' = late \cup {a} /\ UNCHANGED lost
         /\ \/ pc[a] = "insert" /\ pc'[a] = "answer" /\ action = "change"
            \/ pc[a] = "connect" /\ pc'[a] = "open" /\ action = "connect"
            \/ pc[a] = "disconnect" /\ pc'[a] = "over" /\ action = "disconnect"
    BY <1>0, <1>3, InsertingEffect
  <2> DEFINE n == [ts |-> stamp[a], by |-> a, action |-> action]
  <2>1. n.ts = stamp[a] /\ n.by = a /\ n.action = action /\ stamp \in [Actors -> Nat]
    BY <1>0 DEF TypeOK
  <2>2. /\ log \subseteq log' /\ log' \subseteq log \cup {n}
        /\ a \notin lost' \cup late' => n \in log' /\ a \notin lost \cup late
        /\ lost \cup late \subseteq lost' \cup late'
    BY <2>0
  <2> HIDE DEF n
  <2>3. ASSUME NEW x \in Actors \ {a} PROVE Recorded(x)'
    BY <2>0, <2>1, <2>2, OthersStay DEF RecordInv
  <2>4. Recorded(a)'
    <3>1. CASE a \in lost' \cup late'
      BY <2>0, <3>1 DEF Recorded
    <3>2. CASE a \notin lost' \cup late'
      <4>1. n \in log' /\ a \notin lost \cup late /\ Recorded(a)
        BY <2>2, <3>2 DEF RecordInv
      <4>2. CASE pc[a] = "insert"
        BY <2>0, <2>1, <2>2, <4>1, <4>2 DEF Recorded, Has
      <4>3. CASE pc[a] = "connect"
        BY <2>0, <2>1, <2>2, <4>1, <4>3 DEF Recorded, Has
      <4>4. CASE pc[a] = "disconnect"
        <5>1. PICK c \in log : c.by = a /\ c.action = "connect" /\ (c.ts < n.ts \/ back > 0)
          BY <2>1, <4>1, <4>4 DEF Recorded
        <5>2. c \in log' /\ back' = back /\ n.action = "disconnect" /\ pc'[a] = "over"
          BY <2>0, <2>1, <2>2, <4>4
        <5> QED BY <2>1, <4>1, <5>1, <5>2 DEF Recorded
      <4> QED BY <2>0, <4>2, <4>3, <4>4
    <3> QED BY <3>1, <3>2
  <2> QED BY <2>3, <2>4
<1>4. ASSUME Reading \/ Stopping \/ UNCHANGED vars PROVE \A x \in Actors : Recorded(x)'
  <2>1. UNCHANGED <<pc, stamp, back, log, lost, late>>
    BY <1>0, <1>4, StoppingEffect DEF vars, Reading, StartReading, CountAuditLog, HandleListAuditLog,
                                      StopReading, logVars
  <2> QED BY <2>1, OthersStay DEF RecordInv
<1>5. \A x \in Actors : Recorded(x)'
  BY <1>1, <1>2, <1>3, <1>4, NextCases
<1> QED BY <1>0, <1>5 DEF RecordInv

LEMMA RecordInit == ASSUME Init PROVE RecordInv
BY PageInit DEF Init, RecordInv, Recorded

LEMMA RecordInvariant == Spec => []RecordInv
BY RecordInit, RecordStep, PTL DEF Spec
-----------------------------------------------------------------------------
\* Every variable of the audit log and of the shutdown keeps its type.
THEOREM TypeCorrect == Spec => []TypeOK
<1>1. PageInv => TypeOK
  BY DEF PageInv
<1> QED BY <1>1, PageInvariant, PTL

\* A reader that pages until a page is empty has every entry it began with
\* (ListAuditLog), for every filter, limit and interleaving with writers.
THEOREM PagesMissNothing == Spec => []PagingMissesNothing
<1>1. PageInv => PagingMissesNothing
  BY DEF PageInv
<1> QED BY <1>1, PageInvariant, PTL

\* A drained shutdown closes the database under no request (ListenAndServe and main).
THEOREM DrainProtects == Spec => []LateOnlyAfterTimeout
<1>1. DrainInv => LateOnlyAfterTimeout
  BY DEF DrainInv
<1> QED BY <1>1, DrainInvariant, PTL

\* Confirmed changes and ended terminals have their entries, in order, unless an INSERT
\* failed or came too late (logAudit, LogAudit, HandleTerminal).
THEOREM AuditIsComplete == Spec => []AuditComplete
<1>1. RecordInv => AuditComplete
  <2> SUFFICES ASSUME RecordInv, NEW a \in Actors, a \notin lost \cup late, pc[a] = "answered"
               PROVE  Entries(a) = {"change"}
    BY DEF RecordInv, Recorded, AuditComplete
  <2>1. Has(a, "change") /\ \A e \in log : e.by = a => e.action = "change"
    BY DEF RecordInv, Recorded
  <2> QED BY <2>1 DEF Has, Entries
<1> QED BY <1>1, RecordInvariant, PTL
=============================================================================
