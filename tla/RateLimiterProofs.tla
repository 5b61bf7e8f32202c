-------------------------- MODULE RateLimiterProofs --------------------------
(***************************************************************************)
(* Proofs about the limiter for every limit, window and set of concurrent  *)
(* requests.                                                               *)
(***************************************************************************)
EXTENDS RateLimiter, FiniteSetTheorems, WellFoundedInduction, TLAPS

\* The loop of filterExpired (ratelimit.go:135-142) stops at the first attempt that has
\* not expired, or at the end of the slice.
LEMMA FirstKeptExists ==
  ASSUME NEW a \in Seq(Ages)
  PROVE  /\ FirstKept(a) \in 0..Len(a)
         /\ \A i \in 1..FirstKept(a) : Expired(a[i])
         /\ FirstKept(a) < Len(a) => ~Expired(a[FirstKept(a) + 1])
<1> DEFINE T == {n \in 0..Len(a) : n < Len(a) => ~Expired(a[n + 1])}
           R == OpToRel(<, Nat)
<1>1. Len(a) \in Nat
  OBVIOUS
<1>2. T \subseteq Nat /\ Len(a) \in T
  BY <1>1
<1>3. PICK x \in T : \A y \in T : ~(<<y, x>> \in R)
  <2> HIDE DEF T, R
  <2>1. T \subseteq Nat /\ T # {} /\ IsWellFoundedOn(R, Nat)
    BY <1>2, NatLessThanWellFounded DEF R
  <2> QED BY <2>1, WFMin
<1>4. \A y \in T : ~(y < x)
  BY <1>2, <1>3 DEF OpToRel
<1>5. \A i \in 1..x : Expired(a[i])
  <2> SUFFICES ASSUME NEW i \in 1..x, ~Expired(a[i]) PROVE FALSE
    OBVIOUS
  <2>1. i - 1 \in 0..Len(a) /\ i - 1 < x /\ (i - 1) + 1 = i
    BY <1>1
  <2>2. i - 1 \in T
    BY <2>1
  <2> QED BY <1>4, <2>1, <2>2
<1>6. \E n \in 0..Len(a) : /\ \A i \in 1..n : Expired(a[i])
                           /\ n < Len(a) => ~Expired(a[n + 1])
  BY <1>5
<1> QED BY <1>6 DEF FirstKept

\* What filterExpired returns: the suffix after the expired prefix.
LEMMA FilterMeaning ==
  ASSUME NEW a \in Seq(Ages)
  PROVE  /\ filterExpired(a) \in Seq(Ages)
         /\ Len(filterExpired(a)) = Len(a) - FirstKept(a)
         /\ Len(filterExpired(a)) <= Len(a)
         /\ \A i \in 1..Len(filterExpired(a)) : filterExpired(a)[i] = a[i + FirstKept(a)]
<1> DEFINE n == FirstKept(a)
<1>1. n \in 0..Len(a)
  BY FirstKeptExists
<1> HIDE DEF n
<1>2. /\ SubSeq(a, n + 1, Len(a)) \in Seq(Ages)
      /\ Len(SubSeq(a, n + 1, Len(a))) = Len(a) - n
      /\ \A i \in 1..(Len(a) - n) : SubSeq(a, n + 1, Len(a))[i] = a[i + n]
  BY <1>1
<1>3. filterExpired(a) = SubSeq(a, n + 1, Len(a))
  BY DEF filterExpired, n
<1> QED BY <1>1, <1>2, <1>3 DEF n

LEMMA OlderType ==
  ASSUME NEW a \in Seq(Ages)
  PROVE  /\ Older(a) \in Seq(Ages)
         /\ Len(Older(a)) = Len(a)
         /\ \A i \in 1..Len(a) : Older(a)[i] = IF Expired(a[i]) THEN a[i] ELSE a[i] + 1
BY LimiterAssumption DEF Older, Ages, Expired

\* Every variable keeps its type; the length of a tracker is a number the next theorem
\* can bound (ratelimit.go:14-25).
THEOREM TypeCorrect == Spec => []TypeOK
<1>1. Init => TypeOK
  <2> SUFFICES ASSUME Init PROVE TypeOK
    OBVIOUS
  <2>1. trackers \in [IPs -> Seq(Ages)] /\ failed \in [IPs -> [0..Window -> Nat]]
    BY LimiterAssumption DEF Init, NoFailure
  <2>2. serving \in [Requests -> IPs \cup {NotServing}]
    BY DEF Init
  <2>3. stuck \in BOOLEAN /\ running \in BOOLEAN
    BY DEF Init
  <2> QED BY <2>1, <2>2, <2>3, Zenon DEF TypeOK
<1>2. TypeOK /\ [Next]_vars => TypeOK'
  <2> SUFFICES ASSUME TypeOK, [Next]_vars PROVE TypeOK'
    OBVIOUS
  <2> USE LimiterAssumption
  <2>0. \A ip \in IPs : filterExpired(trackers[ip]) \in Seq(Ages)
    BY FilterMeaning DEF TypeOK
  <2>1. ASSUME NEW r \in Requests, NEW ip \in IPs, Admit(r, ip) PROVE TypeOK'
    <3>1. trackers' \in [IPs -> Seq(Ages)] /\ serving' \in [Requests -> IPs \cup {NotServing}]
      BY <2>0, <2>1 DEF Admit, TypeOK
    <3> QED BY <2>1, <3>1, Zenon DEF Admit, TypeOK
  <2>2. ASSUME NEW r \in Requests, NEW ip \in IPs, Reject(r, ip) PROVE TypeOK'
    <3>1. trackers' \in [IPs -> Seq(Ages)]
      BY <2>0, <2>2 DEF Reject, TypeOK
    <3>2. stuck' \in BOOLEAN
      BY <2>2, Zenon DEF Reject
    <3> QED BY <2>2, <3>1, <3>2, Zenon DEF Reject, TypeOK
  <2>3. ASSUME NEW r \in Requests, NEW outcome \in {"unauthorized", "success", "other"},
               Finish(r, outcome)
        PROVE  TypeOK'
    <3>1. serving[r] \in IPs /\ 0 \in Ages /\ 0 \in 0..Window
      BY <2>3 DEF Finish, TypeOK, Ages
    <3>2. trackers' \in [IPs -> Seq(Ages)]
      <4>1. Append(trackers[serving[r]], 0) \in Seq(Ages) /\ <<>> \in Seq(Ages)
        BY <3>1 DEF TypeOK
      <4>2. \/ trackers' = [trackers EXCEPT ![serving[r]] = Append(trackers[serving[r]], 0)]
            \/ trackers' = [trackers EXCEPT ![serving[r]] = <<>>]
            \/ trackers' = trackers
        BY <2>3 DEF Finish
      <4> QED BY <4>1, <4>2 DEF TypeOK
    <3>3. failed' \in [IPs -> [0..Window -> Nat]]
      <4>1. NoFailure \in [0..Window -> Nat]
        BY DEF NoFailure
      <4>2. [failed[serving[r]] EXCEPT ![0] = @ + 1] \in [0..Window -> Nat]
        BY <3>1 DEF TypeOK
      <4>3. \/ failed' = [failed EXCEPT ![serving[r]] = [failed[serving[r]] EXCEPT ![0] = @ + 1]]
            \/ failed' = [failed EXCEPT ![serving[r]] = NoFailure]
            \/ failed' = failed
        BY <2>3 DEF Finish
      <4> QED BY <4>1, <4>2, <4>3 DEF TypeOK
    <3>4. serving' \in [Requests -> IPs \cup {NotServing}] /\ UNCHANGED <<stuck, running>>
      BY <2>3 DEF Finish, TypeOK
    <3> QED BY <3>2, <3>3, <3>4 DEF TypeOK
  <2>4. CASE Cleanup
    BY <2>0, <2>4 DEF Cleanup, TypeOK
  <2>5. CASE Close
    BY <2>5 DEF Close, TypeOK
  <2>6. CASE Tick
    <3>1. trackers' \in [IPs -> Seq(Ages)]
      BY <2>6, OlderType DEF Tick, TypeOK
    <3>2. failed' \in [IPs -> [0..Window -> Nat]]
      BY <2>6 DEF Tick, TypeOK
    <3> QED BY <2>6, <3>1, <3>2 DEF Tick, TypeOK
  <2>7. CASE UNCHANGED vars
    BY <2>7 DEF vars, TypeOK
  <2> QED BY <2>1, <2>2, <2>3, <2>4, <2>5, <2>6, <2>7 DEF Next
<1> QED BY <1>1, <1>2, PTL DEF Spec

-----------------------------------------------------------------------------
LEMMA ServingFinite ==
  ASSUME NEW S \in SUBSET Requests
  PROVE  IsFiniteSet(S) /\ Cardinality(S) \in Nat /\ Cardinality(S) <= Cardinality(Requests)
BY LimiterAssumption, FS_Subset, FS_CardinalityType

\* The check and the record are two critical sections, so the limit is not exact; this
\* is the bound that holds for every number of concurrent requests: an admission sees
\* fewer than MaxAttempts attempts and filters the tracker, and recording a failure moves
\* one request from the handler to the tracker (ratelimit.go:75-118).
THEOREM FailureBound == Spec => []FailuresBounded
<1>1. Init => FailuresBounded
  <2> SUFFICES ASSUME Init, NEW ip \in IPs
               PROVE  Len(trackers[ip]) + Cardinality(ServingFor(ip))
                        < MaxAttempts + Cardinality(Requests)
    BY DEF FailuresBounded
  <2>1. ServingFor(ip) = {} /\ Len(trackers[ip]) = 0
    BY LimiterAssumption DEF Init, ServingFor
  <2>2. Cardinality(Requests) \in Nat \ {0}
    BY LimiterAssumption, FS_EmptySet, FS_CardinalityType
  <2> QED BY <2>1, <2>2, FS_EmptySet, LimiterAssumption
<1>2. TypeOK /\ FailuresBounded /\ [Next]_vars => FailuresBounded'
  <2> SUFFICES ASSUME TypeOK, FailuresBounded, [Next]_vars, NEW q \in IPs
               PROVE  Len(trackers'[q]) + Cardinality(ServingFor(q)')
                        < MaxAttempts + Cardinality(Requests)
    BY DEF FailuresBounded
  <2> DEFINE S == ServingFor(q)
  <2>a. S \in SUBSET Requests /\ S' \in SUBSET Requests
    BY DEF ServingFor
  <2>b. /\ IsFiniteSet(S) /\ Cardinality(S) \in Nat
        /\ Cardinality(S') \in Nat /\ Cardinality(S') <= Cardinality(Requests)
        /\ Cardinality(Requests) \in Nat
    <3> HIDE DEF S
    <3> QED BY <2>a, ServingFinite
  <2>c. Len(trackers[q]) + Cardinality(S) < MaxAttempts + Cardinality(Requests)
    BY DEF FailuresBounded
  <2>d. trackers[q] \in Seq(Ages) /\ Len(trackers[q]) \in Nat
    BY DEF TypeOK
  <2>e. Len(filterExpired(trackers[q])) \in Nat /\ Len(filterExpired(trackers[q])) <= Len(trackers[q])
    BY <2>d, FilterMeaning
  <2>f. ASSUME S' = S, trackers'[q] \in {trackers[q], filterExpired(trackers[q]), <<>>}
        PROVE  Len(trackers'[q]) + Cardinality(S') < MaxAttempts + Cardinality(Requests)
    <3>1. Len(trackers'[q]) <= Len(trackers[q]) /\ Len(trackers'[q]) \in Nat
      BY <2>f, <2>d, <2>e
    <3> HIDE DEF S
    <3> QED BY <2>f, <3>1, <2>b, <2>c, <2>d, LimiterAssumption
  <2>1. ASSUME NEW r \in Requests, NEW ip \in IPs, Admit(r, ip)
        PROVE  Len(trackers'[q]) + Cardinality(S') < MaxAttempts + Cardinality(Requests)
    <3>1. CASE ip = q
      <4>1. Len(trackers'[q]) < MaxAttempts /\ Len(trackers'[q]) \in Nat
        BY <2>1, <3>1, <2>e DEF Admit, TypeOK
      <4> HIDE DEF S
      <4> QED BY <4>1, <2>b, LimiterAssumption
    <3>2. CASE ip # q
      <4>1. S' = S
        BY <2>1, <3>2, LimiterAssumption DEF Admit, ServingFor, TypeOK
      <4>2. trackers'[q] = trackers[q]
        BY <2>1, <3>2 DEF Admit, TypeOK
      <4> QED BY <4>1, <4>2, <2>f
    <3> QED BY <3>1, <3>2
  <2>2. ASSUME NEW r \in Requests, NEW ip \in IPs, Reject(r, ip)
        PROVE  Len(trackers'[q]) + Cardinality(S') < MaxAttempts + Cardinality(Requests)
    <3>1. S' = S
      BY <2>2 DEF Reject, ServingFor
    <3>2. trackers'[q] \in {trackers[q], filterExpired(trackers[q])}
      BY <2>2 DEF Reject, TypeOK
    <3> QED BY <3>1, <3>2, <2>f
  <2>3. ASSUME NEW r \in Requests, NEW outcome \in {"unauthorized", "success", "other"},
               Finish(r, outcome)
        PROVE  Len(trackers'[q]) + Cardinality(S') < MaxAttempts + Cardinality(Requests)
    <3>0. serving[r] \in IPs
      BY <2>3 DEF Finish, TypeOK
    <3>1. CASE serving[r] = q
      <4>1. S' = S \ {r} /\ r \in S
        BY <2>3, <3>1, LimiterAssumption DEF Finish, ServingFor, TypeOK
      <4>2. Cardinality(S') = Cardinality(S) - 1
        <5> HIDE DEF S
        <5> QED BY <4>1, <2>b, FS_RemoveElement
      <4>3. trackers'[q] \in {Append(trackers[q], 0), <<>>, trackers[q]}
        BY <2>3, <3>1 DEF Finish, TypeOK
      <4>4. Len(Append(trackers[q], 0)) = Len(trackers[q]) + 1 /\ Len(<<>>) = 0
        BY <2>d, LimiterAssumption DEF Ages
      <4>5. Len(trackers'[q]) \in Nat /\ Len(trackers'[q]) <= Len(trackers[q]) + 1
        BY <4>3, <4>4, <2>d
      <4> HIDE DEF S
      <4> DEFINE l == Len(trackers[q])   m == Len(trackers'[q])
                 c == Cardinality(S)     d == Cardinality(S')
                 bound == MaxAttempts + Cardinality(Requests)
      <4>6. bound \in Int
        BY <2>b, LimiterAssumption
      <4>7. l \in Nat /\ m \in Nat /\ c \in Nat /\ d = c - 1 /\ m <= l + 1 /\ l + c < bound
        BY <4>2, <4>5, <2>b, <2>c, <2>d, Zenon
      <4> HIDE DEF l, m, c, d, bound
      <4>8. m + d < bound
        BY <4>6, <4>7
      <4> QED BY <4>8 DEF l, m, c, d, bound
    <3>2. CASE serving[r] # q
      <4>1. S' = S
        BY <2>3, <3>2, LimiterAssumption DEF Finish, ServingFor, TypeOK
      <4>2. trackers'[q] = trackers[q]
        BY <2>3, <3>2, <3>0 DEF Finish, TypeOK
      <4> QED BY <4>1, <4>2, <2>f
    <3> QED BY <3>1, <3>2
  <2>4. CASE Cleanup
    <3>1. S' = S /\ trackers'[q] = filterExpired(trackers[q])
      BY <2>4 DEF Cleanup, ServingFor
    <3> QED BY <3>1, <2>f
  <2>5. CASE Close \/ UNCHANGED vars
    <3>1. S' = S /\ trackers'[q] = trackers[q]
      BY <2>5 DEF Close, vars, ServingFor
    <3> QED BY <3>1, <2>f
  <2>6. CASE Tick
    <3>1. S' = S /\ Len(trackers'[q]) = Len(trackers[q])
      BY <2>6, <2>d, OlderType DEF Tick, ServingFor
    <3>2. Cardinality(S') = Cardinality(S)
      BY <3>1
    <3> QED BY <3>1, <3>2, <2>c
  <2> QED BY <2>1, <2>2, <2>3, <2>4, <2>5, <2>6 DEF Next
<1> QED BY <1>1, <1>2, TypeCorrect, PTL DEF Spec
-----------------------------------------------------------------------------
\* The positions of a slice that hold an attempt of a given age.
At(a, age) == {i \in 1..Len(a) : a[i] = age}

\* Attempts are recorded with the time read under the lock, so older ones come first.
OldestFirst(a) == \A i, j \in 1..Len(a) : i <= j => a[i] >= a[j]

\* WindowIsExact strengthened: on the unfiltered trackers, and with their order.
Recorded ==
  \A ip \in IPs :
    /\ OldestFirst(trackers[ip])
    /\ \A age \in 0..Window : failed[ip][age] = Cardinality(At(trackers[ip], age))

LEMMA AtFinite ==
  ASSUME NEW a \in Seq(Ages), NEW age
  PROVE  IsFiniteSet(At(a, age)) /\ Cardinality(At(a, age)) \in Nat
<1>1. Len(a) \in Int /\ 1 \in Int
  OBVIOUS
<1>2. IsFiniteSet(1..Len(a))
  BY <1>1, FS_Interval
<1> QED BY <1>2, FS_Subset, FS_CardinalityType DEF At

\* filterExpired keeps the order and, because of the order, loses no attempt of the window.
LEMMA FilterKeeps ==
  ASSUME NEW a \in Seq(Ages), OldestFirst(a)
  PROVE  /\ OldestFirst(filterExpired(a))
         /\ \A i \in 1..Len(filterExpired(a)) : filterExpired(a)[i] \in Ages
         /\ \A age \in 0..Window : Cardinality(At(filterExpired(a), age)) = Cardinality(At(a, age))
<1> DEFINE f == filterExpired(a)
           n == FirstKept(a)
<1>1. /\ f \in Seq(Ages) /\ Len(f) = Len(a) - n
      /\ \A i \in 1..Len(f) : f[i] = a[i + n]
  BY FilterMeaning
<1>2. n \in 0..Len(a) /\ \A i \in 1..n : Expired(a[i])
  BY FirstKeptExists
<1> HIDE DEF f, n
<1>3. OldestFirst(f)
  BY <1>1, <1>2 DEF OldestFirst
<1>4. ASSUME NEW age \in 0..Window PROVE Cardinality(At(f, age)) = Cardinality(At(a, age))
  <2> DEFINE b == [i \in At(f, age) |-> i + n]
  <2>1. b \in [At(f, age) -> At(a, age)]
    BY <1>1, <1>2 DEF At
  <2>2. \A i, j \in At(f, age) : b[i] = b[j] => i = j
    BY <1>2 DEF At
  <2>3. ASSUME NEW k \in At(a, age) PROVE \E i \in At(f, age) : b[i] = k
    <3>1. k \in 1..Len(a) /\ a[k] = age /\ ~Expired(a[k])
      BY LimiterAssumption DEF At, Expired
    <3>2. k - n \in 1..Len(f) /\ (k - n) + n = k
      BY <1>1, <1>2, <3>1
    <3>3. k - n \in At(f, age)
      BY <1>1, <3>1, <3>2 DEF At
    <3> QED BY <3>2, <3>3
  <2>4. b \in Bijection(At(f, age), At(a, age))
    BY <2>1, <2>2, <2>3 DEF Bijection, Injection, Surjection, IsInjective
  <2> HIDE DEF b
  <2>5. ExistsBijection(At(f, age), At(a, age))
    BY <2>4 DEF ExistsBijection
  <2> QED BY <1>1, <2>5, AtFinite, FS_Bijection
<1> QED BY <1>1, <1>3, <1>4 DEF f

\* Appending an attempt of age 0 keeps the order and counts one more of that age.
LEMMA AppendRecords ==
  ASSUME NEW a \in Seq(Ages), OldestFirst(a)
  PROVE  /\ OldestFirst(Append(a, 0))
         /\ Cardinality(At(Append(a, 0), 0)) = Cardinality(At(a, 0)) + 1
         /\ \A age \in 1..Window : At(Append(a, 0), age) = At(a, age)
<1> USE LimiterAssumption
<1>1. /\ Len(Append(a, 0)) = Len(a) + 1 /\ Len(a) \in Nat
      /\ \A i \in 1..Len(a) : Append(a, 0)[i] = a[i] /\ a[i] \in Nat
      /\ Append(a, 0)[Len(a) + 1] = 0
  BY DEF Ages
<1>2. OldestFirst(Append(a, 0))
  BY <1>1 DEF OldestFirst
<1>3. At(Append(a, 0), 0) = At(a, 0) \cup {Len(a) + 1} /\ Len(a) + 1 \notin At(a, 0)
  BY <1>1 DEF At
<1>4. \A age \in 1..Window : At(Append(a, 0), age) = At(a, age)
  BY <1>1 DEF At
<1> QED BY <1>2, <1>3, <1>4, AtFinite, FS_AddElement

\* Time keeps the order and moves every attempt of the window to the next age.
LEMMA OlderShifts ==
  ASSUME NEW a \in Seq(Ages), OldestFirst(a)
  PROVE  /\ OldestFirst(Older(a))
         /\ At(Older(a), 0) = {}
         /\ \A age \in 1..Window : At(Older(a), age) = At(a, age - 1)
<1> USE LimiterAssumption
<1>1. \A i \in 1..Len(a) : a[i] \in 0..(Window + 1)
  BY DEF Ages
<1> DEFINE o == Older(a)
<1>2. /\ Len(o) = Len(a) /\ Len(a) \in Nat
      /\ \A i \in 1..Len(a) : o[i] = IF a[i] > Window THEN a[i] ELSE a[i] + 1
  BY OlderType DEF Expired
<1> HIDE DEF o
<1>3. OldestFirst(o)
  BY <1>1, <1>2 DEF OldestFirst
<1>4. At(o, 0) = {}
  BY <1>1, <1>2 DEF At
<1>5. ASSUME NEW age \in 1..Window PROVE At(o, age) = At(a, age - 1)
  <2>1. \A i \in 1..Len(a) : o[i] = age <=> a[i] = age - 1
    BY <1>1, <1>2
  <2> QED BY <1>2, <2>1 DEF At
<1> QED BY <1>3, <1>4, <1>5 DEF o

\* The order of the trackers and the exact count of each age are preserved by every step.
LEMMA RecordedInvariant == Spec => []Recorded
<1>1. Init => Recorded
  <2> SUFFICES ASSUME Init, NEW ip \in IPs
               PROVE  /\ OldestFirst(trackers[ip])
                      /\ \A age \in 0..Window : failed[ip][age] = Cardinality(At(trackers[ip], age))
    BY DEF Recorded
  <2>1. trackers[ip] = <<>> /\ \A age \in 0..Window : failed[ip][age] = 0
    BY DEF Init, NoFailure
  <2>2. OldestFirst(<<>>) /\ \A age : At(<<>>, age) = {}
    BY DEF OldestFirst, At
  <2> QED BY <2>1, <2>2, FS_EmptySet
<1>2. TypeOK /\ Recorded /\ [Next]_vars => Recorded'
  <2> SUFFICES ASSUME TypeOK, Recorded, [Next]_vars, NEW q \in IPs
               PROVE  /\ OldestFirst(trackers'[q])
                      /\ \A age \in 0..Window : failed'[q][age] = Cardinality(At(trackers'[q], age))
    BY DEF Recorded
  <2> DEFINE Good(a, h) == /\ OldestFirst(a)
                           /\ \A age \in 0..Window : h[age] = Cardinality(At(a, age))
  <2>0. trackers[q] \in Seq(Ages) /\ failed[q] \in [0..Window -> Nat] /\ Good(trackers[q], failed[q])
    BY DEF TypeOK, Recorded
  <2>a. Good(filterExpired(trackers[q]), failed[q])
    BY <2>0, FilterKeeps
  <2>b. Good(<<>>, NoFailure)
    BY FS_EmptySet DEF OldestFirst, At, NoFailure
  <2>c. Good(Append(trackers[q], 0), [failed[q] EXCEPT ![0] = @ + 1])
    <3>1. 0 \in 0..Window /\ \A age \in 0..Window : age = 0 \/ age \in 1..Window
      BY LimiterAssumption
    <3> QED BY <2>0, <3>1, AppendRecords
  <2>d. Good(Older(trackers[q]), [age \in 0..Window |-> IF age = 0 THEN 0 ELSE failed[q][age - 1]])
    <3>1. \A age \in 0..Window : age = 0 \/ (age \in 1..Window /\ age - 1 \in 0..Window)
      BY LimiterAssumption
    <3> DEFINE h == [age \in 0..Window |-> IF age = 0 THEN 0 ELSE failed[q][age - 1]]
    <3>2. /\ OldestFirst(Older(trackers[q])) /\ At(Older(trackers[q]), 0) = {}
          /\ \A age \in 1..Window : At(Older(trackers[q]), age) = At(trackers[q], age - 1)
      BY <2>0, OlderShifts
    <3>3. \A age \in 0..Window : h[age] = Cardinality(At(Older(trackers[q]), age))
      <4> SUFFICES ASSUME NEW age \in 0..Window
                   PROVE  h[age] = Cardinality(At(Older(trackers[q]), age))
        OBVIOUS
      <4>1. CASE age = 0
        BY <4>1, <3>2, FS_EmptySet
      <4>2. CASE age \in 1..Window
        <5>1. h[age] = failed[q][age - 1] /\ age - 1 \in 0..Window
          BY <4>2, LimiterAssumption
        <5> QED BY <5>1, <4>2, <3>2, <2>0
      <4> QED BY <3>1, <4>1, <4>2
    <3> QED BY <3>2, <3>3
  <2> SUFFICES Good(trackers'[q], failed'[q])
    OBVIOUS
  <2> HIDE DEF Good
  <2>1. ASSUME NEW r \in Requests, NEW ip \in IPs, Admit(r, ip) \/ Reject(r, ip)
        PROVE  Good(trackers'[q], failed'[q])
    <3>1. trackers'[q] \in {trackers[q], filterExpired(trackers[q])} /\ failed' = failed
      BY <2>1 DEF Admit, Reject, TypeOK
    <3> QED BY <3>1, <2>0, <2>a
  <2>2. ASSUME NEW r \in Requests, NEW outcome \in {"unauthorized", "success", "other"},
               Finish(r, outcome)
        PROVE  Good(trackers'[q], failed'[q])
    <3>0. 0 \in 0..Window
      BY LimiterAssumption
    <3>1. \/ trackers'[q] = trackers[q] /\ failed'[q] = failed[q]
          \/ trackers'[q] = <<>> /\ failed'[q] = NoFailure
          \/ /\ trackers'[q] = Append(trackers[q], 0)
             /\ failed'[q] = [failed[q] EXCEPT ![0] = @ + 1]
      BY <2>2, <3>0 DEF Finish, TypeOK
    <3> QED BY <3>1, <2>0, <2>b, <2>c
  <2>3. CASE Cleanup
    <3>1. trackers'[q] = filterExpired(trackers[q]) /\ failed' = failed
      BY <2>3 DEF Cleanup
    <3> QED BY <3>1, <2>a
  <2>4. CASE Close \/ UNCHANGED vars
    <3>1. trackers' = trackers /\ failed' = failed
      BY <2>4 DEF Close, vars
    <3> QED BY <3>1, <2>0
  <2>5. CASE Tick
    <3>1. /\ trackers'[q] = Older(trackers[q])
          /\ failed'[q] = [age \in 0..Window |-> IF age = 0 THEN 0 ELSE failed[q][age - 1]]
      BY <2>5 DEF Tick
    <3> QED BY <3>1, <2>d
  <2> QED BY <2>1, <2>2, <2>3, <2>4, <2>5 DEF Next
<1> QED BY <1>1, <1>2, TypeCorrect, PTL DEF Spec

\* Filtering only the prefix is exact, however admissions, records of in-flight requests
\* and cleanup interleave: what the check counts is the 401 answers of the window since
\* the last success, no more and no less (ratelimit.go:82-84, 101-118, 135-142).
THEOREM WindowTheorem == Spec => []WindowIsExact
<1>1. TypeOK /\ Recorded => WindowIsExact
  <2> SUFFICES ASSUME TypeOK, Recorded, NEW ip \in IPs
               PROVE  LET kept == filterExpired(trackers[ip]) IN
                      /\ \A i \in 1..Len(kept) : ~Expired(kept[i])
                      /\ \A age \in 0..Window : failed[ip][age] = Cardinality(At(kept, age))
    BY DEF WindowIsExact, At
  <2> DEFINE a == trackers[ip]
             kept == filterExpired(a)
             n == FirstKept(a)
  <2>1. a \in Seq(Ages) /\ OldestFirst(a)
    BY DEF TypeOK, Recorded
  <2>2. \A age \in 0..Window : failed[ip][age] = Cardinality(At(kept, age))
    BY <2>1, FilterKeeps DEF Recorded
  <2>3. ASSUME NEW i \in 1..Len(kept) PROVE ~Expired(kept[i])
    <3>1. /\ Len(kept) = Len(a) - n /\ n \in 0..Len(a) /\ kept[i] = a[i + n]
          /\ n < Len(a) => ~Expired(a[n + 1])
      BY <2>1, FilterMeaning, FirstKeptExists
    <3>2. a[n + 1] \in Ages /\ a[i + n] \in Ages /\ a[n + 1] >= a[i + n] /\ ~Expired(a[n + 1])
      <4> HIDE DEF a, n, kept
      <4>1. n + 1 \in 1..Len(a) /\ i + n \in 1..Len(a) /\ n + 1 <= i + n /\ n < Len(a)
        BY <2>1, <3>1
      <4> QED BY <2>1, <3>1, <4>1 DEF OldestFirst
    <3> HIDE DEF a, n, kept
    <3> QED BY <3>1, <3>2, LimiterAssumption DEF Expired, Ages
  <2> QED BY <2>2, <2>3
<1> QED BY <1>1, TypeCorrect, RecordedInvariant, PTL
=============================================================================
