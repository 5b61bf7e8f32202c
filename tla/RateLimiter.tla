----------------------------- MODULE RateLimiter -----------------------------
(***************************************************************************)
(* The failed-login limiter (internal/auth/ratelimit.go): concurrent       *)
(* requests that pass the check, run the wrapped handler without the lock  *)
(* and then record its outcome, and the goroutine that expires entries.    *)
(* An attempt is represented by its age, the time elapsed since it was     *)
(* recorded, so that time needs no bound.                                  *)
(***************************************************************************)
EXTENDS Integers, Sequences, FiniteSets

CONSTANTS
  IPs,          \* keys of the trackers map
  Requests,     \* requests that may be inside the middleware at the same time
  MaxAttempts,  \* RateLimiter.maxAttempts
  Window,       \* RateLimiter.window, in units of the clock
  NotServing

ASSUME LimiterAssumption ==
  /\ IsFiniteSet(Requests) /\ Requests # {}
  /\ NotServing \notin IPs
  /\ MaxAttempts \in Nat /\ Window \in Nat \ {0}

VARIABLES
  trackers,   \* per IP, the attempts slice; <<>> also stands for "no tracker"
  serving,    \* per request, the IP it was admitted for, or NotServing
  stuck,      \* the first critical section panicked with rl.mu held
  running,    \* the cleanup goroutine runs
  failed      \* history: per IP and age within the window, how many 401 answers since
              \* the last success have that age

vars == <<trackers, serving, stuck, running, failed>>

Ages == 0..(Window + 1)   \* every age beyond the window is represented by Window + 1
Expired(age) == age > Window
ServingFor(ip) == {r \in Requests : serving[r] = ip}

\* filterExpired drops the expired prefix of the slice, and only the prefix.
FirstKept(attempts) ==
  CHOOSE n \in 0..Len(attempts) :
    /\ \A i \in 1..n : Expired(attempts[i])
    /\ n < Len(attempts) => ~Expired(attempts[n + 1])
filterExpired(attempts) == SubSeq(attempts, FirstKept(attempts) + 1, Len(attempts))

NoFailure == [age \in 0..Window |-> 0]

Init ==
  /\ trackers = [ip \in IPs |-> <<>>]
  /\ serving = [r \in Requests |-> NotServing]
  /\ stuck = FALSE
  /\ running = TRUE
  /\ failed = [ip \in IPs |-> NoFailure]
-----------------------------------------------------------------------------
\* Mutant: the comparison with the limit is off by one.
AdmitOffByOne(r, ip) ==
  /\ ~stuck
  /\ serving[r] = NotServing
  /\ Len(filterExpired(trackers[ip])) <= MaxAttempts
  /\ trackers' = [trackers EXCEPT ![ip] = filterExpired(trackers[ip])]
  /\ serving' = [serving EXCEPT ![r] = ip]
  /\ UNCHANGED <<stuck, running, failed>>

\* First critical section of Middleware: filter, compare, and let the request through.
Admit(r, ip) ==
  /\ ~stuck
  /\ serving[r] = NotServing
  /\ Len(filterExpired(trackers[ip])) < MaxAttempts
  /\ trackers' = [trackers EXCEPT ![ip] = filterExpired(trackers[ip])]
  /\ serving' = [serving EXCEPT ![r] = ip]
  /\ UNCHANGED <<stuck, running, failed>>

\* Mutant: a rejected request counts as a failure.
RejectRecords(r, ip) ==
  LET kept == filterExpired(trackers[ip]) IN
  /\ ~stuck
  /\ serving[r] = NotServing
  /\ Len(kept) >= MaxAttempts
  /\ trackers' = [trackers EXCEPT ![ip] = Append(Tail(kept), 0)]
  /\ stuck' = (kept = <<>>)
  /\ UNCHANGED <<serving, running, failed>>

\* The limit is reached: 429, with a Retry-After computed from attempts[0]. Indexing an
\* empty slice panics, and the lock is not released by a defer.
Reject(r, ip) ==
  LET kept == filterExpired(trackers[ip]) IN
  /\ ~stuck
  /\ serving[r] = NotServing
  /\ Len(kept) >= MaxAttempts
  /\ trackers' = [trackers EXCEPT ![ip] = kept]
  /\ stuck' = (kept = <<>>)
  /\ UNCHANGED <<serving, running, failed>>

\* Second critical section: the tracker is fetched again; a 401 is appended with the
\* time read under the lock, a success clears the tracker, anything else is ignored.
Finish(r, outcome) ==
  LET ip == serving[r] IN
  /\ ~stuck
  /\ ip # NotServing
  /\ serving' = [serving EXCEPT ![r] = NotServing]
  /\ \/ /\ outcome = "unauthorized"
        /\ trackers' = [trackers EXCEPT ![ip] = Append(@, 0)]
        /\ failed' = [failed EXCEPT ![ip][0] = @ + 1]
     \/ /\ outcome = "success"
        /\ trackers' = [trackers EXCEPT ![ip] = <<>>]
        /\ failed' = [failed EXCEPT ![ip] = NoFailure]
     \/ /\ outcome = "other"
        /\ UNCHANGED <<trackers, failed>>
  /\ UNCHANGED <<stuck, running>>

\* Mutant: cleanup drops a whole tracker when its oldest attempt has expired.
CleanupDropsTracker ==
  /\ ~stuck
  /\ running
  /\ trackers' = [ip \in IPs |-> IF \E i \in 1..Len(trackers[ip]) : Expired(trackers[ip][i])
                                 THEN <<>> ELSE trackers[ip]]
  /\ UNCHANGED <<serving, stuck, running, failed>>

\* One round of cleanupLoop.
Cleanup ==
  /\ ~stuck
  /\ running
  /\ trackers' = [ip \in IPs |-> filterExpired(trackers[ip])]
  /\ UNCHANGED <<serving, stuck, running, failed>>

Close ==
  /\ running
  /\ running' = FALSE
  /\ UNCHANGED <<trackers, serving, stuck, failed>>

Older(ages) == [i \in 1..Len(ages) |-> IF Expired(ages[i]) THEN ages[i] ELSE ages[i] + 1]

\* The clock advances; the history forgets what has left the window.
Tick ==
  /\ trackers' = [ip \in IPs |-> Older(trackers[ip])]
  /\ failed' = [ip \in IPs |-> [age \in 0..Window |-> IF age = 0 THEN 0 ELSE failed[ip][age - 1]]]
  /\ UNCHANGED <<serving, stuck, running>>

Next ==
  \/ \E r \in Requests, ip \in IPs : Admit(r, ip) \/ Reject(r, ip)
  \/ \E r \in Requests, outcome \in {"unauthorized", "success", "other"} : Finish(r, outcome)
  \/ Cleanup \/ Close \/ Tick

Spec == Init /\ [][Next]_vars

\* Only time has to pass: nothing obliges a client to come back or a handler to return.
FairSpec == Spec /\ WF_vars(Tick)
-----------------------------------------------------------------------------
TypeOK ==
  /\ trackers \in [IPs -> Seq(Ages)]
  /\ serving \in [Requests -> IPs \cup {NotServing}]
  /\ stuck \in BOOLEAN /\ running \in BOOLEAN
  /\ failed \in [IPs -> [0..Window -> Nat]]

\* The check at admission and the record after the handler are two critical sections
\* (ratelimit.go:84, 111): more than MaxAttempts failures can be evaluated in a window,
\* but at most one less than the number of concurrent requests more, counting the ones
\* still in the handler.
FailuresBounded ==
  \A ip \in IPs :
    Len(trackers[ip]) + Cardinality(ServingFor(ip)) < MaxAttempts + Cardinality(Requests)

\* No failure inside the window is forgotten and no expired one is counted, although
\* filterExpired only looks at the prefix, cleanup runs while a handler is between its
\* two critical sections, and recording does not filter (ratelimit.go:49, 82, 104, 138).
WindowIsExact ==
  \A ip \in IPs :
    LET kept == filterExpired(trackers[ip]) IN
    /\ \A i \in 1..Len(kept) : ~Expired(kept[i])
    /\ \A age \in 0..Window : failed[ip][age] = Cardinality({i \in 1..Len(kept) : kept[i] = age})

\* An address that is rejected is let in again once time passes: rejected requests are
\* not recorded, and handlers still in flight can prolong the block only a bounded
\* number of times (ratelimit.go:84-95).
BlockedIsReleased ==
  \A ip \in IPs :
    (Len(filterExpired(trackers[ip])) >= MaxAttempts) ~>
      (Len(filterExpired(trackers[ip])) < MaxAttempts)

\* "If the limit is exceeded, the middleware short-circuits with 429 and a Retry-After
\* header" (ratelimit.go:69-70), for every limit an operator can configure.
LimitAnswers429 == ~stuck
=============================================================================
