------------------------------ MODULE AuditTrail ------------------------------
(***************************************************************************)
(* The audit log (internal/store/audit.go, internal/server/audit.go) and   *)
(* the end of the process (ListenAndServe and main), which decides what is *)
(* still recorded. Requests stand for the audited handlers, each used      *)
(* once; terminals for HandleTerminal, whose connection is hijacked. A     *)
(* reader pages through the log while they write.                          *)
(***************************************************************************)
EXTENDS Integers, FiniteSets

CONSTANTS
  Requests, Terminals,
  Filters,         \* filters a reader may use; "" and 0 select everything
  Limits,          \* limits it may ask for; 0 when it names none
  DefaultLimit, MaxLimit,
  Tick,            \* between two readings of the clock
  MaxBack,         \* bound: readings earlier than one before
  MaxFaults        \* bound: failed INSERTs

ASSUME AuditAssumption ==
  /\ Requests \cap Terminals = {} /\ Filters # {}
  /\ Limits \subseteq Nat /\ MaxLimit \in Nat /\ DefaultLimit \in 1..MaxLimit
  /\ Tick \in Nat \ {0} /\ MaxBack \in Nat /\ MaxFaults \in Nat

VARIABLES
  stage,     \* of main, see Stages
  expired,   \* the drain ended by its timeout
  pc,        \* of every request and terminal
  stamp,     \* timestamp of the entry it is about to insert
  now,       \* the latest reading of the clock
  readings,  \* all of them; they are distinct
  back,      \* how many of them came after a later one: the clock had been set back
  log,       \* audit_log
  reader,    \* client of GET /api/admin/audit
  lost,      \* history: writers with an INSERT that the database refused
  late       \* history: writers with an INSERT after main had closed the database

vars == <<stage, expired, pc, stamp, now, readings, back, log, reader, lost, late>>
logVars == <<now, readings, back, log, lost, late>>

\* What main does next. sm.Stop and pool.Close come with st.Close: they change nothing here.
Stages == {"serve", "Shutdown", "st.Close", "srv.Close", "exited"}
Main(step) == stage = step
Alive == ~Main("exited")
StoreOpen == ~Main("srv.Close")
Actors == Requests \cup Terminals
Reader(at, f, n, offset, base, got) ==
  [pc |-> at, filter |-> f, limit |-> n, offset |-> offset, base |-> base, got |-> got]
NoReader == Reader("idle", CHOOSE f \in Filters : TRUE, 0, 0, {}, {})

Init ==
  /\ stage = "serve" /\ expired = FALSE
  /\ pc = [a \in Actors |-> "new"] /\ stamp = [a \in Actors |-> 0]
  /\ now = 0 /\ readings = {} /\ back = 0 /\ log = {}
  /\ reader = NoReader
  /\ lost = {} /\ late = {}
-----------------------------------------------------------------------------
Goto(a, from, to) == Alive /\ pc[a] = from /\ pc' = [pc EXCEPT ![a] = to]

\* LogAudit reads the wall clock and then inserts; its error is logged and otherwise ignored.
\* Of equal readings ORDER BY takes one first, so a reading is a place in its order.
TakeTimestamp(a) ==
  /\ \E t \in ((1..now) \cup {now + Tick}) \ readings :
       /\ stamp' = [stamp EXCEPT ![a] = t]
       /\ readings' = readings \cup {t}
       /\ now' = IF t < now THEN now ELSE t
       /\ back' = IF t < now THEN back + 1 ELSE back
  /\ back' <= MaxBack
  /\ UNCHANGED <<stage, expired, log, reader, lost, late>>

LogAudit(a, action) ==
  /\ \/ /\ StoreOpen
        /\ log' = log \cup {[ts |-> stamp[a], by |-> a, action |-> action]}
        /\ UNCHANGED <<lost, late>>
     \/ /\ StoreOpen /\ Cardinality(lost) < MaxFaults
        /\ lost' = lost \cup {a}
        /\ UNCHANGED <<log, late>>
     \/ ~StoreOpen /\ late' = late \cup {a} /\ UNCHANGED <<log, lost>>
  /\ stamp' = [stamp EXCEPT ![a] = 0]
  /\ UNCHANGED <<stage, expired, now, readings, back, reader>>

\* The listener accepts connections until Shutdown closes it.
Arrive(a) == Main("serve") /\ Goto(a, "new", "act") /\ UNCHANGED <<stage, expired, stamp, logVars, reader>>

\* A handler that changes nothing answers without an entry, as HandleTerminal does for a
\* server that is not found.
Refuse(a) == Goto(a, "act", "refused") /\ UNCHANGED <<stage, expired, stamp, logVars, reader>>

\* Part of the change is made when a later step fails (settings saved but not in force, a
\* key deleted but not its server): the answer is an error, and there is no entry either.
Fail(r) == StoreOpen /\ Goto(r, "act", "failed") /\ UNCHANGED <<stage, expired, stamp, logVars, reader>>

\* A handler makes its change, writes the entry and answers.
Act(r) == StoreOpen /\ Goto(r, "act", "log") /\ UNCHANGED <<stage, expired, stamp, logVars, reader>>
Stamp(r) == Goto(r, "log", "insert") /\ TakeTimestamp(r)
Insert(r) == Goto(r, "insert", "answer") /\ LogAudit(r, "change")
Answer(r) == Goto(r, "answer", "answered") /\ UNCHANGED <<stage, expired, stamp, logVars, reader>>

\* HandleTerminal writes an entry after the upgrade and, deferred, another one at its end,
\* which comes by itself or because pool.Close closed its SSH connection.
Upgrade(t) == StoreOpen /\ Goto(t, "act", "connect") /\ TakeTimestamp(t)
Connect(t) == Goto(t, "connect", "open") /\ LogAudit(t, "connect")

\* Mutant: the second entry is not deferred and an early return skips it.
DisconnectSilently(t) == Goto(t, "open", "over") /\ UNCHANGED <<stage, expired, stamp, logVars, reader>>

Disconnect(t) == Goto(t, "open", "disconnect") /\ TakeTimestamp(t)
Disconnected(t) == Goto(t, "disconnect", "over") /\ LogAudit(t, "disconnect")
-----------------------------------------------------------------------------
Matching(f) ==
  {e \in log : /\ f.user \in {"", e.by} /\ f.action \in {"", e.action}
               /\ e.ts >= f.since /\ (f.until = 0 \/ e.ts <= f.until)}

\* The place of an entry in ORDER BY timestamp DESC, from 0.
Rank(e, es) == Cardinality({d \in es : d.ts > e.ts})

Limit(n) == IF n = 0 THEN DefaultLimit ELSE IF n > MaxLimit THEN MaxLimit ELSE n

\* Mutant: the offset is taken as the number of the last entry to skip, from 0.
ListAfterOffset(f, n, offset) ==
  LET es == Matching(f) IN {e \in es : Rank(e, es) \in offset + 1..offset + n}

ListAuditLog(f, n, offset) ==
  LET es == Matching(f) IN {e \in es : Rank(e, es) \in offset..offset + n - 1}

\* A client asks for pages, the next one at the number of entries it has received, until
\* a page is empty. The handler counts the matching entries, which this client ignores,
\* and lists a page in a second query.
StartReading(f, n) ==
  /\ Main("serve") /\ reader.pc = "idle"
  /\ reader' = Reader("asking", f, Limit(n), 0, Matching(f), {})
  /\ UNCHANGED <<stage, expired, pc, stamp, logVars>>

CountAuditLog ==
  /\ Main("serve") /\ reader.pc = "asking"
  /\ reader' = [reader EXCEPT !.pc = "counted"]
  /\ UNCHANGED <<stage, expired, pc, stamp, logVars>>

HandleListAuditLog ==
  LET d == reader
      page == ListAuditLog(d.filter, d.limit, d.offset)
  IN
  /\ Alive /\ StoreOpen /\ d.pc = "counted"
  /\ reader' = Reader(IF page = {} THEN "end" ELSE "asking", d.filter, d.limit,
                      d.offset + Cardinality(page), d.base, d.got \cup (page \cap d.base))
  /\ UNCHANGED <<stage, expired, pc, stamp, logVars>>

StopReading ==
  /\ reader.pc # "idle"
  /\ reader' = NoReader
  /\ UNCHANGED <<stage, expired, pc, stamp, logVars>>
-----------------------------------------------------------------------------
InHandler == (\E a \in Actors : pc[a] \in {"act", "log", "insert", "answer"}) \/ reader.pc = "counted"
MainGoesOn(step) == stage' = step /\ UNCHANGED <<pc, stamp, logVars, reader>>

Signal == Main("serve") /\ MainGoesOn("Shutdown") /\ UNCHANGED expired

\* Mutant: the server is closed instead of shut down.
ClosedAtOnce == TRUE

\* Shutdown waits for the handlers, not for hijacked connections.
Idle == ~InHandler

Drained == Main("Shutdown") /\ Idle /\ MainGoesOn("st.Close") /\ UNCHANGED expired

\* Mutant: the drain has no timeout.
NoTimeout == FALSE

Timeout == TRUE

DrainExpires == Main("Shutdown") /\ InHandler /\ Timeout /\ MainGoesOn("st.Close") /\ expired' = TRUE

\* sm.Stop, pool.Close, st.Close, srv.Close and the return of main.
Stop ==
  /\ \/ Main("st.Close") /\ MainGoesOn("srv.Close")
     \/ Main("srv.Close") /\ MainGoesOn("exited")
  /\ UNCHANGED expired

\* The listener fails and main exits with an error, or the process is killed.
Crash == Alive /\ stage' = "exited" /\ reader' = NoReader /\ UNCHANGED <<expired, pc, stamp, logVars>>

Next ==
  \/ \E a \in Actors : Arrive(a) \/ Refuse(a)
  \/ \E r \in Requests : Fail(r) \/ Act(r) \/ Stamp(r) \/ Insert(r) \/ Answer(r)
  \/ \E t \in Terminals : Upgrade(t) \/ Connect(t) \/ Disconnect(t) \/ Disconnected(t)
  \/ \E f \in Filters, n \in Limits : StartReading(f, n)
  \/ CountAuditLog \/ HandleListAuditLog \/ StopReading
  \/ Signal \/ Drained \/ DrainExpires \/ Stop \/ Crash

Spec == Init /\ [][Next]_vars

\* main runs on, and its timer fires. Nothing obliges a handler to return.
FairSpec == Spec /\ WF_vars(Drained) /\ WF_vars(DrainExpires) /\ WF_vars(Stop)
-----------------------------------------------------------------------------
Entries(a) == {e.action : e \in {d \in log : d.by = a}}

TypeOK ==
  /\ stage \in Stages /\ expired \in BOOLEAN
  /\ pc \in [Actors -> {"new", "act", "log", "insert", "answer", "answered", "refused", "failed",
                        "connect", "open", "disconnect", "over"}]
  /\ stamp \in [Actors -> Nat] /\ now \in Nat /\ readings \subseteq 0..now /\ back \in 0..MaxBack
  /\ log \subseteq [ts : Nat, by : Actors, action : {"change", "connect", "disconnect"}]
  /\ reader \in [pc : {"idle", "asking", "counted", "end"}, filter : Filters, limit : 0..MaxLimit,
                 offset : Nat, base : SUBSET log, got : SUBSET log]
  /\ lost \subseteq Actors /\ late \subseteq Actors

\* A change that was confirmed has its entry and a terminal that ended has both, the
\* connection dated before its end unless the clock was set back, except for an INSERT that
\* the database refused (logAudit only logs that) or that came after main had closed it.
AuditComplete ==
  \A a \in Actors \ (lost \cup late) :
    /\ pc[a] = "answered" => Entries(a) = {"change"}
    /\ pc[a] = "over" =>
         \E c, d \in log : /\ c.by = a /\ c.action = "connect"
                           /\ d.by = a /\ d.action = "disconnect"
                           /\ c.ts < d.ts \/ back > 0

\* Shutdown protects the writers it waits for: a handler that was not hijacked meets the
\* closed database only when the drain expired (ListenAndServe, then main's sequence).
LateOnlyAfterTimeout == late \cap Requests # {} => expired

\* A client that pages until it gets an empty page has received every entry that matched
\* when it began, whatever was inserted between two pages or between the two queries of
\* one, with a timestamp taken earlier or later (ListAuditLog's LIMIT and OFFSET).
PagingMissesNothing == reader.pc = "end" => reader.base \subseteq reader.got

\* Once the signal has come the process ends, even if a handler never returns
\* (the 30 s of ListenAndServe's shutdown context).
SignalEnds == Main("Shutdown") ~> Main("exited")

\* "All security-relevant actions logged to SQLite" (README.md:193): every handler that has
\* changed something leaves an entry, with the same exceptions. Refuted.
AllActionsLogged ==
  \A r \in Requests \ (lost \cup late) : pc[r] \in {"answered", "failed"} => Entries(r) = {"change"}

\* src/docs/prps/prp-13-graceful-shutdown.md:37 on terminals: "No special handling needed
\* beyond what `Shutdown` provides (it waits for handlers to return)". Refuted.
TerminalsAreDrained == late \cap Terminals # {} => expired
=============================================================================
