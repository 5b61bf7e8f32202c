---------------------------- MODULE SessionPoller ----------------------------
(***************************************************************************)
(* The session manager (internal/session/manager.go): the polling          *)
(* goroutine, which walks a snapshot of the servers table, the handlers    *)
(* that write the same rows or change the sessions on the hosts, and       *)
(* UpdateInterval, called by concurrent settings updates. The pool is      *)
(* reduced to the outcome of Exec; its own steps are in module SSHPool.    *)
(***************************************************************************)
EXTENDS Integers, FiniteSets, ServerTable

CONSTANTS
  Uploads,      \* upload-key handlers that may run at the same time
  Updaters,     \* settings handlers that may call UpdateInterval at the same time
  Intervals,    \* poll intervals (time.Duration > 0)
  MaxSessions,  \* bound: tmux sessions of one host
  MaxUpdates,   \* bound: calls of UpdateInterval
  PollAtStart,  \* cfg.PollInterval > 0 when main starts
  NoServer, NoInterval

ASSUME PollerAssumption ==
  /\ IsFiniteSet(Servers)
  /\ NoServer \notin Servers /\ NoInterval \notin Intervals /\ Intervals # {}
  /\ MaxSessions \in Nat /\ MaxUpdates \in Nat /\ PollAtStart \in BOOLEAN

VARIABLES
  host,       \* what an Exec on the host meets
  tmux,       \* number of sessions on the host
  sessions,   \* Manager.sessions, by length
  gauge,      \* metrics.SessionsActive, per server_id; NoLabel before the first Set
  pc,         \* the polling goroutine
  todo,       \* servers of the snapshot still to poll
  snap,       \* their Status in the snapshot
  cur,        \* srv of the loop
  result,     \* outcome of ListSessions for cur: a length, or an error
  stopCh,     \* closed
  intervalCh, \* buffered value
  ticker,     \* interval of the ticker
  upload,     \* upload-key handlers: server and outcome of the connection test
  update,     \* UpdateInterval callers: program counter and argument
  updates

pollVars == <<pc, todo, snap, cur, result>>
dataVars == <<sessions, gauge>>
intervalVars == <<intervalCh, ticker, update, updates>>
vars == <<row, host, tmux, dataVars, pollVars, stopCh, intervalVars, upload>>

NoLabel == -2
Failed == -1       \* err # nil
Mismatched == -3   \* err # nil, from the host key callback
Errors == {Failed, Mismatched}
Counts == 0..MaxSessions
Hosts == {"up", "down", "mismatch", "hung"}
NoUpload == [srv |-> NoServer, ok |-> FALSE]
NoUpdate == [pc |-> "idle", d |-> NoInterval]
Polling == pc \notin {"off", "stopped"} /\ ~stopCh

Init ==
  /\ row = [s \in Servers |-> "none"]
  /\ host \in [Servers -> Hosts]
  /\ tmux = [s \in Servers |-> 0]
  /\ sessions = [s \in Servers |-> 0]
  /\ gauge = [s \in Servers |-> NoLabel]
  /\ pc = IF PollAtStart THEN "pollAll" ELSE "off"
  /\ todo = {} /\ snap = [s \in Servers |-> "none"]
  /\ cur = NoServer /\ result = Failed
  /\ stopCh = FALSE
  /\ intervalCh = NoInterval /\ ticker \in Intervals
  /\ upload = [h \in Uploads |-> NoUpload]
  /\ update = [c \in Updaters |-> NoUpdate] /\ updates = 0
-----------------------------------------------------------------------------
\* Neither session.Run nor the handshake has a deadline: on a host that hangs a command can
\* end only when its connection is closed, by the deletion of the server or by main after Stop.
\* It need not: they close the client that is cached then, not one that was evicted or
\* replaced, nor one that is still being made.
Ends(s) == host[s] # "hung" \/ s \notin Rows \/ stopCh

\* The end of a command. On a host whose key does not match the stored one it records the
\* mismatch and fails.
Exec(s) ==
  /\ Ends(s)
  /\ IF host[s] = "mismatch" THEN UpdateServerStatus(s, "key_mismatch") ELSE UNCHANGED row
ExecSucceeds(s) == host[s] = "up" /\ s \in Rows

\* StartPolling's loop: ListServers, or a failed query, which ends the poll.
PollAll ==
  /\ pc = "pollAll"
  /\ \/ todo' = Rows /\ snap' = row /\ pc' = "next"
     \/ pc' = "select" /\ UNCHANGED <<todo, snap>>
  /\ UNCHANGED <<row, host, tmux, dataVars, cur, result, stopCh, intervalVars, upload>>

\* The loop ends, or goes on with the next server.
PollDone ==
  /\ pc = "next" /\ todo = {}
  /\ pc' = "select"
  /\ cur' = NoServer /\ result' = Failed /\ snap' = [s \in Servers |-> "none"]
  /\ UNCHANGED <<row, host, tmux, dataVars, todo, stopCh, intervalVars, upload>>

PollServer(s) ==
  /\ pc = "next" /\ s \in todo
  /\ cur' = s /\ todo' = todo \ {s}
  /\ pc' = "exec"
  /\ UNCHANGED <<row, host, tmux, dataVars, snap, result, stopCh, intervalVars, upload>>

ListSessions ==
  /\ pc = "exec"
  /\ Exec(cur)
  /\ result' = CASE ExecSucceeds(cur) -> tmux[cur]
                 [] cur \in Rows /\ host[cur] = "mismatch" -> Mismatched
                 [] OTHER -> Failed
  /\ pc' = "status"
  /\ UNCHANGED <<host, tmux, dataVars, todo, snap, cur, stopCh, intervalVars, upload>>

\* The poll waits for a command on a host that hangs.
Stuck == pc = "exec" /\ host[cur] = "hung"

\* Mutant: only a server that was reachable can become unreachable, and conversely.
WriteStatusKnownOnly ==
  LET status == IF result \in Errors THEN "unreachable" ELSE "reachable" IN
  /\ pc = "status"
  /\ IF snap[cur] \in {"reachable", "unreachable"} \ {status}
     THEN UpdateServerStatus(cur, status) ELSE UNCHANGED row
  /\ pc' = "sessions"
  /\ UNCHANGED <<host, tmux, dataVars, todo, snap, cur, result, stopCh, intervalVars, upload>>

\* The status is written only when it differs from the one in the snapshot.
WriteStatus ==
  LET status == IF result \in Errors THEN "unreachable" ELSE "reachable" IN
  /\ pc = "status"
  /\ IF snap[cur] = status THEN UNCHANGED row ELSE UpdateServerStatus(cur, status)
  /\ pc' = "sessions"
  /\ UNCHANGED <<host, tmux, dataVars, todo, snap, cur, result, stopCh, intervalVars, upload>>

\* Mutant: a failed poll leaves the gauge.
WriteSessionsKeepsGauge ==
  /\ pc = "sessions"
  /\ IF result \in Errors THEN UNCHANGED dataVars
     ELSE /\ sessions' = [sessions EXCEPT ![cur] = result]
          /\ gauge' = [gauge EXCEPT ![cur] = result]
  /\ pc' = "next"
  /\ UNCHANGED <<row, host, tmux, todo, snap, cur, result, stopCh, intervalVars, upload>>

\* A failed poll clears the gauge and leaves the cached sessions.
WriteSessions ==
  /\ pc = "sessions"
  /\ sessions' = IF result \in Errors THEN sessions ELSE [sessions EXCEPT ![cur] = result]
  /\ gauge' = [gauge EXCEPT ![cur] = IF result \in Errors THEN 0 ELSE result]
  /\ pc' = "next"
  /\ UNCHANGED <<row, host, tmux, todo, snap, cur, result, stopCh, intervalVars, upload>>

Tick ==
  /\ pc = "select"
  /\ pc' = "pollAll"
  /\ UNCHANGED <<row, host, tmux, dataVars, todo, snap, cur, result, stopCh, intervalVars, upload>>

\* Mutant: the value is taken from the channel and not used.
ResetTickerIgnores ==
  /\ pc = "select" /\ intervalCh # NoInterval
  /\ intervalCh' = NoInterval
  /\ UNCHANGED <<row, host, tmux, dataVars, pollVars, stopCh, ticker, update, updates, upload>>

ResetTicker ==
  /\ pc = "select" /\ intervalCh # NoInterval
  /\ ticker' = intervalCh
  /\ intervalCh' = NoInterval
  /\ UNCHANGED <<row, host, tmux, dataVars, pollVars, stopCh, update, updates, upload>>

\* Mutant: a break leaves the select, not the loop.
QuitBreaks ==
  /\ pc = "select" /\ stopCh
  /\ pc' = "pollAll"
  /\ UNCHANGED <<row, host, tmux, dataVars, todo, snap, cur, result, stopCh, intervalVars, upload>>

Quit ==
  /\ pc = "select" /\ stopCh
  /\ pc' = "stopped"
  /\ UNCHANGED <<row, host, tmux, dataVars, todo, snap, cur, result, stopCh, intervalVars, upload>>

\* main cancels the context and calls Stop; both are the same case of the select.
Stop ==
  /\ ~stopCh
  /\ stopCh' = TRUE
  /\ UNCHANGED <<row, host, tmux, dataVars, pollVars, intervalVars, upload>>
-----------------------------------------------------------------------------
\* UpdateInterval: a non-blocking drain, then a blocking send.
UpdateInterval(c, d) ==
  /\ ~stopCh /\ updates < MaxUpdates
  /\ update[c] = NoUpdate
  /\ update' = [update EXCEPT ![c] = [pc |-> "drain", d |-> d]]
  /\ updates' = updates + 1
  /\ UNCHANGED <<row, host, tmux, dataVars, pollVars, stopCh, intervalCh, ticker, upload>>

Drain(c) ==
  /\ update[c].pc = "drain"
  /\ intervalCh' = NoInterval
  /\ update' = [update EXCEPT ![c].pc = "send"]
  /\ UNCHANGED <<row, host, tmux, dataVars, pollVars, stopCh, ticker, updates, upload>>

Send(c) ==
  /\ update[c].pc = "send" /\ intervalCh = NoInterval
  /\ intervalCh' = update[c].d
  /\ update' = [update EXCEPT ![c] = NoUpdate]
  /\ UNCHANGED <<row, host, tmux, dataVars, pollVars, stopCh, ticker, updates, upload>>
-----------------------------------------------------------------------------
\* handleUploadKey after Put: the connection test, then the status from its outcome.
UploadKey(h, s) ==
  /\ upload[h] = NoUpload
  /\ s \in Rows
  /\ Exec(s)
  /\ upload' = [upload EXCEPT ![h] = [srv |-> s, ok |-> ExecSucceeds(s)]]
  /\ UNCHANGED <<host, tmux, dataVars, pollVars, stopCh, intervalVars>>

UploadStatus(h) ==
  /\ upload[h] # NoUpload
  /\ UpdateServerStatus(upload[h].srv, IF upload[h].ok THEN "reachable" ELSE "unreachable")
  /\ upload' = [upload EXCEPT ![h] = NoUpload]
  /\ UNCHANGED <<host, tmux, dataVars, pollVars, stopCh, intervalVars>>

CreateServer(s) ==
  /\ row[s] = "none"
  /\ row' = [row EXCEPT ![s] = "unknown"]
  /\ UNCHANGED <<host, tmux, dataVars, pollVars, stopCh, intervalVars, upload>>

DeleteServer(s) ==
  /\ s \in Rows
  /\ row' = [row EXCEPT ![s] = "deleted"]
  /\ UNCHANGED <<host, tmux, dataVars, pollVars, stopCh, intervalVars, upload>>

\* handleCreateSession and handleKillSession change the host, not Manager.sessions.
CreateSession(s) ==
  /\ s \in Rows /\ tmux[s] < MaxSessions
  /\ Exec(s)
  /\ tmux' = [tmux EXCEPT ![s] = IF ExecSucceeds(s) THEN @ + 1 ELSE @]
  /\ UNCHANGED <<host, dataVars, pollVars, stopCh, intervalVars, upload>>

KillSession(s) ==
  /\ s \in Rows /\ tmux[s] > 0
  /\ Exec(s)
  /\ tmux' = [tmux EXCEPT ![s] = IF ExecSucceeds(s) THEN @ - 1 ELSE @]
  /\ UNCHANGED <<host, dataVars, pollVars, stopCh, intervalVars, upload>>

\* The network, the host or its key changes; accept-key ends a mismatch.
HostChanges(s, h) ==
  /\ host[s] # h
  /\ host' = [host EXCEPT ![s] = h]
  /\ UNCHANGED <<row, tmux, dataVars, pollVars, stopCh, intervalVars, upload>>
-----------------------------------------------------------------------------
Poller ==
  \/ PollAll \/ PollDone \/ ListSessions \/ WriteStatus \/ WriteSessions
  \/ \E s \in Servers : PollServer(s)

UpdateStep(c) == Drain(c) \/ Send(c)

Handlers ==
  \/ \E h \in Uploads, s \in Servers : UploadKey(h, s)
  \/ \E h \in Uploads : UploadStatus(h)
  \/ \E s \in Servers : CreateServer(s) \/ DeleteServer(s) \/ CreateSession(s) \/ KillSession(s)
  \/ \E c \in Updaters, d \in Intervals : UpdateInterval(c, d)
  \/ \E c \in Updaters : UpdateStep(c)

Environment == Stop \/ \E s \in Servers, h \in Hosts : HostChanges(s, h)

Next == Poller \/ Tick \/ ResetTicker \/ Quit \/ Handlers \/ Environment

Spec == Init /\ [][Next]_vars

\* Go runs every runnable goroutine; the queries end, and so does a command on a host that
\* does not hang; the select picks among its ready cases at random, so each of them again
\* and again. Nothing is assumed of a command on a host that hangs.
FairSpec ==
  /\ Spec
  /\ WF_vars(~Stuck /\ Poller) /\ SF_vars(Tick) /\ SF_vars(ResetTicker) /\ SF_vars(Quit)
  /\ SF_vars(pc = "pollAll" /\ PollAll /\ pc' = "next")
  /\ \A h \in Uploads : WF_vars(UploadStatus(h))
  /\ \A c \in Updaters : SF_vars(UpdateStep(c))
-----------------------------------------------------------------------------
TypeOK ==
  /\ row \in [Servers -> Status \cup {"none", "deleted"}]
  /\ host \in [Servers -> Hosts]
  /\ tmux \in [Servers -> Counts] /\ sessions \in [Servers -> Counts]
  /\ gauge \in [Servers -> Counts \cup {NoLabel}]
  /\ pc \in {"off", "pollAll", "next", "exec", "status", "sessions", "select", "stopped"}
  /\ pc \in {"exec", "status", "sessions"} => cur \in Servers
  /\ todo \subseteq Servers /\ snap \in [Servers -> Status \cup {"none", "deleted"}]
  /\ cur \in Servers \cup {NoServer} /\ result \in Counts \cup Errors
  /\ stopCh \in BOOLEAN
  /\ intervalCh \in Intervals \cup {NoInterval} /\ ticker \in Intervals
  /\ upload \in [Uploads -> [srv: Servers \cup {NoServer}, ok: BOOLEAN]]
  /\ update \in [Updaters -> [pc: {"idle", "drain", "send"}, d: Intervals \cup {NoInterval}]]
  /\ updates \in 0..MaxUpdates

\* The status catches up with a host that stays up or stays down, although the poller
\* decides on a snapshot that handlers invalidate while it runs (manager.go:175, 184) and
\* may have been stuck in a command before, if it is not for ever.
StatusConverges ==
  \A s \in Servers :
    /\ <>[](host[s] = "up" /\ Polling /\ ~Stuck) => <>[](s \in Rows => row[s] = "reachable")
    /\ <>[](host[s] = "down" /\ Polling /\ ~Stuck) => <>[](s \in Rows => row[s] = "unreachable")

\* Cache and gauge catch up with the sessions on a host that stays up, whatever the
\* handlers did to it in the meantime without touching the cache; the gauge of a host
\* that stays down goes to 0 (manager.go:178-193).
SessionsConverge ==
  \A s \in Servers :
    /\ \A n \in Counts :
         <>[](s \in Rows /\ host[s] = "up" /\ tmux[s] = n /\ Polling /\ ~Stuck) =>
           <>[](sessions[s] = n /\ gauge[s] = n)
    /\ <>[](s \in Rows /\ host[s] = "down" /\ Polling /\ ~Stuck) => <>[](gauge[s] = 0)

\* While the poller runs and is not stuck in a command, concurrent calls of UpdateInterval
\* all return, and the value that the last of them has sent reaches the ticker, unless a new
\* call comes first (manager.go:131, 151-158).
UpdateReturns ==
  LET away == ~Polling \/ Stuck
      quiet == \A c \in Updaters : update[c] = NoUpdate
  IN /\ \A c \in Updaters : (update[c].pc = "send") ~> (update[c].pc = "idle" \/ away)
     /\ \A d \in Intervals : (intervalCh = d /\ quiet) ~> (ticker = d \/ ~quiet \/ away)

\* Stop ends the goroutine, also when it is called in the middle of a poll. Only a command
\* on a host that hangs can keep it, and only while the host hangs (manager.go:133, 168;
\* main.go:169-170).
StopEndsPolling == stopCh ~> (pc \in {"off", "stopped"} \/ Stuck)

\* "Server status column becomes key_mismatch after a mismatch, visible in GET
\* /api/servers" (prp-08:94), asked when the poller has handled the server whose key did not match.
MismatchIsVisible ==
  (pc = "sessions" /\ result = Mismatched /\ cur \in Rows) => row[cur] = "key_mismatch"

\* "UpdateInterval should not block even before StartPolling is called"
\* (manager_test.go:85).
UpdateNeverBlocks == \A c \in Updaters : (update[c].pc = "send") ~> (update[c].pc = "idle")

\* "server_id labels are bounded by the number of registered servers" (prp-14:104).
LabelsAreRegistered == pc = "select" => \A s \in Servers : gauge[s] # NoLabel => s \in Rows
=============================================================================
