------------------------------- MODULE Dashboard -------------------------------
(***************************************************************************)
(* One browser tab with the dashboard (cmd/server/static/js/app.js) and    *)
(* the handlers it calls (internal/server/server.go). The script is single *)
(* threaded: it runs from one await to the next, and the answers of the    *)
(* requests in flight arrive in any order. A session list is abstracted to *)
(* a version, the number of changes of the host it reflects.               *)
(***************************************************************************)
EXTENDS Integers, FiniteSets, Bags

CONSTANTS
  Servers,   \* ids of servers, registered or not
  Initial,   \* the ones registered when the page is opened
  MaxOps,    \* bound: clicks of the user and changes made elsewhere
  MaxFaults  \* bound: requests and SSH commands that fail

ASSUME DashboardAssumption ==
  /\ Initial \subseteq Servers /\ Servers # {}
  /\ MaxOps \in Nat /\ MaxFaults \in Nat

Loading == -1   \* "Loading sessions..."
Failed == -2    \* "Failed to load sessions"
Version == Nat

VARIABLES
  row,      \* rows of servers: "none", "row", "deleted" (ids are never used again)
  host,     \* version of the tmux sessions on the host
  cache,    \* version in Manager.sessions
  view,     \* the view that is shown
  cards,    \* servers with a card in #servers-list
  open,     \* cards whose body has class open
  expanded, \* expandedServers
  list,     \* content of #sessions-<id>, for the cards
  button,   \* #refresh-btn and the flow of refreshDashboard behind it
  pending,  \* what its loop over expandedServers still has to visit
  fetches,  \* bag of the requests in flight
  seen,     \* history: newest version each list has shown
  ops, faults

serverVars == <<row, host, cache>>
pageVars == <<view, cards, open, expanded, list, button, pending, seen>>
vars == <<serverVars, pageVars, fetches, ops, faults>>

Rows == {s \in Servers : row[s] = "row"}

\* A call of api() or fetch(). For loadSessions, "to" is the container it looked up before
\* it sent the request: on the page, since replaced by a new rendering, or null.
Request(kind, s, live, to, by) ==
  [kind |-> kind, srv |-> s, live |-> live, to |-> to, by |-> by,
   phase |-> "sent", val |-> 0, tbl |-> {}]

None == CHOOSE s \in Servers : TRUE   \* the server of a request that names none

LoadServers(by) == Request("servers", None, FALSE, "none", by)
LoadSessions(s, live, by, shown) ==
  Request("sessions", s, live, IF s \in shown THEN "card" ELSE "null", by)

One(r) == SetToBag({r})
InFlight == BagToSet(fetches)
Without(r) == fetches (-) One(r)

Init ==
  /\ row = [s \in Servers |-> IF s \in Initial THEN "row" ELSE "none"]
  /\ host = [s \in Servers |-> 0] /\ cache = host
  /\ view = "login"
  /\ cards = {} /\ open = {} /\ expanded = {} /\ pending = {}
  /\ list = [s \in Servers |-> Loading]
  /\ button = "idle"
  /\ fetches = EmptyBag
  /\ seen = host
  /\ ops = 0 /\ faults = 0
-----------------------------------------------------------------------------
(* What the user does. *)

Click == view = "dashboard" /\ ops < MaxOps /\ ops' = ops + 1

\* login-form, init: showDashboard, up to its first await.
Login ==
  /\ view = "login"
  /\ view' = "dashboard"
  /\ fetches' = fetches (+) One(Request("templates", None, FALSE, "none", "none"))
  /\ UNCHANGED <<serverVars, cards, open, expanded, list, button, pending, seen, ops, faults>>

ToggleServer(s) ==
  /\ Click /\ s \in cards
  /\ \/ /\ s \in open
        /\ open' = open \ {s} /\ expanded' = expanded \ {s} /\ pending' = pending \ {s}
        /\ UNCHANGED fetches
     \/ /\ s \notin open
        /\ open' = open \cup {s} /\ expanded' = expanded \cup {s}
        /\ pending' = IF button = "looping" THEN pending \cup {s} ELSE pending
        /\ fetches' = fetches (+) One(LoadSessions(s, FALSE, "none", cards))
  /\ UNCHANGED <<serverVars, view, cards, list, button, seen, faults>>

\* Mutant: the button is not disabled.
RefreshAgain ==
  /\ Click
  /\ button' = "loading"
  /\ fetches' = fetches (+) One(LoadServers("refresh"))
  /\ UNCHANGED <<serverVars, view, cards, open, expanded, list, pending, seen, faults>>

RefreshDashboard ==
  /\ Click /\ button = "idle"
  /\ button' = "loading"
  /\ fetches' = fetches (+) One(LoadServers("refresh"))
  /\ UNCHANGED <<serverVars, view, cards, open, expanded, list, pending, seen, faults>>

\* createSession, killSession, deleteServer and the form that adds a server, up to their
\* first await.
Submit(kind, s) ==
  /\ Click
  /\ fetches' = fetches (+) One(Request(kind, s, FALSE, "none", "none"))
  /\ UNCHANGED <<serverVars, pageVars, faults>>

ChangeSession(s) == s \in open /\ Submit("change", s)
DeleteServer(s) == s \in open /\ Submit("delete", s)
AddServer == Submit("create", None)

\* setTimeout of refreshDashboard.
ButtonTimer ==
  /\ button = "done" /\ button' = "idle"
  /\ UNCHANGED <<serverVars, view, cards, open, expanded, list, pending, fetches, seen, ops, faults>>
-----------------------------------------------------------------------------
(* The server. *)

Answer(r, a) == fetches' = Without(r) (+) One(a)

HandleListServers(r) ==
  /\ r.kind = "servers"
  /\ Answer(r, [r EXCEPT !.phase = "ok", !.tbl = Rows])
  /\ UNCHANGED <<serverVars, pageVars, ops, faults>>

GetSessions(s) == cache[s]

\* ?live=true asks the host, and falls back to the cache when the command fails.
HandleListSessions(r) ==
  /\ r.kind = "sessions"
  /\ \/ /\ r.srv \notin Rows
        /\ Answer(r, [r EXCEPT !.phase = "error"])
        /\ UNCHANGED faults
     \/ /\ r.srv \in Rows /\ r.live
        /\ Answer(r, [r EXCEPT !.phase = "ok", !.val = host[r.srv]])
        /\ UNCHANGED faults
     \/ /\ r.srv \in Rows /\ ~r.live
        /\ Answer(r, [r EXCEPT !.phase = "ok", !.val = GetSessions(r.srv)])
        /\ UNCHANGED faults
     \/ /\ r.srv \in Rows /\ r.live
        /\ faults < MaxFaults /\ faults' = faults + 1
        /\ Answer(r, [r EXCEPT !.phase = "ok", !.val = GetSessions(r.srv)])
  /\ UNCHANGED <<serverVars, pageVars, ops>>

\* handleCreateSession, handleKillSession; neither writes the cache.
HandleChangeSession(r) ==
  /\ r.kind = "change"
  /\ \/ /\ r.srv \notin Rows
        /\ Answer(r, [r EXCEPT !.phase = "error"])
        /\ UNCHANGED host
     \/ /\ r.srv \in Rows
        /\ host' = [host EXCEPT ![r.srv] = @ + 1]
        /\ Answer(r, [r EXCEPT !.phase = "ok"])
  /\ UNCHANGED <<row, cache, pageVars, ops, faults>>

HandleDeleteServer(r) ==
  /\ r.kind = "delete"
  /\ IF r.srv \in Rows
     THEN /\ row' = [row EXCEPT ![r.srv] = "deleted"]
          /\ Answer(r, [r EXCEPT !.phase = "ok"])
     ELSE Answer(r, [r EXCEPT !.phase = "error"]) /\ UNCHANGED row
  /\ UNCHANGED <<host, cache, pageVars, ops, faults>>

\* A name that is taken is refused by the UNIQUE constraint.
HandleCreateServer(r) ==
  /\ r.kind = "create"
  /\ \/ \E s \in Servers :
          /\ row[s] = "none"
          /\ row' = [row EXCEPT ![s] = "row"]
          /\ Answer(r, [r EXCEPT !.phase = "ok"])
     \/ Answer(r, [r EXCEPT !.phase = "error"]) /\ UNCHANGED row
  /\ UNCHANGED <<host, cache, pageVars, ops, faults>>

\* The templates fill a menu of the page that nothing here depends on.
HandleListTemplates(r) ==
  /\ r.kind = "templates"
  /\ Answer(r, [r EXCEPT !.phase = "ok"])
  /\ UNCHANGED <<serverVars, pageVars, ops, faults>>

\* The key and the status of the server are not on this page.
HandleUploadKey(r) ==
  /\ r.kind = "key"
  /\ Answer(r, [r EXCEPT !.phase = "ok"])
  /\ UNCHANGED <<serverVars, pageVars, ops, faults>>

Handle(r) ==
  \/ HandleListServers(r) \/ HandleListSessions(r) \/ HandleChangeSession(r)
  \/ HandleDeleteServer(r) \/ HandleCreateServer(r) \/ HandleUploadKey(r)
  \/ HandleListTemplates(r)

\* The handler answers with an error, the login has expired, or the network fails, before
\* the handler ran or after it.
RequestFails(r) ==
  /\ faults < MaxFaults /\ faults' = faults + 1
  /\ \/ /\ r.phase = "sent"
        /\ \E p \in {"error", "unauthorized"} : Answer(r, [r EXCEPT !.phase = p])
     \/ /\ r.phase \in {"sent", "ok"}
        /\ Answer(r, [r EXCEPT !.phase = "rejected", !.val = 0, !.tbl = {}])
  /\ UNCHANGED <<serverVars, pageVars, ops>>

\* An iteration of pollAll's loop: the server gets a new entry, unless its command fails.
PollAll ==
  /\ cache' \in {cache} \cup {[cache EXCEPT ![s] = host[s]] : s \in Rows}
  /\ UNCHANGED <<row, host, pageVars, fetches, ops, faults>>

\* Another tab, or the host itself.
ChangedElsewhere(s) ==
  /\ ops < MaxOps /\ ops' = ops + 1 /\ s \in Rows
  /\ \/ host' = [host EXCEPT ![s] = @ + 1] /\ UNCHANGED row
     \/ row' = [row EXCEPT ![s] = "deleted"] /\ UNCHANGED host
  /\ UNCHANGED <<cache, pageVars, fetches, faults>>
-----------------------------------------------------------------------------
(* What the script does with an answer. *)

\* api() shows the login view on a 401, whatever called it.
ShowView(r) == view' = IF r.phase = "unauthorized" THEN "login" ELSE view

\* innerHTML replaces the containers that requests in flight hold.
Detach(b) ==
  LET holding == {r \in BagToSet(b) : r.to = "card"}
      moved == {[r EXCEPT !.to = "detached"] : r \in holding}
  IN [r \in BagToSet(b) \ holding |-> b[r]] (+) [m \in moved |-> b[[m EXCEPT !.to = "card"]]]

\* The loop of refreshDashboard, at its next iteration: the iterator of a Set skips what
\* is deleted and visits what is added.
Loop(left, shown, b) ==
  \/ /\ left = {}
     /\ button' = "done" /\ pending' = {} /\ fetches' = b
  \/ \E s \in left :
       /\ button' = "looping" /\ pending' = left \ {s}
       /\ fetches' = b (+) One(LoadSessions(s, TRUE, "refresh", shown))

\* The rest of loadServers' caller, with the set and the cards as they are then.
AfterServers(r, exp, shown, b) ==
  \/ r.by = "refresh" /\ Loop(exp, shown, b)
  \/ r.by = "none" /\ pending' = pending \cap exp /\ fetches' = b /\ UNCHANGED button

\* Mutants: expandedServers keeps a server that is gone; the lists are not loaded again.
RenderServersKeeps(r) ==
  \/ /\ r.tbl = {}
     /\ cards' = {} /\ open' = {}
     /\ UNCHANGED expanded
     /\ AfterServers(r, expanded, {}, Detach(Without(r)))
  \/ /\ r.tbl # {}
     /\ cards' = r.tbl /\ open' = expanded \cap r.tbl /\ expanded' = expanded
     /\ AfterServers(r, expanded, r.tbl, Detach(Without(r)) (+)
          SetToBag({LoadSessions(s, FALSE, "none", r.tbl) : s \in expanded \cap r.tbl}))

RenderServersOnly(r) ==
  /\ cards' = r.tbl /\ open' = expanded \cap r.tbl /\ expanded' = expanded \cap r.tbl
  /\ AfterServers(r, expanded \cap r.tbl, r.tbl, Detach(Without(r)))

\* An empty list returns before expandedServers is cleaned.
RenderServers(r) ==
  \/ /\ r.tbl = {}
     /\ cards' = {} /\ open' = {}
     /\ UNCHANGED expanded
     /\ AfterServers(r, expanded, {}, Detach(Without(r)))
  \/ LET there == expanded \cap r.tbl IN
     /\ r.tbl # {}
     /\ cards' = r.tbl /\ open' = there /\ expanded' = there
     /\ AfterServers(r, there, r.tbl,
          Detach(Without(r)) (+) SetToBag({LoadSessions(s, FALSE, "none", r.tbl) : s \in there}))

ServersLoaded(r) ==
  /\ r.kind = "servers"
  /\ \/ /\ r.phase = "ok"
        /\ RenderServers(r)
        /\ list' = [s \in Servers |-> Loading]
     \/ /\ r.phase # "ok"
        /\ AfterServers(r, expanded, cards, Without(r))
        /\ UNCHANGED <<cards, open, expanded, list>>
  /\ ShowView(r)
  /\ UNCHANGED <<serverVars, seen, ops, faults>>

\* Mutant: the catch of loadSessions throws again.
ThrowsOnError(r) == r.to = "null" \/ r.phase # "ok"

\* Writing to a null container throws in the try and again in the catch.
Throws(r) == r.to = "null"

SessionsLoaded(r) ==
  /\ r.kind = "sessions"
  /\ \/ /\ r.to = "card" /\ r.phase = "ok"
        /\ list' = [list EXCEPT ![r.srv] = r.val]
        /\ seen' = [seen EXCEPT ![r.srv] = IF @ < r.val THEN r.val ELSE @]
     \/ /\ r.to = "card" /\ r.phase # "ok"
        /\ list' = [list EXCEPT ![r.srv] = Failed]
        /\ UNCHANGED seen
     \/ r.to # "card" /\ UNCHANGED <<list, seen>>
  /\ \/ r.by = "refresh" /\ ~Throws(r) /\ Loop(pending, cards, Without(r))
     \/ /\ r.by = "none" \/ Throws(r)
        /\ fetches' = Without(r) /\ UNCHANGED <<button, pending>>
  /\ ShowView(r)
  /\ UNCHANGED <<serverVars, cards, open, expanded, ops, faults>>

\* The status of the answer is not looked at: an error goes on like a success.
Arrived(r) == r.phase \in {"ok", "error"}

SessionChanged(r) ==
  /\ r.kind = "change"
  /\ fetches' = IF Arrived(r)
                THEN Without(r) (+) One(LoadSessions(r.srv, TRUE, "none", cards))
                ELSE Without(r)
  /\ ShowView(r)
  /\ UNCHANGED <<serverVars, cards, open, expanded, list, button, pending, seen, ops, faults>>

ServerDeleted(r) ==
  /\ r.kind = "delete"
  /\ \/ /\ Arrived(r)
        /\ expanded' = expanded \ {r.srv} /\ pending' = pending \ {r.srv}
        /\ fetches' = Without(r) (+) One(LoadServers("none"))
     \/ /\ ~Arrived(r)
        /\ fetches' = Without(r) /\ UNCHANGED <<expanded, pending>>
  /\ ShowView(r)
  /\ UNCHANGED <<serverVars, cards, open, list, button, seen, ops, faults>>

\* An uploaded key follows, or not (vault_ref, or no key was given).
ServerCreated(r) ==
  /\ r.kind = "create"
  /\ \/ /\ r.phase = "ok"
        /\ \E b \in {One(Request("key", None, FALSE, "none", "none")), One(LoadServers("none")), EmptyBag} :
             fetches' = Without(r) (+) b
     \/ r.phase # "ok" /\ fetches' = Without(r)
  /\ ShowView(r)
  /\ UNCHANGED <<serverVars, cards, open, expanded, list, button, pending, seen, ops, faults>>

\* This one is a plain fetch: a 401 is an answer like any other.
KeyUploaded(r) ==
  /\ r.kind = "key"
  /\ fetches' = IF r.phase = "rejected" THEN Without(r) ELSE Without(r) (+) One(LoadServers("none"))
  /\ UNCHANGED <<serverVars, pageVars, ops, faults>>

\* loadTemplates catches everything: showDashboard goes on to loadServers, after a 401 too.
TemplatesLoaded(r) ==
  /\ r.kind = "templates"
  /\ fetches' = Without(r) (+) One(LoadServers("none"))
  /\ ShowView(r)
  /\ UNCHANGED <<serverVars, cards, open, expanded, list, button, pending, seen, ops, faults>>

Deliver(r) ==
  \/ TemplatesLoaded(r) \/ ServersLoaded(r) \/ SessionsLoaded(r) \/ SessionChanged(r)
  \/ ServerDeleted(r) \/ ServerCreated(r) \/ KeyUploaded(r)
-----------------------------------------------------------------------------
User ==
  \/ Login \/ RefreshDashboard \/ AddServer
  \/ \E s \in Servers : ToggleServer(s) \/ ChangeSession(s) \/ DeleteServer(s)

Progress ==
  \/ \E r \in InFlight : r.phase = "sent" /\ Handle(r)
  \/ \E r \in InFlight : r.phase # "sent" /\ Deliver(r)
  \/ ButtonTimer

Next ==
  \/ User \/ Progress \/ PollAll
  \/ \E r \in InFlight : RequestFails(r)
  \/ \E s \in Servers : ChangedElsewhere(s)

Spec == Init /\ [][Next]_vars

\* The handler is in an SSH command, which has no deadline: a live list, a change of the
\* sessions, the test of a new key.
AwaitsHost(r) ==
  r.phase = "sent" /\ (r.kind \in {"change", "key"} \/ (r.live /\ r.srv \in Rows))

\* Fair is what waits for no host: the other handlers answer, or the request fails, and the
\* browser delivers what has arrived.
Unhindered ==
  \/ \E r \in InFlight : r.phase = "sent" /\ ~AwaitsHost(r) /\ Handle(r)
  \/ \E r \in InFlight : r.phase # "sent" /\ Deliver(r)
  \/ ButtonTimer
FairSpec == Spec /\ WF_vars(Unhindered)
-----------------------------------------------------------------------------
Requests ==
  [kind: {"servers", "sessions", "change", "delete", "create", "key", "templates"}, srv: Servers,
   live: BOOLEAN, to: {"none", "card", "detached", "null"}, by: {"none", "refresh"},
   phase: {"sent", "ok", "error", "rejected", "unauthorized"}, val: Version, tbl: SUBSET Servers]

TypeOK ==
  /\ row \in [Servers -> {"none", "row", "deleted"}]
  /\ host \in [Servers -> Version] /\ cache \in [Servers -> Version] /\ seen \in [Servers -> Version]
  /\ view \in {"login", "dashboard"}
  /\ cards \subseteq Servers /\ open \subseteq cards
  /\ expanded \subseteq Servers /\ pending \subseteq expanded
  /\ list \in [Servers -> Version \cup {Loading, Failed}]
  /\ button \in {"idle", "loading", "looping", "done"}
  /\ fetches \in [InFlight -> Nat \ {0}] /\ InFlight \subseteq Requests
  /\ \A r \in InFlight : r.to = "card" => r.srv \in cards
  /\ ops \in 0..MaxOps /\ faults \in 0..MaxFaults

\* While there are cards, what expandedServers holds is open on the page: the loop of
\* refreshDashboard then finds a container for each (renderServers 241-251, toggleServer,
\* deleteServer, in whatever order their requests are answered).
ExpandedIsOpen == cards # {} => expanded \subseteq open

\* The disabled button keeps the refreshes apart: at most one is in progress, and none when
\* the button can be clicked (refreshDashboard).
OneRefresh ==
  LET R == {r \in InFlight : r.by = "refresh"} IN
  /\ \A r \in R : fetches[r] = 1
  /\ Cardinality(R) <= (IF button \in {"loading", "looping"} THEN 1 ELSE 0)

\* An open card does not stay at "Loading sessions...", even when every host hangs: each
\* rendering loads the open lists again, from the cache (renderServers 245-246), and a list
\* that fails to load says so.
LoadingEnds ==
  \A s \in Servers : []<>~(s \in open /\ list[s] = Loading)

\* The hosts a refresh asks do not keep it waiting for ever.
HostsAnswer == []<>(\A r \in InFlight : r.by = "refresh" => ~AwaitsHost(r))

\* A refresh ends and the button can be used again, whatever fails on the way, as long as
\* the hosts answer and its loop finds a card for every server (refreshDashboard). Without
\* a card, both the try and the catch of loadSessions write to null (app.js:283, 302) and
\* the refresh breaks off: that is the only thing that stops it.
RefreshEnds ==
  (HostsAnswer /\ [](\A r \in InFlight : r.by = "refresh" => r.to # "null")) =>
    []<>(button = "idle")

\* "Manual refresh button for on-demand updates" (docs/architecture.md:49): the same when
\* another tab deletes the only server and its card is gone.
RefreshAlwaysEnds == HostsAnswer => []<>(button = "idle")

\* "This avoids the stale-cache-overwriting-UI problem" (docs/architecture.md:49): once
\* everything has arrived, no list is older than what the user has already seen in it.
StaleNeverOverwrites ==
  fetches = EmptyBag => \A s \in open : list[s] >= 0 => list[s] >= seen[s]
=============================================================================
