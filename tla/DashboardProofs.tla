--------------------------- MODULE DashboardProofs ---------------------------
(***************************************************************************)
(* Theorems about Dashboard for any set of servers and any bag of requests *)
(* in flight. OneRefresh bounds a cardinality; the proof carries Single,   *)
(* which says the same of the members of the bag, together with the type   *)
(* of the requests.                                                        *)
(***************************************************************************)
EXTENDS Dashboard, FiniteSetTheorems, TLAPS

\* The only actions that touch the cards, or what is open and expanded on them.
Touching ==
  \/ \E s \in Servers : ToggleServer(s)
  \/ \E r \in InFlight : ServersLoaded(r) \/ ServerDeleted(r)

\* Every other step, answers and failures included, leaves the three alone.
LEMMA OthersLeaveCards ==
  ASSUME [Next]_vars, ~Touching
  PROVE  UNCHANGED <<cards, open, expanded>>
<1> USE DEF pageVars
<1>1. CASE UNCHANGED vars
  BY <1>1 DEF vars
<1>2. CASE User
  BY <1>2 DEF User, Touching, Login, RefreshDashboard, AddServer, ChangeSession, DeleteServer, Submit
<1>3. CASE Progress
  <2>1. ASSUME NEW r \in InFlight, Handle(r) PROVE UNCHANGED <<cards, open, expanded>>
    BY <2>1, Zenon DEF Handle, HandleListServers, HandleListSessions, HandleChangeSession,
                       HandleDeleteServer, HandleCreateServer, HandleUploadKey, HandleListTemplates
  <2>2. ASSUME NEW r \in InFlight, Deliver(r) PROVE UNCHANGED <<cards, open, expanded>>
    BY <2>2 DEF Deliver, Touching, TemplatesLoaded, SessionsLoaded, SessionChanged, ServerCreated,
                KeyUploaded
  <2>3. CASE ButtonTimer
    BY <2>3 DEF ButtonTimer
  <2> QED BY <1>3, <2>1, <2>2, <2>3 DEF Progress
<1>4. CASE PollAll \/ \E s \in Servers : ChangedElsewhere(s)
  BY <1>4 DEF PollAll, ChangedElsewhere
<1>5. ASSUME NEW r \in InFlight, RequestFails(r) PROVE UNCHANGED <<cards, open, expanded>>
  BY <1>5, Zenon DEF RequestFails
<1> QED BY <1>1, <1>2, <1>3, <1>4, <1>5 DEF Next

\* Whatever the order in which the answers of loadServers and deleteServer arrive between
\* the clicks, expandedServers never holds a server whose card is there and closed, nor one
\* without a card while other cards are shown (app.js renderServers, toggleServer).
THEOREM ExpandedStaysOpen == Spec => []ExpandedIsOpen
<1>1. Init => ExpandedIsOpen
  BY DEF Init, ExpandedIsOpen
<1>2. ExpandedIsOpen /\ [Next]_vars => ExpandedIsOpen'
  <2> SUFFICES ASSUME ExpandedIsOpen, [Next]_vars PROVE ExpandedIsOpen'
    OBVIOUS
  <2> USE DEF ExpandedIsOpen
  <2>1. CASE ~Touching
    BY <2>1, OthersLeaveCards
  <2>2. ASSUME NEW s \in Servers, ToggleServer(s) PROVE ExpandedIsOpen'
    BY <2>2 DEF ToggleServer
  <2>3. ASSUME NEW r, ServersLoaded(r) PROVE ExpandedIsOpen'
    <3>1. CASE r.phase = "ok" /\ RenderServers(r)
      BY <3>1 DEF RenderServers
    <3> QED BY <2>3, <3>1 DEF ServersLoaded
  <2>4. ASSUME NEW r, ServerDeleted(r) PROVE ExpandedIsOpen'
    BY <2>4 DEF ServerDeleted
  <2> QED BY <2>1, <2>2, <2>3, <2>4 DEF Touching
<1> QED BY <1>1, <1>2, PTL DEF Spec
-----------------------------------------------------------------------------
\* A bag of requests: every member is in flight at least once.
Bag(b) == b \in [DOMAIN b -> Nat \ {0}]

\* A request that loses its container.
Moved(r) == [r EXCEPT !.to = "detached"]

\* Replacing the container changes nothing else, and two requests that hold one stay apart
\* when they lose it.
LEMMA MovedRequest ==
  ASSUME NEW r \in Requests
  PROVE  /\ Moved(r) \in Requests /\ Moved(r).to = "detached" /\ Moved(r).by = r.by
         /\ r.to = "card" => [Moved(r) EXCEPT !.to = "card"] = r
BY Zenon DEF Moved, Requests

\* The requests that a refresh waits for: its loadServers, or one loadSessions of its loop.
Refreshing(b) == {r \in DOMAIN b : r.by = "refresh"}

\* At most one of them, in one copy.
Single(b) ==
  /\ \A r \in Refreshing(b) : b[r] = 1
  /\ \A r, q \in Refreshing(b) : r = q

\* A new rendering leaves no request with a container on the page and loses none; a refresh
\* that was the only one still is.
LEMMA Detaching ==
  ASSUME NEW b, Bag(b), DOMAIN b \subseteq Requests
  PROVE  /\ Bag(Detach(b)) /\ DOMAIN Detach(b) \subseteq Requests
         /\ \A r \in DOMAIN Detach(b) : r.to # "card"
         /\ Refreshing(b) = {} => Refreshing(Detach(b)) = {}
         /\ Single(b) => Single(Detach(b))
<1> DEFINE H == {r \in DOMAIN b : r.to = "card"}
           M == {Moved(r) : r \in H}
           rest == [r \in (DOMAIN b) \ H |-> b[r]]
           lost == [m \in M |-> b[[m EXCEPT !.to = "card"]]]
<1>1. Detach(b) = rest (+) lost
  BY DEF Detach, BagToSet, Moved
<1>2. \A h \in H : Moved(h) \in M /\ lost[Moved(h)] = b[h]
  BY MovedRequest
<1>3. Bag(lost) /\ Bag(rest)
  <2>1. \A m \in M : \E h \in H : m = Moved(h) /\ lost[m] = b[h]
    BY <1>2, Zenon
  <2>2. \A m \in M : lost[m] \in Nat \ {0}
    BY <2>1, Zenon DEF Bag
  <2>3. lost \in [M -> Nat \ {0}] /\ DOMAIN lost = M
    BY <2>2, Zenon
  <2> QED BY <2>3 DEF Bag
<1>4. DOMAIN Detach(b) = ((DOMAIN b) \ H) \cup M
  BY <1>1 DEF (+)
<1>5. \A e \in DOMAIN Detach(b) :
         Detach(b)[e] = (IF e \in (DOMAIN b) \ H THEN b[e] ELSE 0) + (IF e \in M THEN lost[e] ELSE 0)
  BY <1>1, <1>4 DEF (+)
<1> HIDE DEF M, lost, rest
<1>6. Bag(Detach(b))
  BY <1>1, <1>3 DEF Bag, (+)
<1>7. \A m \in M : \E h \in H : m = Moved(h)
  BY DEF M
<1>8. \A r \in DOMAIN Detach(b) : r \in Requests /\ r.to # "card"
  BY <1>4, <1>7, MovedRequest
<1>9. \A r \in Refreshing(Detach(b)) :
         \E q \in Refreshing(b) : (q \in H /\ r = Moved(q)) \/ (q \notin H /\ r = q)
  BY <1>4, <1>7, MovedRequest DEF Refreshing
<1>10. ASSUME Single(b) PROVE Single(Detach(b))
  <2>1. ASSUME NEW r \in Refreshing(Detach(b)) PROVE Detach(b)[r] = 1
    <3>1. PICK q \in Refreshing(b) : (q \in H /\ r = Moved(q)) \/ (q \notin H /\ r = q)
      BY <1>9
    <3>2. b[q] = 1 /\ \A p \in Refreshing(b) : p = q
      BY <1>10 DEF Single
    <3>3. CASE q \in H /\ r = Moved(q)
      <4>1. r \in M /\ lost[r] = 1
        BY <1>2, <3>2, <3>3
      <4>2. r \notin DOMAIN b
        BY <3>2, <3>3, MovedRequest DEF Refreshing
      <4> QED BY <1>5, <4>1, <4>2 DEF Refreshing
    <3>4. CASE q \notin H /\ r = q
      <4>1. r \notin M
        BY <1>7, <3>2, <3>4, MovedRequest DEF Refreshing
      <4>2. r \in (DOMAIN b) \ H
        BY <3>4 DEF Refreshing
      <4> QED BY <1>5, <3>2, <3>4, <4>1, <4>2 DEF Refreshing
    <3> QED BY <3>1, <3>3, <3>4
  <2>2. ASSUME NEW r \in Refreshing(Detach(b)), NEW s \in Refreshing(Detach(b)) PROVE r = s
    BY <1>9, <1>10 DEF Single
  <2> QED BY <2>1, <2>2 DEF Single
<1>11. Refreshing(b) = {} => Refreshing(Detach(b)) = {}
  BY <1>9
<1> QED BY <1>6, <1>8, <1>10, <1>11

\* The part of the type that is about the requests in flight, for a page that shows these
\* cards: a container on the page belongs to one of them.
Proper(b, shown) ==
  /\ Bag(b) /\ DOMAIN b \subseteq Requests
  /\ \A r \in DOMAIN b : r.to = "card" => r.srv \in shown

\* A request that names no server still carries one.
LEMMA NoneIsServer == None \in Servers
BY DashboardAssumption DEF None

\* What the user's forms and buttons send holds no container and belongs to no refresh.
LEMMA SubmittedRequest ==
  ASSUME NEW k \in {"change", "delete", "create", "key", "templates"}, NEW s \in Servers
  PROVE  LET q == Request(k, s, FALSE, "none", "none") IN
         q \in Requests /\ q.to = "none" /\ q.by = "none"
BY DEF Request, Requests, Version

\* What loadServers sends.
LEMMA ServersRequest ==
  ASSUME NEW by \in {"none", "refresh"}
  PROVE  LET q == LoadServers(by) IN q \in Requests /\ q.to = "none" /\ q.by = by
BY NoneIsServer DEF LoadServers, Request, Requests, Version

\* What loadSessions sends: it holds a container only if the card is there.
LEMMA SessionsRequest ==
  ASSUME NEW s \in Servers, NEW live \in BOOLEAN, NEW by \in {"none", "refresh"}, NEW shown,
         NEW q, q = LoadSessions(s, live, by, shown)
  PROVE  q \in Requests /\ q.by = by /\ (q.to = "card" => q.srv \in shown)
BY DEF LoadSessions, Request, Requests, Version

\* Sending a request: a refresh in progress is disturbed only by one that belongs to a refresh,
\* and that one is alone when none was in progress.
LEMMA Sending ==
  ASSUME NEW b, NEW shown, Proper(b, shown),
         NEW a \in Requests, a.to = "card" => a.srv \in shown,
         NEW c, c = b (+) One(a)
  PROVE  /\ Proper(c, shown)
         /\ a.by # "refresh" => Refreshing(c) = Refreshing(b) /\ (Single(b) => Single(c))
         /\ Refreshing(b) = {} => Single(c)
<1>1. /\ Bag(c) /\ DOMAIN c = (DOMAIN b) \cup {a}
      /\ a \notin DOMAIN b => c[a] = 1
      /\ \A r \in DOMAIN b : r # a => c[r] = b[r]
  BY DEF Proper, Bag, (+), One, SetToBag
<1>2. Proper(c, shown)
  BY <1>1 DEF Proper
<1>3. a.by # "refresh" => Refreshing(c) = Refreshing(b)
  BY <1>1 DEF Refreshing
<1>4. ASSUME a.by # "refresh", Single(b) PROVE Single(c)
  BY <1>1, <1>3, <1>4 DEF Single, Refreshing
<1>5. ASSUME Refreshing(b) = {} PROVE Single(c)
  BY <1>1, <1>5 DEF Single, Refreshing
<1> QED BY <1>2, <1>3, <1>4, <1>5

\* Taking an answer out: when it was the refresh's, no request of a refresh is left.
LEMMA Dropping ==
  ASSUME NEW b, NEW shown, Proper(b, shown), NEW a \in DOMAIN b, NEW c, c = b (-) One(a)
  PROVE  /\ Proper(c, shown)
         /\ Single(b) => /\ Single(c) /\ Refreshing(c) \subseteq Refreshing(b)
                         /\ a.by = "refresh" => Refreshing(c) = {}
<1>1. /\ Bag(c) /\ DOMAIN c = IF b[a] = 1 THEN (DOMAIN b) \ {a} ELSE DOMAIN b
      /\ \A r \in (DOMAIN b) \ {a} : c[r] = b[r]
  BY DEF Proper, Bag, (-), One, SetToBag
<1>2. Proper(c, shown)
  BY <1>1 DEF Proper
<1>3. Refreshing(c) \subseteq Refreshing(b)
  BY <1>1 DEF Refreshing
<1>4. ASSUME Single(b), a.by = "refresh" PROVE Refreshing(c) = {}
  BY <1>1, <1>4 DEF Single, Refreshing
<1>5. ASSUME Single(b) PROVE Single(c)
  BY <1>1, <1>3, <1>5 DEF Single, Refreshing
<1> QED BY <1>2, <1>3, <1>4, <1>5

\* A request replaced by its answer.
LEMMA Answering ==
  ASSUME NEW b, NEW shown, Proper(b, shown), NEW r \in DOMAIN b,
         NEW a \in Requests, a.to = r.to, a.srv = r.srv, a.by = r.by,
         NEW c, c = (b (-) One(r)) (+) One(a)
  PROVE  /\ Proper(c, shown)
         /\ Single(b) => Single(c) /\ (Refreshing(b) = {} => Refreshing(c) = {})
<1>1. PICK d : d = b (-) One(r)
  OBVIOUS
<1>2. /\ Proper(d, shown)
      /\ Single(b) => /\ Single(d) /\ Refreshing(d) \subseteq Refreshing(b)
                      /\ r.by = "refresh" => Refreshing(d) = {}
  BY <1>1, Dropping
<1>3. a.to = "card" => a.srv \in shown
  BY Zenon DEF Proper
<1>4. c = d (+) One(a)
  BY <1>1
<1>5. /\ Proper(c, shown)
      /\ a.by # "refresh" => Refreshing(c) = Refreshing(d) /\ (Single(d) => Single(c))
      /\ Refreshing(d) = {} => Single(c)
  BY <1>2, <1>3, <1>4, Sending
<1>6. r.by = "refresh" => Refreshing(b) # {}
  BY DEF Refreshing
<1>7. Single(b) => Single(c) /\ (Refreshing(b) = {} => Refreshing(c) = {})
  BY <1>2, <1>5, <1>6
<1> QED BY <1>5, <1>7

\* Everything of the type but the requests.
PageTyped ==
  /\ row \in [Servers -> {"none", "row", "deleted"}]
  /\ host \in [Servers -> Version] /\ cache \in [Servers -> Version] /\ seen \in [Servers -> Version]
  /\ view \in {"login", "dashboard"}
  /\ cards \subseteq Servers /\ open \subseteq cards
  /\ expanded \subseteq Servers /\ pending \subseteq expanded
  /\ list \in [Servers -> Version \cup {Loading, Failed}]
  /\ button \in {"idle", "loading", "looping", "done"}
  /\ ops \in 0..MaxOps /\ faults \in 0..MaxFaults

\* The two parts make up the type invariant.
LEMMA TypeParts == TypeOK <=> PageTyped /\ Proper(fetches, cards)
BY DEF TypeOK, PageTyped, Proper, Bag, InFlight, BagToSet

\* What an answer keeps of its request.
AnswerTo(r, a) == a \in Requests /\ a.to = r.to /\ a.srv = r.srv /\ a.by = r.by

\* The four forms of an answer: a status, a session list, the table of servers, and none at
\* all. Each belongs to the caller, the server and the container of its request.
LEMMA PhaseAnswer ==
  ASSUME NEW r \in Requests, NEW p \in {"ok", "error", "rejected", "unauthorized"}
  PROVE  AnswerTo(r, [r EXCEPT !.phase = p])
BY DEF AnswerTo, Requests

LEMMA ValueAnswer ==
  ASSUME NEW r \in Requests, NEW v \in Version
  PROVE  AnswerTo(r, [r EXCEPT !.phase = "ok", !.val = v])
BY Zenon DEF AnswerTo, Requests

LEMMA TableAnswer ==
  ASSUME NEW r \in Requests, NEW t \in SUBSET Servers
  PROVE  AnswerTo(r, [r EXCEPT !.phase = "ok", !.tbl = t])
BY Zenon DEF AnswerTo, Requests

LEMMA NoAnswer ==
  ASSUME NEW r \in Requests
  PROVE  AnswerTo(r, [r EXCEPT !.phase = "rejected", !.val = 0, !.tbl = {}])
BY Zenon DEF AnswerTo, Requests, Version

\* A handler, or a failure, puts an answer in the place of its request.
LEMMA Answered ==
  ASSUME TypeOK, NEW r \in InFlight, NEW a, AnswerTo(r, a), Answer(r, a)
  PROVE  /\ Proper(fetches', cards)
         /\ Single(fetches) => Single(fetches') /\ (Refreshing(fetches) = {} => Refreshing(fetches') = {})
BY Answering, TypeParts DEF Answer, AnswerTo, Without, InFlight, BagToSet

\* The inductive form of OneRefresh: it counts no members, and the requests and the button
\* are its arguments because a delivery passes through states of the requests that are not
\* those of a step (the answer taken out, the containers detached, the loads sent).
Refresh(b, btn) == Single(b) /\ (Refreshing(b) # {} => btn \in {"loading", "looping"})

\* renderServers loads the sessions of all the open cards at once; none of these loads is
\* the refresh's.
LEMMA SendingAll ==
  ASSUME NEW b, NEW shown, Proper(b, shown),
         NEW L, \A q \in L : q \in Requests /\ q.by = "none" /\ (q.to = "card" => q.srv \in shown),
         NEW c, c = b (+) SetToBag(L)
  PROVE  /\ Proper(c, shown) /\ Refreshing(c) = Refreshing(b)
         /\ Single(b) => Single(c)
<1>1. DOMAIN c = (DOMAIN b) \cup L
  BY DEF (+), SetToBag
<1>2. \A r \in DOMAIN c : c[r] = (IF r \in DOMAIN b THEN b[r] ELSE 0) + (IF r \in L THEN 1 ELSE 0)
  BY DEF (+), SetToBag
<1>3. \A r \in DOMAIN c : c[r] \in Nat \ {0} /\ (r \notin L => c[r] = b[r])
  BY <1>1, <1>2 DEF Proper, Bag
<1>4. Bag(c)
  BY <1>3, Zenon DEF Bag, (+)
<1>5. Proper(c, shown)
  BY <1>1, <1>4 DEF Proper
<1>6. Refreshing(c) = Refreshing(b)
  BY <1>1 DEF Refreshing
<1>7. Single(b) => Single(c)
  BY <1>3, <1>6 DEF Single, Refreshing
<1> QED BY <1>5, <1>6, <1>7

\* The next iteration of refreshDashboard's loop, started once its last request has been
\* answered: one new request, or the end of the refresh.
LEMMA Looping ==
  ASSUME NEW b, NEW shown, Proper(b, shown), NEW left \in SUBSET Servers, Loop(left, shown, b)
  PROVE  /\ Proper(fetches', shown) /\ pending' \subseteq left /\ button' \in {"looping", "done"}
         /\ Refreshing(b) = {} => Refresh(fetches', button')
<1>1. CASE left = {} /\ button' = "done" /\ pending' = {} /\ fetches' = b
  BY <1>1 DEF Refresh, Single
<1>2. ASSUME NEW s \in left, button' = "looping", pending' = left \ {s},
             fetches' = b (+) One(LoadSessions(s, TRUE, "refresh", shown))
      PROVE  /\ Proper(fetches', shown) /\ pending' \subseteq left /\ button' \in {"looping", "done"}
             /\ Refreshing(b) = {} => Refresh(fetches', button')
  <2>1. PICK q : q = LoadSessions(s, TRUE, "refresh", shown)
    BY Zenon
  <2>2. q \in Requests /\ (q.to = "card" => q.srv \in shown)
    BY <2>1, SessionsRequest, Zenon
  <2>3. PICK c : c = b (+) One(q)
    OBVIOUS
  <2>4. Proper(c, shown) /\ (Refreshing(b) = {} => Single(c))
    BY <2>2, <2>3, Sending
  <2> QED BY <1>2, <2>1, <2>3, <2>4, Zenon DEF Refresh
<1> QED BY <1>1, <1>2, Zenon DEF Loop

\* What follows loadServers, for either caller.
LEMMA Continuing ==
  ASSUME PageTyped, NEW r, NEW b, NEW shown, Proper(b, shown), NEW exp \in SUBSET Servers,
         AfterServers(r, exp, shown, b)
  PROVE  /\ Proper(fetches', shown) /\ pending' \subseteq exp
         /\ button' \in {"idle", "loading", "looping", "done"}
         /\ Refresh(b, button) /\ (r.by = "refresh" => Refreshing(b) = {}) => Refresh(fetches', button')
<1>1. CASE r.by = "refresh" /\ Loop(exp, shown, b)
  BY <1>1, Looping
<1>2. CASE r.by = "none" /\ pending' = pending \cap exp /\ fetches' = b /\ UNCHANGED button
  BY <1>2 DEF PageTyped
<1> QED BY <1>1, <1>2 DEF AfterServers

\* TypeParts, in the state after a step.
LEMMA TypePartsNext == TypeOK' <=> PageTyped' /\ Proper(fetches', cards')
BY DEF TypeOK, PageTyped, Proper, Bag, InFlight, BagToSet

\* A delivery that leaves these cards on the page, once its requests are known.
LEMMA Rendered ==
  ASSUME PageTyped, NEW r, NEW b, NEW shown \in SUBSET Servers, NEW exp \in SUBSET Servers,
         Proper(b, shown), AfterServers(r, exp, shown, b),
         cards' = shown, expanded' = exp, open' \subseteq cards',
         list' \in [Servers -> Version \cup {Loading, Failed}],
         ShowView(r), UNCHANGED <<serverVars, seen, ops, faults>>
  PROVE  /\ TypeOK'
         /\ Refresh(b, button) /\ (r.by = "refresh" => Refreshing(b) = {}) => Refresh(fetches', button')
<1>1. /\ Proper(fetches', shown) /\ pending' \subseteq exp
      /\ button' \in {"idle", "loading", "looping", "done"}
      /\ Refresh(b, button) /\ (r.by = "refresh" => Refreshing(b) = {}) => Refresh(fetches', button')
  BY Continuing
<1>2. PageTyped'
  BY <1>1 DEF PageTyped, ShowView, serverVars
<1> QED BY <1>1, <1>2, TypePartsNext

\* The answer of loadServers: a new rendering, empty or not, or an error.
LEMMA ServersStep ==
  ASSUME TypeOK, NEW r \in InFlight, ServersLoaded(r)
  PROVE  TypeOK' /\ (Refresh(fetches, button) => Refresh(fetches', button'))
<1>1. PageTyped /\ Proper(fetches, cards) /\ r \in DOMAIN fetches /\ r \in Requests
  BY TypeParts DEF Proper, InFlight, BagToSet
<1>2. PICK w : w = Without(r)
  OBVIOUS
<1>3. /\ Proper(w, cards)
      /\ Single(fetches) => /\ Single(w) /\ Refreshing(w) \subseteq Refreshing(fetches)
                            /\ r.by = "refresh" => Refreshing(w) = {}
  BY <1>1, <1>2, Dropping DEF Without
<1>4. PICK d : d = Detach(w)
  OBVIOUS
<1>5. /\ \A shown : Proper(d, shown)
      /\ Single(w) => Single(d)
      /\ Refreshing(w) = {} => Refreshing(d) = {}
  BY <1>3, <1>4, Detaching DEF Proper
<1>6. /\ Refresh(fetches, button) => Refresh(w, button) /\ (r.by = "refresh" => Refreshing(w) = {})
      /\ Refresh(fetches, button) => Refresh(d, button) /\ (r.by = "refresh" => Refreshing(d) = {})
  BY <1>3, <1>5 DEF Refresh
<1>7. ShowView(r) /\ UNCHANGED <<serverVars, seen, ops, faults>>
  BY DEF ServersLoaded
<1>8. expanded \in SUBSET Servers /\ cards \in SUBSET Servers /\ r.tbl \in SUBSET Servers
  BY <1>1 DEF PageTyped, Requests
<1>9. CASE r.phase = "ok" /\ RenderServers(r) /\ list' = [s \in Servers |-> Loading]
  <2>1. list' \in [Servers -> Version \cup {Loading, Failed}]
    BY <1>9
  <2>2. CASE r.tbl = {}
    <3>1. /\ cards' = {} /\ open' = {} /\ expanded' = expanded
          /\ AfterServers(r, expanded, {}, d)
      BY <1>2, <1>4, <1>9, <2>2 DEF RenderServers
    <3> QED BY <1>1, <1>5, <1>6, <1>7, <1>8, <2>1, <3>1, Rendered
  <2>3. CASE r.tbl # {}
    <3>1. PICK there : there = expanded \cap r.tbl
      BY Zenon
    <3>2. PICK L : L = {LoadSessions(s, FALSE, "none", r.tbl) : s \in there}
      BY Zenon
    <3>3. PICK b : b = d (+) SetToBag(L)
      OBVIOUS
    <3>4. /\ cards' = r.tbl /\ open' = there /\ expanded' = there
          /\ AfterServers(r, there, r.tbl, b)
      BY <1>2, <1>4, <1>9, <2>3, <3>1, <3>2, <3>3 DEF RenderServers
    <3>5. there \in SUBSET Servers /\ open' \subseteq cards'
      BY <1>8, <3>1, <3>4
    <3>6. Proper(b, r.tbl) /\ Refreshing(b) = Refreshing(d) /\ (Single(d) => Single(b))
      <4>1. \A q \in L : \E s \in there : q = LoadSessions(s, FALSE, "none", r.tbl)
        BY <3>2, Zenon
      <4>2. \A q \in L : q \in Requests /\ q.by = "none" /\ (q.to = "card" => q.srv \in r.tbl)
        BY <3>5, <4>1, SessionsRequest, Zenon
      <4> QED BY <1>5, <3>3, <4>2, SendingAll
    <3>7. Refresh(fetches, button) => Refresh(b, button) /\ (r.by = "refresh" => Refreshing(b) = {})
      BY <1>6, <3>6 DEF Refresh
    <3> QED BY <1>1, <1>7, <1>8, <2>1, <3>4, <3>5, <3>6, <3>7, Rendered
  <2> QED BY <2>2, <2>3
<1>10. CASE /\ r.phase # "ok" /\ AfterServers(r, expanded, cards, Without(r))
            /\ UNCHANGED <<cards, open, expanded, list>>
  <2>1. /\ cards' = cards /\ expanded' = expanded /\ open' \subseteq cards'
        /\ list' \in [Servers -> Version \cup {Loading, Failed}]
        /\ AfterServers(r, expanded, cards, w)
    BY <1>1, <1>2, <1>10 DEF PageTyped
  <2> QED BY <1>1, <1>3, <1>6, <1>7, <1>8, <2>1, Rendered
<1> QED BY <1>9, <1>10 DEF ServersLoaded

\* A request of the user sent beside a refresh.
LEMMA SendsOther ==
  ASSUME TypeOK, NEW q \in Requests, q.by = "none", q.to = "card" => q.srv \in cards,
         fetches' = fetches (+) One(q)
  PROVE  /\ Proper(fetches', cards)
         /\ Refresh(fetches, button) => Refresh(fetches', button)
<1>1. Proper(fetches, cards)
  BY TypeParts
<1> QED BY <1>1, Sending DEF Refresh

\* The user's clicks. A second refresh is excluded by the disabled button.
LEMMA UserStep ==
  ASSUME TypeOK, User
  PROVE  TypeOK' /\ (Refresh(fetches, button) => Refresh(fetches', button'))
<1>1. PageTyped /\ Proper(fetches, cards)
  BY TypeParts
<1> USE DEF serverVars, pageVars
<1>2. CASE Login
  <2>1. Proper(fetches', cards) /\ (Refresh(fetches, button) => Refresh(fetches', button))
    BY <1>2, SubmittedRequest, NoneIsServer, SendsOther DEF Login
  <2>2. PageTyped'
    BY <1>1, <1>2 DEF Login, PageTyped
  <2> QED BY <1>2, <2>1, <2>2, TypePartsNext DEF Login
<1>3. CASE RefreshDashboard
  <2>1. LoadServers("refresh") \in Requests /\ LoadServers("refresh").to = "none"
    BY ServersRequest
  <2>2. fetches' = fetches (+) One(LoadServers("refresh")) /\ button = "idle" /\ button' = "loading"
    BY <1>3 DEF RefreshDashboard
  <2>3. Proper(fetches', cards) /\ (Refreshing(fetches) = {} => Single(fetches'))
    BY <1>1, <2>1, <2>2, Sending
  <2>4. PageTyped'
    BY <1>1, <1>3, DashboardAssumption DEF RefreshDashboard, Click, PageTyped
  <2>5. Refresh(fetches, button) => Refresh(fetches', button')
    BY <2>2, <2>3 DEF Refresh
  <2> QED BY <1>3, <2>3, <2>4, <2>5, TypePartsNext DEF RefreshDashboard
<1>4. ASSUME NEW k \in {"change", "delete", "create", "key"}, NEW s \in Servers, Submit(k, s)
      PROVE  TypeOK' /\ (Refresh(fetches, button) => Refresh(fetches', button'))
  <2>1. Proper(fetches', cards) /\ (Refresh(fetches, button) => Refresh(fetches', button))
    BY <1>4, SubmittedRequest, SendsOther, Zenon DEF Submit
  <2>2. PageTyped'
    BY <1>1, <1>4, DashboardAssumption DEF Submit, Click, PageTyped
  <2> QED BY <1>4, <2>1, <2>2, TypePartsNext, Zenon DEF Submit
<1>5. ASSUME NEW s \in Servers, ToggleServer(s)
      PROVE  TypeOK' /\ (Refresh(fetches, button) => Refresh(fetches', button'))
  <2>1. PageTyped'
    <3>1. /\ open' \subseteq cards /\ expanded' \subseteq Servers /\ pending' \subseteq expanded'
      BY <1>1, <1>5, Zenon DEF ToggleServer, PageTyped
    <3>2. ops' \in 0..MaxOps
      BY <1>1, <1>5, DashboardAssumption DEF ToggleServer, Click, PageTyped
    <3> QED BY <1>1, <1>5, <3>1, <3>2 DEF ToggleServer, Click, PageTyped
  <2>2. Proper(fetches', cards) /\ (Refresh(fetches, button) => Refresh(fetches', button))
    <3>1. CASE s \in open
      BY <1>1, <1>5, <3>1, Zenon DEF ToggleServer
    <3>2. CASE s \notin open
      <4>1. PICK q : q = LoadSessions(s, FALSE, "none", cards)
        BY Zenon
      <4>2. q \in Requests /\ q.by = "none" /\ (q.to = "card" => q.srv \in cards)
        BY <4>1, SessionsRequest, Zenon
      <4>3. fetches' = fetches (+) One(q)
        BY <1>5, <3>2, <4>1, Zenon DEF ToggleServer
      <4> QED BY <4>2, <4>3, SendsOther
    <3> QED BY <3>1, <3>2
  <2> QED BY <1>5, <2>1, <2>2, TypePartsNext DEF ToggleServer
<1> QED BY <1>2, <1>3, <1>4, <1>5, NoneIsServer DEF User, AddServer, ChangeSession, DeleteServer

\* The server's handlers, and a request that fails before or after its handler.
LEMMA HandleStep ==
  ASSUME TypeOK, NEW r \in InFlight, Handle(r) \/ RequestFails(r)
  PROVE  TypeOK' /\ (Refresh(fetches, button) => Refresh(fetches', button'))
<1>1. PageTyped /\ r \in Requests
  BY TypeParts DEF Proper, InFlight, BagToSet
<1> USE DEF serverVars, pageVars
<1>2. PageTyped' /\ UNCHANGED <<cards, button>>
  BY <1>1, DashboardAssumption DEF Handle, HandleListServers, HandleListSessions, HandleChangeSession,
       HandleDeleteServer, HandleCreateServer, HandleUploadKey, HandleListTemplates, RequestFails, PageTyped,
       Rows, Version, Requests
<1>3. \E a : AnswerTo(r, a) /\ Answer(r, a)
  <2>1. CASE HandleListServers(r)
    <3>1. Rows \in SUBSET Servers
      BY DEF Rows
    <3> QED BY <1>1, <2>1, <3>1, TableAnswer, Zenon DEF HandleListServers
  <2>2. CASE HandleListSessions(r)
    <3>1. r.srv \in Servers => host[r.srv] \in Version /\ GetSessions(r.srv) \in Version
      BY <1>1 DEF PageTyped, GetSessions
    <3>2. r.srv \in Servers /\ "error" \in {"ok", "error", "rejected", "unauthorized"}
      BY <1>1 DEF Requests
    <3> QED BY <1>1, <2>2, <3>1, <3>2, PhaseAnswer, ValueAnswer, Zenon DEF HandleListSessions
  <2>3. CASE HandleChangeSession(r)
    BY <1>1, <2>3, PhaseAnswer, Zenon DEF HandleChangeSession
  <2>4. CASE HandleDeleteServer(r)
    BY <1>1, <2>4, PhaseAnswer, Zenon DEF HandleDeleteServer
  <2>5. CASE HandleCreateServer(r)
    BY <1>1, <2>5, PhaseAnswer, Zenon DEF HandleCreateServer
  <2>6. CASE HandleUploadKey(r)
    BY <1>1, <2>6, PhaseAnswer, Zenon DEF HandleUploadKey
  <2>7. CASE RequestFails(r)
    BY <1>1, <2>7, PhaseAnswer, NoAnswer, Zenon DEF RequestFails
  <2>8. CASE HandleListTemplates(r)
    BY <1>1, <2>8, PhaseAnswer, Zenon DEF HandleListTemplates
  <2> QED BY <2>1, <2>2, <2>3, <2>4, <2>5, <2>6, <2>7, <2>8 DEF Handle
<1>4. /\ Proper(fetches', cards)
      /\ Single(fetches) => Single(fetches') /\ (Refreshing(fetches) = {} => Refreshing(fetches') = {})
  BY <1>3, Answered
<1> QED BY <1>2, <1>4, TypePartsNext DEF Refresh

\* An answer that is being delivered is no longer in flight.
LEMMA Delivered ==
  ASSUME TypeOK, NEW r \in InFlight
  PROVE  /\ PageTyped /\ r \in Requests /\ Proper(Without(r), cards)
         /\ Refresh(fetches, button) =>
              Refresh(Without(r), button) /\ (r.by = "refresh" => Refreshing(Without(r)) = {})
<1>1. PageTyped /\ Proper(fetches, cards) /\ r \in DOMAIN fetches /\ r \in Requests
  BY TypeParts DEF Proper, InFlight, BagToSet
<1>2. /\ Proper(Without(r), cards)
      /\ Single(fetches) => /\ Single(Without(r)) /\ Refreshing(Without(r)) \subseteq Refreshing(fetches)
                            /\ r.by = "refresh" => Refreshing(Without(r)) = {}
  BY <1>1, Dropping DEF Without
<1> QED BY <1>1, <1>2 DEF Refresh

\* The answer of loadSessions: the list is shown, and the refresh's loop goes on unless
\* writing to a null container threw.
LEMMA SessionsStep ==
  ASSUME TypeOK, NEW r \in InFlight, SessionsLoaded(r)
  PROVE  TypeOK' /\ (Refresh(fetches, button) => Refresh(fetches', button'))
<1>1. PICK w : w = Without(r)
  OBVIOUS
<1>2. /\ PageTyped /\ r \in Requests /\ Proper(w, cards)
      /\ Refresh(fetches, button) => Refresh(w, button) /\ (r.by = "refresh" => Refreshing(w) = {})
  BY <1>1, Delivered
<1>3. /\ list' \in [Servers -> Version \cup {Loading, Failed}] /\ seen' \in [Servers -> Version]
  BY <1>2 DEF SessionsLoaded, PageTyped, Requests, Version
<1>4. /\ UNCHANGED <<serverVars, cards, open, expanded, ops, faults>>
      /\ view' \in {"login", "dashboard"}
  BY <1>2 DEF SessionsLoaded, ShowView, PageTyped
<1>5. /\ Proper(fetches', cards) /\ pending' \subseteq expanded
      /\ button' \in {"idle", "loading", "looping", "done"}
      /\ Refresh(fetches, button) => Refresh(fetches', button')
  <2>1. CASE r.by = "refresh" /\ Loop(pending, cards, w)
    <3>1. pending \in SUBSET Servers /\ pending \subseteq expanded
      BY <1>2 DEF PageTyped
    <3> QED BY <1>2, <2>1, <3>1, Looping
  <2>2. CASE fetches' = w /\ UNCHANGED <<button, pending>>
    BY <1>2, <2>2 DEF PageTyped
  <2> QED BY <1>1, <2>1, <2>2 DEF SessionsLoaded
<1>6. PageTyped'
  BY <1>2, <1>3, <1>4, <1>5 DEF PageTyped, serverVars
<1> QED BY <1>4, <1>5, <1>6, TypePartsNext

\* The answers of the other calls: at most one request follows, and it is no refresh's.
LEMMA OtherStep ==
  ASSUME TypeOK, NEW r \in InFlight,
         TemplatesLoaded(r) \/ SessionChanged(r) \/ ServerDeleted(r) \/ ServerCreated(r) \/ KeyUploaded(r)
  PROVE  TypeOK' /\ (Refresh(fetches, button) => Refresh(fetches', button'))
<1>1. PICK w : w = Without(r)
  OBVIOUS
<1>2. /\ PageTyped /\ r \in Requests /\ Proper(w, cards)
      /\ Refresh(fetches, button) => Refresh(w, button)
  BY <1>1, Delivered
<1>3. PageTyped' /\ UNCHANGED <<cards, button>>
  BY <1>2, Zenon DEF TemplatesLoaded, SessionChanged, ServerDeleted, ServerCreated, KeyUploaded, ShowView,
              PageTyped, serverVars, pageVars
<1>4. ASSUME NEW q, q \in Requests, q.by = "none", q.to = "card" => q.srv \in cards,
             fetches' = w (+) One(q)
      PROVE  Proper(fetches', cards) /\ (Refresh(w, button) => Refresh(fetches', button))
  BY <1>2, <1>4, Sending DEF Refresh
<1>5. \/ fetches' = w
      \/ \E q : /\ q \in Requests /\ q.by = "none" /\ (q.to = "card" => q.srv \in cards)
               /\ fetches' = w (+) One(q)
  <2>1. CASE SessionChanged(r)
    <3>1. r.srv \in Servers
      BY <1>2 DEF Requests
    <3> QED BY <1>1, <2>1, <3>1, SessionsRequest, Zenon DEF SessionChanged
  <2>2. CASE ServerDeleted(r)
    BY <1>1, <2>2, ServersRequest DEF ServerDeleted
  <2>3. CASE ServerCreated(r)
    <3>1. w (+) EmptyBag = w
      BY <1>2 DEF Proper, Bag, (+), EmptyBag, SetToBag
    <3>2. \/ fetches' = w \/ fetches' = w (+) EmptyBag
          \/ fetches' = w (+) One(LoadServers("none"))
          \/ fetches' = w (+) One(Request("key", None, FALSE, "none", "none"))
      BY <1>1, <2>3, Zenon DEF ServerCreated
    <3> QED BY <3>1, <3>2, ServersRequest, SubmittedRequest, NoneIsServer, Zenon
  <2>4. CASE KeyUploaded(r)
    BY <1>1, <2>4, ServersRequest DEF KeyUploaded
  <2>5. CASE TemplatesLoaded(r)
    BY <1>1, <2>5, ServersRequest DEF TemplatesLoaded
  <2> QED BY <2>1, <2>2, <2>3, <2>4, <2>5
<1>6. Proper(fetches', cards) /\ (Refresh(w, button) => Refresh(fetches', button))
  BY <1>2, <1>4, <1>5
<1> QED BY <1>2, <1>3, <1>6, TypePartsNext

\* One case per group of actions.
LEMMA Step ==
  ASSUME TypeOK, [Next]_vars
  PROVE  TypeOK' /\ (Refresh(fetches, button) => Refresh(fetches', button'))
<1>1. PageTyped /\ Proper(fetches, cards)
  BY TypeParts
<1> USE DEF serverVars, pageVars
<1>2. CASE UNCHANGED vars
  BY <1>1, <1>2, TypePartsNext DEF vars, PageTyped
<1>3. CASE ButtonTimer
  <2>1. PageTyped' /\ UNCHANGED <<cards, fetches>> /\ button = "done"
    BY <1>1, <1>3 DEF ButtonTimer, PageTyped
  <2> QED BY <1>1, <2>1, TypePartsNext DEF Refresh
<1>4. CASE PollAll \/ \E s \in Servers : ChangedElsewhere(s)
  <2>1. PageTyped' /\ UNCHANGED <<cards, button, fetches>>
    BY <1>1, <1>4, DashboardAssumption DEF PollAll, ChangedElsewhere, PageTyped, Version, Rows
  <2> QED BY <1>1, <2>1, TypePartsNext
<1> QED
  BY <1>2, <1>3, <1>4, UserStep, HandleStep, ServersStep, SessionsStep, OtherStep
  DEF Next, Progress, Deliver

\* Nothing is in flight before the login.
LEMMA Start == Init => TypeOK /\ Refresh(fetches, button)
<1> SUFFICES ASSUME Init PROVE TypeOK /\ Refresh(fetches, button)
  OBVIOUS
<1>1. PageTyped
  BY DashboardAssumption DEF Init, PageTyped, Version
<1>2. Bag(fetches) /\ DOMAIN fetches = {}
  BY DEF Init, EmptyBag, SetToBag, Bag
<1>3. Proper(fetches, cards) /\ Refresh(fetches, button)
  BY <1>2 DEF Proper, Refresh, Single, Refreshing
<1> QED BY <1>1, <1>3, TypeParts

\* Every variable keeps its type; a request in flight that holds a container on the page
\* belongs to a card that is shown, since a new rendering replaces the containers
\* (app.js renderServers), and refreshDashboard's loop has only expanded servers to visit.
THEOREM TypeCorrect == Spec => []TypeOK
<1>1. TypeOK /\ [Next]_vars => TypeOK'
  BY Step
<1> QED BY Start, <1>1, PTL DEF Spec

\* However the answers, failures, renderings and clicks interleave, at most one request of
\* a refresh is in flight, and none once the button can be clicked (app.js refreshDashboard):
\* the disabled button is lock enough, for any number of servers, clicks and faults.
THEOREM RefreshesStayApart == Spec => []OneRefresh
<1>1. TypeOK /\ Refresh(fetches, button) /\ [Next]_vars => (TypeOK /\ Refresh(fetches, button))'
  BY Step
<1>2. Refresh(fetches, button) => OneRefresh
  <2> SUFFICES ASSUME Refresh(fetches, button) PROVE OneRefresh
    OBVIOUS
  <2>1. Refreshing(fetches) = {r \in InFlight : r.by = "refresh"}
    BY DEF Refreshing, InFlight, BagToSet
  <2>2. CASE Refreshing(fetches) = {}
    BY <2>1, <2>2, FS_EmptySet DEF OneRefresh
  <2>3. ASSUME NEW r \in Refreshing(fetches) PROVE OneRefresh
    <3>1. Refreshing(fetches) = {r} /\ fetches[r] = 1 /\ button \in {"loading", "looping"}
      BY <2>3 DEF Refresh, Single
    <3>2. Cardinality({r}) = 1
      BY FS_Singleton
    <3> QED BY <2>1, <3>1, <3>2 DEF OneRefresh
  <2> QED BY <2>2, <2>3
<1> QED BY Start, <1>1, <1>2, PTL DEF Spec
=============================================================================
