---------------------------- MODULE TerminalBridge ----------------------------
(***************************************************************************)
(* One terminal (internal/terminal/bridge.go): the handler and the four    *)
(* goroutines it starts, between a WebSocket and an SSH session. The two   *)
(* ends may go away at any step. ws, ssh and the rule that a second        *)
(* concurrent WriteMessage panics stand for gorilla/websocket and          *)
(* x/crypto/ssh, as the bridge uses them.                                  *)
(***************************************************************************)
EXTENDS Integers, TerminalState

vars == <<main, out, inp, waiter, watcher, done, ws, closeSent, writing, ssh, buffered,
          idle, gauge, audit, panicked, crashed>>
wsVars == <<ws, closeSent, writing, panicked, crashed>>
sshVars == <<ssh, buffered>>
goVars == <<out, inp, waiter, watcher>>
bookVars == <<gauge, audit>>

Writers == {"main", "out", "watcher"}

Init ==
  /\ main = "start" /\ out = "off" /\ inp = "off" /\ waiter = "off" /\ watcher \in {"off", "none"}
  /\ done = FALSE
  /\ ws = "none" /\ closeSent = FALSE /\ writing = {}
  /\ ssh = "none" /\ buffered = FALSE
  /\ idle = FALSE
  /\ gauge = 0 /\ audit = <<>>
  /\ panicked = FALSE /\ crashed = FALSE
-----------------------------------------------------------------------------
\* WriteMessage is not synchronised. Of two calls that overlap, none or either one may
\* panic: nobody recovers a panic of out or watcher, net/http one of the handler. The
\* handler goes on at label unless it is its call that panics.
BeginWrite(w, label) ==
  /\ \/ /\ writing' = writing \cup {w}
        /\ crashed' \in IF writing = {} THEN {FALSE} ELSE BOOLEAN
        /\ main' = label
        /\ UNCHANGED panicked
     \/ /\ writing # {} /\ "main" \in writing \cup {w}
        /\ writing' = (writing \cup {w}) \ {"main"}
        /\ panicked' = TRUE
        /\ main' = "return"
        /\ UNCHANGED crashed
  /\ UNCHANGED <<ws, closeSent>>

WriteFails == ws # "open" \/ closeSent
EndWrite(w) == writing' = writing \ {w} /\ UNCHANGED <<ws, panicked, crashed>>

\* sshSession.Close; repeated calls have no effect.
CloseSSH == ssh' = (IF ssh = "open" THEN "closing" ELSE ssh) /\ UNCHANGED buffered
-----------------------------------------------------------------------------
\* Invalid name, unknown server or failed upgrade: nothing was acquired.
Reject ==
  /\ main = "start"
  /\ main' = "end"
  /\ UNCHANGED <<goVars, done, wsVars, sshVars, idle, bookVars>>

Upgrade ==
  /\ main = "start"
  /\ main' = "session"
  /\ ws' = "open"
  /\ gauge' = gauge + 1
  /\ audit' = <<"connect">>
  /\ UNCHANGED <<goVars, done, closeSent, writing, panicked, crashed, sshVars, idle>>

\* pool.Session; on an error the handler writes a message and returns.
PoolSession ==
  /\ main = "session"
  /\ \/ ssh' = "open" /\ main' = "attach"
     \/ ssh' = ssh /\ main' = "return"
  /\ UNCHANGED <<goVars, done, wsVars, buffered, idle, bookVars>>

\* RequestPty, the pipes and Start; then the goroutines.
Attach ==
  /\ main = "attach"
  /\ \/ /\ ssh = "open"
        /\ main' = "select"
        /\ out' = "read" /\ inp' = "read" /\ waiter' = "wait"
        /\ watcher' = IF watcher = "none" THEN "none" ELSE "tick"
        /\ idle' = FALSE
     \/ /\ main' = "return"
        /\ UNCHANGED <<goVars, idle>>
  /\ UNCHANGED <<done, wsVars, sshVars, bookVars>>

\* The select: sshDone is the only case that can become ready, done is closed on return.
SSHDone ==
  /\ main = "select" /\ waiter = "done"
  /\ BeginWrite("main", "closing")
  /\ UNCHANGED <<goVars, done, sshVars, idle, bookVars>>

CloseFrame ==
  /\ main = "closing"
  /\ EndWrite("main")
  /\ closeSent' = (closeSent \/ ws = "open")
  /\ main' = "close"
  /\ UNCHANGED <<goVars, done, sshVars, idle, bookVars>>

CloseWS ==
  /\ main = "close"
  /\ ws' = "closed"
  /\ main' = "wait"
  /\ UNCHANGED <<goVars, done, closeSent, writing, panicked, crashed, sshVars, idle, bookVars>>

\* Mutant: wg.Wait is missing.
WaitSkipped ==
  /\ main = "wait"
  /\ main' = "return"
  /\ UNCHANGED <<goVars, done, wsVars, sshVars, idle, bookVars>>


Wait ==
  /\ main = "wait" /\ out = "done" /\ inp = "done"
  /\ main' = "return"
  /\ UNCHANGED <<goVars, done, wsVars, sshVars, idle, bookVars>>

\* Mutant: done is not closed.
ReleaseSSHOnly ==
  /\ main = "return"
  /\ CloseSSH
  /\ main' = "deferred"
  /\ UNCHANGED <<goVars, done, wsVars, idle, bookVars>>

\* The deferred calls, last one first: sshSession.Close and close(done), then the audit
\* entry, the gauge and ws.Close.
ReleaseSSH ==
  /\ main = "return"
  /\ CloseSSH
  /\ done' = TRUE
  /\ main' = "deferred"
  /\ UNCHANGED <<goVars, wsVars, idle, bookVars>>

ReleaseWS ==
  /\ main = "deferred"
  /\ audit' = Append(audit, "disconnect")
  /\ gauge' = gauge - 1
  /\ ws' = "closed"
  /\ main' = "end"
  /\ UNCHANGED <<goVars, done, closeSent, writing, panicked, crashed, sshVars, idle>>
-----------------------------------------------------------------------------
\* stdout.Read: output while the channel is open, what is buffered after it ended, EOF.
ReadOutput ==
  /\ out = "read"
  /\ \/ ssh \in {"open", "closing"} \/ buffered
  /\ buffered' = FALSE
  /\ out' = "write"
  /\ BeginWrite("out", main)
  /\ UNCHANGED <<inp, waiter, watcher, done, ssh, idle, bookVars>>

OutputEOF ==
  /\ out = "read" /\ ssh = "ended" /\ ~buffered
  /\ out' = "done"
  /\ UNCHANGED <<main, inp, waiter, watcher, done, wsVars, sshVars, idle, bookVars>>

WriteOutput ==
  /\ out = "write"
  /\ EndWrite("out")
  /\ IF WriteFails THEN out' = "done" /\ UNCHANGED idle
                   ELSE out' = "read" /\ idle' = FALSE
  /\ UNCHANGED <<main, inp, waiter, watcher, done, closeSent, sshVars, bookVars>>

\* ws.ReadMessage returned keystrokes; a resize changes nothing here.
ReadInput ==
  /\ inp = "read" /\ ws = "open"
  /\ inp' = "write"
  /\ UNCHANGED <<main, out, waiter, watcher, done, wsVars, sshVars, idle, bookVars>>

\* Mutant: the goroutine returns without closing the SSH session.
InputClosedLeaks ==
  /\ inp = "read" /\ ws \in {"broken", "closed"}
  /\ inp' = "done"
  /\ UNCHANGED <<main, out, waiter, watcher, done, wsVars, sshVars, idle, bookVars>>


InputClosed ==
  /\ inp = "read" /\ ws \in {"broken", "closed"}
  /\ CloseSSH
  /\ inp' = "done"
  /\ UNCHANGED <<main, out, waiter, watcher, done, wsVars, idle, bookVars>>

\* stdin.Write blocks while the SSH window is full; it ends when the host reads, or with
\* an error, on which the goroutine returns and leaves both ends open.
StdinAccepted ==
  /\ inp = "write" /\ ssh = "open"
  /\ inp' = "read" /\ idle' = FALSE
  /\ UNCHANGED <<main, out, waiter, watcher, done, wsVars, sshVars, bookVars>>

StdinFails ==
  /\ inp = "write" /\ ssh # "open"
  /\ inp' = "done"
  /\ UNCHANGED <<main, out, waiter, watcher, done, wsVars, sshVars, idle, bookVars>>

WaitReturns ==
  /\ waiter = "wait" /\ ssh = "ended"
  /\ waiter' = "done"
  /\ UNCHANGED <<main, out, inp, watcher, done, wsVars, sshVars, idle, bookVars>>
-----------------------------------------------------------------------------
\* A tick of the watcher: it returns if done is closed, else looks at lastActivity.
WatcherDone ==
  /\ watcher = "tick" /\ done
  /\ watcher' = "done"
  /\ UNCHANGED <<main, out, inp, waiter, done, wsVars, sshVars, idle, bookVars>>

WatcherFires ==
  /\ watcher = "tick" /\ idle
  /\ watcher' = "notify"
  /\ BeginWrite("watcher", main)
  /\ UNCHANGED <<out, inp, waiter, done, sshVars, idle, bookVars>>

WatcherNotified ==
  /\ watcher = "notify"
  /\ EndWrite("watcher")
  /\ watcher' = "farewell"
  /\ UNCHANGED <<main, out, inp, waiter, done, closeSent, sshVars, idle, bookVars>>

WatcherFarewell ==
  /\ watcher = "farewell"
  /\ BeginWrite("watcher", main)
  /\ watcher' = "frame"
  /\ UNCHANGED <<out, inp, waiter, done, sshVars, idle, bookVars>>

WatcherFrame ==
  /\ watcher = "frame"
  /\ EndWrite("watcher")
  /\ closeSent' = (closeSent \/ ws = "open")
  /\ watcher' = "close"
  /\ UNCHANGED <<main, out, inp, waiter, done, sshVars, idle, bookVars>>

\* Mutant: the watcher sends the close frame and leaves the rest to the browser.
WatcherOnlySends ==
  /\ watcher = "close"
  /\ watcher' = "done"
  /\ UNCHANGED <<main, out, inp, waiter, done, wsVars, sshVars, idle, bookVars>>


WatcherCloses ==
  /\ watcher = "close"
  /\ ws' = "closed"
  /\ watcher' = "done"
  /\ UNCHANGED <<main, out, inp, waiter, done, closeSent, writing, panicked, crashed, sshVars, idle, bookVars>>
-----------------------------------------------------------------------------
BrowserLeaves ==
  /\ ws = "open"
  /\ ws' = "broken"
  /\ UNCHANGED <<main, goVars, done, closeSent, writing, panicked, crashed, sshVars, idle, bookVars>>

\* tmux exits or detaches, the transport breaks or pool.Close runs ...
SSHEnds ==
  /\ ssh = "open"
  /\ ssh' = "ended" /\ buffered' \in BOOLEAN
  /\ UNCHANGED <<main, goVars, done, wsVars, idle, bookVars>>

\* ... or the host answers our close.
SSHAnswersClose ==
  /\ ssh = "closing"
  /\ ssh' = "ended" /\ buffered' \in BOOLEAN
  /\ UNCHANGED <<main, goVars, done, wsVars, idle, bookVars>>

TimePasses ==
  /\ main \notin {"start", "end"} /\ ~idle
  /\ idle' = TRUE
  /\ UNCHANGED <<main, goVars, done, wsVars, sshVars, bookVars>>
-----------------------------------------------------------------------------
Handler ==
  \/ Reject \/ Upgrade \/ PoolSession \/ Attach \/ SSHDone \/ CloseFrame \/ CloseWS \/ Wait
  \/ ReleaseSSH \/ ReleaseWS
Watcher ==
  \/ WatcherDone \/ WatcherFires \/ WatcherNotified \/ WatcherFarewell \/ WatcherFrame
  \/ WatcherCloses

Next ==
  /\ ~crashed
  /\ \/ Handler \/ ReadOutput \/ OutputEOF \/ WriteOutput
     \/ ReadInput \/ InputClosed \/ StdinAccepted \/ StdinFails
     \/ WaitReturns \/ Watcher
     \/ BrowserLeaves \/ SSHEnds \/ SSHAnswersClose \/ TimePasses

Spec == Init /\ [][Next]_vars

\* Go runs every runnable goroutine; a write to the browser completes or fails; the host
\* answers a close or TCP keepalive breaks the transport. The host also answers while the
\* terminal is set up: pool.Session, RequestPty and Start return, although none of them has a
\* deadline. Nothing obliges the user, the program in the terminal or the clock of the watcher.
Alive(A) == ~crashed /\ A
FairGoroutines ==
  /\ WF_vars(Alive(Handler))
  /\ WF_vars(Alive(OutputEOF \/ WriteOutput \/ (buffered /\ ReadOutput)))
  /\ WF_vars(Alive(InputClosed \/ StdinFails))
  /\ WF_vars(Alive(WaitReturns)) /\ WF_vars(Alive(Watcher))
  /\ WF_vars(Alive(SSHAnswersClose))

\* The host may stop reading its input for ever.
StallSpec == Spec /\ FairGoroutines

\* The host reads its input.
FairSpec == StallSpec /\ WF_vars(Alive(StdinAccepted))
-----------------------------------------------------------------------------
TypeOK ==
  /\ main \in {"start", "session", "attach", "select", "closing", "close", "wait", "return",
              "deferred", "end"}
  /\ out \in {"off", "read", "write", "done"} /\ inp \in {"off", "read", "write", "done"}
  /\ waiter \in {"off", "wait", "done"}
  /\ watcher \in {"none", "off", "tick", "notify", "farewell", "frame", "close", "done"}
  /\ ws \in {"none", "open", "broken", "closed"} /\ ssh \in {"none", "open", "closing", "ended"}
  /\ writing \subseteq Writers
  /\ done \in BOOLEAN /\ closeSent \in BOOLEAN /\ buffered \in BOOLEAN /\ idle \in BOOLEAN
  /\ panicked \in BOOLEAN /\ crashed \in BOOLEAN
  /\ gauge \in 0..1 /\ audit \in Seq({"connect", "disconnect"})

\* The terminal as module TerminalSession sees it: how far it is, and whether one of its
\* ends is gone.
Phase ==
  IF crashed THEN "crashed"
  ELSE IF main = "start" THEN "new"
  ELSE IF main = "end" THEN "over"
  ELSE IF out = "off" THEN "opening" ELSE "attached"
Ended == ws \in {"broken", "closed"} \/ ssh \in {"closing", "ended"}

\* The goroutines together implement the terminal of module TerminalSession.
Abstract == INSTANCE TerminalSession WITH phase <- Phase, ended <- Ended
ImplementsSession == Abstract!Spec
=============================================================================
