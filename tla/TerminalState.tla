---------------------------- MODULE TerminalState ----------------------------
(***************************************************************************)
(* What one terminal consists of (internal/terminal/bridge.go): the        *)
(* program counters of its handler and goroutines, the two connections     *)
(* between which they copy, and what is asked of them in any interleaving. *)
(* The steps are in module TerminalBridge.                                 *)
(***************************************************************************)
EXTENDS Sequences

VARIABLES
  main,      \* HandleTerminal
  out,       \* goroutine SSH stdout -> WebSocket
  inp,       \* goroutine WebSocket -> SSH stdin
  waiter,    \* goroutine sshSession.Wait; sshDone is closed when it is "done"
  watcher,   \* idle timeout goroutine; "none" if b.idleTimeout is 0 and it is never started
  done,      \* the done channel is closed
  ws,        \* WebSocket; "broken": the browser is gone, reads and writes fail
  closeSent, \* a close frame was written: later writes fail
  writing,   \* goroutines inside ws.WriteMessage
  ssh,       \* SSH channel; "closing": closed here, the peer has not answered yet
  buffered,  \* output received before the channel ended and not read yet
  idle,      \* time.Since(lastActivity) >= idleTimeout
  gauge,     \* metrics.WebSocketConnectionsActive
  audit,     \* audit entries of this terminal
  panicked,  \* HandleTerminal panicked; net/http recovers it after the deferred calls
  crashed    \* another goroutine panicked: the process is gone
-----------------------------------------------------------------------------
\* When HandleTerminal has returned nothing of the terminal is left, on every path and
\* also after a recovered panic: the SSH session and the WebSocket are closed, the watcher
\* is told, the gauge is back and the two audit entries are paired (bridge.go:145-167).
\* Only a panic skips wg.Wait and leaves the copy goroutines behind (bridge.go:312-315).
ReleasedCompletely ==
  main = "end" =>
    /\ panicked \/ (out \in {"off", "done"} /\ inp \in {"off", "done"})
    /\ ssh \in {"none", "closing", "ended"} /\ ws \in {"none", "closed"}
    /\ gauge = 0 /\ Len(audit) \in {0, 2}
    /\ ws = "closed" => done

\* Whichever end goes away, the handler returns (the leak of prp-23:9): browser gone ->
\* ReadMessage fails -> SSH closed -> Wait returns -> handler returns. It rests on a host that
\* answers while the terminal is set up and that reads its input (FairSpec).
EndReleases ==
  (ws = "broken" \/ (main # "end" /\ ssh = "ended")) ~> (main = "end" \/ crashed)

\* No goroutine outlives the terminal for ever, the watcher and the ones a panic of the
\* handler leaves behind included (bridge.go:158, 167, 218, 257, 273).
GoroutinesEnd ==
  (main = "end") ~> ({out, inp, waiter, watcher} \subseteq {"none", "off", "done"} \/ crashed)

\* An attached terminal without activity is released, on a host that reads its input
\* (bridge.go:222-231).
IdleIsReleased ==
  (main = "select" /\ watcher # "none" /\ idle) ~> (~idle \/ main = "end" \/ crashed)

\* "Automatically close idle WebSocket terminal connections to free SSH sessions"
\* (prp-18:4): once the watcher has closed the WebSocket, the SSH session is freed.
IdleFreesSSH == (main = "select" /\ watcher = "done") ~> (ssh # "open" \/ crashed)

\* "Close WebSocket to signal disconnect to browser" (bridge.go:311): the end of a
\* session closes one WebSocket; it does not take the process with it.
DisconnectIsClean == ~crashed
=============================================================================
