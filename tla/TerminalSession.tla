--------------------------- MODULE TerminalSession ---------------------------
(***************************************************************************)
(* What a terminal promises, without its goroutines: it is opened, may be  *)
(* attached to a session, is released only after one of its two ends is    *)
(* gone, and is then always released.                                      *)
(***************************************************************************)
VARIABLES
  phase,  \* of the handler
  ended   \* one of the two ends is gone

vars == <<phase, ended>>

Init == phase = "new" /\ ended = FALSE

Refuse == phase = "new" /\ phase' = "over" /\ UNCHANGED ended
Open == phase = "new" /\ phase' = "opening" /\ UNCHANGED ended
Attach == phase = "opening" /\ phase' = "attached" /\ UNCHANGED ended
Fail == phase = "opening" /\ phase' = "over" /\ ended' = TRUE
EndDisappears == phase \in {"opening", "attached"} /\ ~ended /\ ended' = TRUE /\ UNCHANGED phase
Release == phase = "attached" /\ ended /\ phase' = "over" /\ UNCHANGED ended
Crash == phase \in {"attached", "over"} /\ phase' = "crashed" /\ UNCHANGED ended

Next == Refuse \/ Open \/ Attach \/ Fail \/ EndDisappears \/ Release \/ Crash

\* What may happen, and what has to.
SafeSpec == Init /\ [][Next]_vars
Spec == SafeSpec /\ WF_vars(Attach \/ Fail) /\ WF_vars(Release)
=============================================================================
