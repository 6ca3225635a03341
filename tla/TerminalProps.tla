---------------------------- MODULE TerminalProps ----------------------------
(***************************************************************************)
(* What the two ways of using a terminal promise together: the session a   *)
(* user looks at and the command an Agent waits for. They share no state.  *)
(***************************************************************************)
EXTENDS TerminalStream, TerminalExec

(* Somebody who looks at a terminal sees all of it, and the Agent is told   *)
(* how its command went, live and in the result.                            *)
TerminalIsTrue == EndedViewIsWhole /\ ResultIsTrue /\ LiveIsResult /\ StopIsHeard
=============================================================================
