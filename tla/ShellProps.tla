------------------------------ MODULE ShellProps ------------------------------
(***************************************************************************)
(* What a session promises to those who type into it and look at it: the   *)
(* queue of inputs in the backend, and the worker that runs the shell.     *)
(* They share no state.                                                    *)
(***************************************************************************)
EXTENDS TerminalInput, TerminalWorker

(* What is typed into a terminal reaches the shell once, a command is the   *)
(* Agent's or the user's, and the screen has told all there was before the  *)
(* end, after which nothing of the terminal is left.                        *)
ShellIsSound ==
  AppliedOnce /\ CommandIsAttributed /\ ScreenIsTold /\ ExitIsLast /\ EndIsClean

=============================================================================
