------------------------------ MODULE MCTaskActor ------------------------------
(* Finite instances of TaskActor for TLC. *)
EXTENDS TaskActorProps, TLC

CONSTANTS e1, e2

Class(kind, delivery, owned) == [kind |-> kind, delivery |-> delivery, owned |-> owned]

Now     == Class("user_input", "immediate", FALSE)
Later   == Class("user_input", "next_run", FALSE)
Result  == Class("background_result", "immediate", TRUE)
Verdict == Class("user_decision", "immediate", FALSE)

Nothing == [x \in Events |-> 0]

(* What others put, and the outside events of each run. *)
OneClass     == {Now}
InputClasses == {Now, Later}
AllClasses   == {Now, Later, Result, Verdict}

MessageBudget == [Nothing EXCEPT !["put"] = 3, !["withdraw"] = 1]
CommandBudget == [Nothing EXCEPT !["put"] = 2, !["user"] = 1, !["resume"] = 1, !["fail"] = 1]
ControlBudget == [[x \in Events |-> 1] EXCEPT !["put"] = 2, !["resume"] = 0,
                                           !["fail"] = 0, !["withdraw"] = 0]
LiveBudget    == [Nothing EXCEPT !["put"] = 2, !["user"] = 1]
PutBudget     == [Nothing EXCEPT !["put"] = 2]

Symmetry == Permutations(Execs)
=============================================================================
