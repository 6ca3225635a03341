----------------------------- MODULE RunLifecycle -----------------------------
(***************************************************************************)
(* What a Task promises about its Runs, with no actor, queue or executor:  *)
(* Runs are opened one after the other, a Run is opened only when the one  *)
(* before it no longer holds the Task, and only the latest Run ever        *)
(* changes status, along the transition table.                             *)
(***************************************************************************)
EXTENDS Naturals, RunStatus

CONSTANT MaxRun      \* bound on the number of Runs

VARIABLES status,    \* status of every opened Run, "none" before it exists
          current    \* tasks.current_run_id: the latest Run, 0 when none

vars == <<status, current>>

Runs == 1..MaxRun

TypeOK == /\ status \in [Runs -> Statuses \cup {"none"}]
          /\ current \in 0..MaxRun
          /\ \A r \in Runs : status[r] = "none" <=> r > current

Init == /\ status = [r \in Runs |-> "none"]
        /\ current = 0

(* create_run: the new Run is running and becomes the current one.         *)
Open == /\ current < MaxRun
        /\ current # 0 => status[current] \notin Active
        /\ current' = current + 1
        /\ status' = [status EXCEPT ![current + 1] = "running"]

(* transition: any named transition of the current Run.                    *)
Transit(t) == /\ current # 0
              /\ Applies(t, status[current])
              /\ status' = [status EXCEPT ![current] = RunTransition[t].to]
              /\ UNCHANGED current

Next == Open \/ \E t \in Transitions : Transit(t)

Spec == Init /\ [][Next]_vars

(***************************************************************************)
(* At most one Run of a Task is running or suspended: ACTIVE_RUN_STATUSES  *)
(* "still hold the execution right of the Task".                           *)
(***************************************************************************)
AtMostOneActive ==
  \A r, s \in Runs : status[r] \in Active /\ status[s] \in Active => r = s

=============================================================================
