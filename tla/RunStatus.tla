------------------------------- MODULE RunStatus -------------------------------
(***************************************************************************)
(* The life cycle of a Run (models/enums/conversation_run_status.py): the  *)
(* statuses, the table of named transitions and the derived status sets.   *)
(***************************************************************************)

Statuses == {"running", "suspended", "completed", "failed", "cancelled"}

Active        == {"running", "suspended"}     \* ACTIVE_RUN_STATUSES
(* Mutant of ContinueAfter: a suspended Run is not looked at again.        *)
ContinueAfterCompleted == {"completed"}

ContinueAfter == {"completed", "suspended"}   \* CONTINUE_AFTER_STATUSES

(* RunTransition: the statuses a transition starts from and the one it sets. *)
RunTransition ==
  [SUSPEND  |-> [from |-> {"running"},             to |-> "suspended"],
   WAKE     |-> [from |-> {"suspended"},           to |-> "running"],
   RESUME   |-> [from |-> {"cancelled", "failed"}, to |-> "running"],
   COMPLETE |-> [from |-> {"running"},             to |-> "completed"],
   FAIL     |-> [from |-> {"running"},             to |-> "failed"],
   CANCEL   |-> [from |-> {"running", "suspended"}, to |-> "cancelled"]]

Transitions == {"SUSPEND", "WAKE", "RESUME", "COMPLETE", "FAIL", "CANCEL"}

(* ConversationRunLedger.transition: one conditional update. Outside the   *)
(* source statuses the row keeps its status and the caller is told so.     *)
Applies(t, st) == st \in RunTransition[t].from

(* Mutant of After: the update has no condition.                           *)
AfterAnyStatus(t, st) == RunTransition[t].to

After(t, st) == IF Applies(t, st) THEN RunTransition[t].to ELSE st

=============================================================================
