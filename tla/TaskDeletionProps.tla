------------------------- MODULE TaskDeletionProps -------------------------
(* What deleting parts of the tree must keep true of the rest of it.       *)
EXTENDS TaskDeletion

(* Every variable keeps its type: rows, actors and requests.               *)
DeletionTypeOK ==
  /\ row \in [Tasks \cup {Workspace} -> {"absent", "live", "gone"}]
  /\ origin \in [Tasks -> Tasks \cup {NoTask}]
  /\ hasRun \subseteq Tasks /\ mail \subseteq Live
  /\ space \subseteq Tasks /\ tombstones \subseteq Tasks
  /\ loop \in [Tasks -> {"none", "running", "stopped"}]
  /\ stopping \subseteq Tasks /\ busy \subseteq Tasks /\ lost \subseteq Tasks
  /\ gen \in [Tasks -> Nat]
  /\ creation \in [Tasks -> Tasks \cup {NoTask}]
  /\ gate \in Deleters \cup {NoTask}
  /\ \A d \in Deleters : del[d].at \in Stages /\ del[d].stopped \subseteq Tasks

(* The tree stays whole: the Task that owns a child exists, and so does the *)
(* source that a fork names, however deletions, delegations and forks       *)
(* interleave (delete_task_tree_in_session collects inside its transaction  *)
(* and hangs the forks of what it deletes elsewhere).                       *)
TreeStaysWhole ==
  \A t \in Live :
    /\ Owner[t] # NoTask => Owner[t] \in Live
    /\ origin[t] # NoTask => origin[t] \in Live

(* A Task that exists has one loop to schedule it and never two: a rollback *)
(* replaces only actors that were stopped (restart_stopped).                *)
OneLoopPerTask == \A t \in Live : t \notin lost

(* The Tasks that a request is stopping or has stopped.                     *)
Held == UNION {del[d].stopped \cup del[d].found : d \in Deleters}

(* A Task that survives a deletion that failed gets its scheduler back      *)
(* (delete_task_tree: it must not be left without one), unless the client   *)
(* of a request went away.                                                  *)
SurvivorsAreScheduled ==
  \A t \in Live \cap space : loop[t] = "stopped" => t \in Held \cup stranded

(* Deletions leave nothing that belongs to nobody: no Task of a Task that   *)
(* is gone, no survivor without its scheduler.                              *)
TreeIsSound == TreeStaysWhole /\ SurvivorsAreScheduled

(* What a deletion deletes it has stopped before (delete_task: the caller   *)
(* has stopped the actors of this tree; delete_task_tree: the Tasks deleted *)
(* are those that were stopped).                                            *)
DeletesOnlyStopped ==
  [][\A d \in Deleters : DelCommits(d) => Targets(d) \cap busy = {}]_deletionVars

(* A request to delete comes to an end: the collecting and stopping stops   *)
(* growing although tools create children and other requests delete.        *)
DeletionEnds == \A d \in Deleters : del[d].at = "collect" ~> del[d].at = "done"
=============================================================================
