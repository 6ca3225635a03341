------------------------------ MODULE TeamRun ------------------------------
(***************************************************************************)
(* One Agent Team, from the plan a Run proposes to the conclusion its call *)
(* gets: the row of the TeamRun, which every writer updates on a condition *)
(* (agent_team_run_crud.py), the tool that confirms the plan               *)
(* (agent_team_run_approval.py), the execution that drives the node on the *)
(* event loop (team_coordinator.py), and whoever stops it: the user, the   *)
(* parent Task, a deletion, the shutdown. The Task of the node is an actor *)
(* seen from outside: messages go in, Runs come out, and users write to it *)
(* as to any Task. TaskActor has its inside.                               *)
(***************************************************************************)
EXTENDS Integers, Sequences

CONSTANTS NoStop,
          MaxRounds,   \* AgentTeamConfiguration.max_runs
          MaxTalk,     \* bound: messages users send to the node
          ActorFails   \* whether an advance of the node's actor may fail once

ASSUME TeamAssumption ==
  /\ MaxRounds \in Nat \ {0} /\ MaxTalk \in Nat /\ ActorFails \in BOOLEAN
  /\ NoStop \notin {"cancelled", "parent_cancelled", "runtime_restarted"}

VARIABLES
  teamRow,    \* status of the TeamRun
  archive,    \* the status the archive file tells, or "none"
  approval,   \* the tool call: "none", "waiting", "confirmed", "staged", "done"
  execAt,         \* where the execution is
  ready,      \* _TeamExecution.ready
  stop,       \* _TeamExecution.stop_reason
  poked,      \* whether _TeamExecution.changed was set since it was taken
  round,
  nodeRun,    \* node_run_id of this visit, 0 for None
  known,      \* the latest Run in conversation_run_ids
  cancelSent,
  reported,       \* the status in the conclusion that was delivered, or "none"
  nodeRuns,   \* statuses of the Runs of the node's Task, in order
  nodeMail,   \* unconfirmed messages no advance has judged: of the "team", of a "user"
  nodePosted, \* unconfirmed messages the latest Run was opened with
  nodeLate,   \* unconfirmed messages that were posted to it later
  driven,     \* whether the latest Run has an executor
  nodeSignal,     \* whether that executor was told to stop
  halted,     \* the node's actor: "no", "stopping", "stopped"
  news,       \* whether state_changed was set since it was taken
  served,     \* the Run that took the input of the Team while it was awaited
  talk,       \* how many messages users sent
  failed,     \* whether an advance has failed
  parentStop, \* cancel_for_parent_task: "no", "cancels" or "tracked" (between its halves), "done"
  closing     \* AgentTeamCoordinator._closing

execVars == <<execAt, ready, stop, poked, round, nodeRun, known, cancelSent, reported>>
nodeVars == <<nodeRuns, nodeMail, nodePosted, nodeLate, driven, nodeSignal, halted, news, served, talk, failed>>
rowVars  == <<teamRow, archive>>
teamVars == <<rowVars, approval, execVars, nodeVars, parentStop, closing>>

Terminal   == {"completed", "failed", "cancelled"}
TeamActive == {"pending", "running"}
TeamStages     == {"none", "ready", "top", "enqueue", "reads", "acts", "judges", "sleeps",
               "leaves", "result", "broken", "finish", "deliver", "over"}
InActive   == execAt \notin {"none", "over"}      \* the execution is in _active
Waiting    == {"reads", "acts", "judges", "sleeps"}
Listening  == execAt \in {"acts", "judges", "sleeps"}   \* it holds the events of the wait

TeamInit ==
  /\ teamRow = "none" /\ archive = "none" /\ approval = "none"
  /\ execAt = "none" /\ ready = FALSE /\ stop = NoStop /\ poked = FALSE
  /\ round = 0 /\ nodeRun = 0 /\ known = 0 /\ cancelSent = FALSE /\ reported = "none"
  /\ nodeRuns = <<>> /\ nodeMail = {} /\ nodePosted = {} /\ nodeLate = {}
  /\ driven = FALSE /\ nodeSignal = FALSE /\ halted = "no" /\ news = FALSE
  /\ served = 0 /\ talk = 0 /\ failed = FALSE
  /\ parentStop = "no" /\ closing = FALSE

(* update_status_if_in: the row moves only from the statuses allowed.       *)
MovedRow(to, from) == IF teamRow \in from THEN to ELSE teamRow

-----------------------------------------------------------------------------
(* create_pending_confirmation *)
AwaitsConfirmation == approval' = "waiting" /\ teamRow' = "pending"

(* The tool call.                                                           *)
Proposes ==
  /\ approval = "none"
  /\ AwaitsConfirmation
  /\ UNCHANGED <<archive, execVars, nodeVars, parentStop, closing>>

(* The plan is rejected, superseded by a new one, or no longer valid.       *)
Declines(to) ==
  /\ approval = "waiting"
  /\ teamRow' = MovedRow(to, {"pending"})
  /\ approval' = "done"
  /\ UNCHANGED <<archive, execVars, nodeVars, parentStop, closing>>

(* confirm: only a pending plan starts to run.                              *)
Approves ==
  /\ approval = "waiting"
  /\ teamRow' = MovedRow("running", {"pending"})
  /\ approval' = IF teamRow = "pending" THEN "confirmed" ELSE "done"
  /\ UNCHANGED <<archive, execVars, nodeVars, parentStop, closing>>

(* _stage: the execution is created and registered on the event loop.       *)
Staged ==
  /\ approval = "confirmed" /\ ~closing
  /\ approval' = "staged" /\ execAt' = "ready"
  /\ UNCHANGED <<rowVars, ready, stop, poked, round, nodeRun, known, cancelSent, reported,
                 nodeVars, parentStop, closing>>

(* prepare_background: the registration fails, always when the backend      *)
(* shuts down.                                                              *)
StageRefused ==
  /\ approval = "confirmed"
  /\ approval' = "done"
  /\ teamRow' = MovedRow("failed", {"running"})
  /\ archive' = teamRow'
  /\ UNCHANGED <<execVars, nodeVars, parentStop, closing>>

(* after_commit: the receipt of the call is stored.                         *)
Receipt ==
  /\ approval = "staged"
  /\ approval' = "done" /\ ready' = TRUE
  /\ UNCHANGED <<rowVars, execAt, stop, poked, round, nodeRun, known, cancelSent, reported,
                 nodeVars, parentStop, closing>>

-----------------------------------------------------------------------------
(* Stops. request_stop keeps the first reason.                              *)

RequestStop(reason, withdrawn) ==
  /\ stop' = IF stop = NoStop THEN reason ELSE stop
  /\ poked' = Listening
  /\ ready' = (ready \/ withdrawn)

Stops(reason, withdrawn) ==
  /\ InActive
  /\ RequestStop(reason, withdrawn)
  /\ UNCHANGED <<rowVars, approval, execAt, round, nodeRun, known, cancelSent, reported,
                 nodeVars, parentStop, closing>>

UserStopsTeam == stop = NoStop /\ Stops("cancelled", FALSE)

(* The Run of the call failed, or its call was edited away, before or after *)
(* the receipt.                                                             *)
Withdrawn ==
  /\ stop = NoStop /\ approval = "staged"
  /\ Stops("cancelled", TRUE)

(* cancel_for_parent_task: what is executing is told to stop; what is not   *)
(* yet is cancelled by a worker thread afterwards.                          *)
ParentStops ==
  /\ parentStop = "no" /\ teamRow # "none"
  /\ IF InActive
     THEN parentStop' = "tracked" /\ RequestStop("parent_cancelled", TRUE)
     ELSE parentStop' = "cancels" /\ UNCHANGED <<stop, poked, ready>>
  /\ UNCHANGED <<rowVars, approval, execAt, round, nodeRun, known, cancelSent, reported,
                 nodeVars, closing>>

ParentCancels ==
  /\ parentStop \in {"tracked", "cancels"}
  /\ parentStop' = "done"
  /\ teamRow' = IF parentStop = "cancels" THEN MovedRow("cancelled", TeamActive) ELSE teamRow
  /\ archive' = IF teamRow' # teamRow THEN teamRow' ELSE archive
  /\ UNCHANGED <<approval, execVars, nodeVars, closing>>

(* aclose: later stagings are refused and every execution is stopped.       *)
Closes ==
  /\ ~closing /\ closing' = TRUE
  /\ IF InActive THEN RequestStop("runtime_restarted", TRUE) ELSE UNCHANGED <<stop, poked, ready>>
  /\ UNCHANGED <<rowVars, approval, execAt, round, nodeRun, known, cancelSent, reported,
                 nodeVars, parentStop>>

(* A deletion stops the node's actor (TaskActor.stop), and drains.          *)
NodeHalting ==
  /\ halted = "no" /\ teamRow # "none"
  /\ halted' = "stopping" /\ nodeSignal' = (nodeSignal \/ driven)
  /\ UNCHANGED <<rowVars, approval, execVars, nodeRuns, nodeMail, nodePosted, nodeLate, driven, news,
                 served, talk, failed, parentStop, closing>>

NodeHalts ==
  /\ halted = "stopping" /\ ~driven
  /\ halted' = "stopped" /\ news' = Listening
  /\ UNCHANGED <<rowVars, approval, execVars, nodeRuns, nodeMail, nodePosted, nodeLate, driven, nodeSignal,
                 served, talk, failed, parentStop, closing>>

DeletionDrains ==
  /\ halted = "stopped" /\ stop = NoStop
  /\ Stops("cancelled", TRUE)

-----------------------------------------------------------------------------
(* The Task of the node.                                                    *)

Unconfirmed == nodeMail \cup nodePosted \cup nodeLate

Latest     == Len(nodeRuns)
LatestIs   == IF nodeRuns = <<>> THEN "none" ELSE nodeRuns[Latest]
NodeIdle   == ~driven /\ LatestIs # "suspended"

(* _quiescent: idle, and no message that would still move the Task.         *)
Quiescent ==
  /\ halted # "stopped" /\ NodeIdle
  /\ nodeMail = {}
  /\ nodePosted \cup nodeLate = {} \/ LatestIs \notin {"none", "completed"}

NodeStep == UNCHANGED <<rowVars, approval, execVars, parentStop, closing>>

UserTalks ==
  /\ talk < MaxTalk /\ execAt # "none" /\ "user" \notin Unconfirmed
  /\ talk' = talk + 1
  /\ nodeMail' = nodeMail \cup {"user"}
  /\ failed' = FALSE
  /\ NodeStep
  /\ UNCHANGED <<nodeRuns, nodePosted, nodeLate, driven, nodeSignal, halted, news, served>>

(* The loop judges what is new: a Run is opened or woken for it, and what a *)
(* Run can take is in its mailbox.                                          *)
NodeAdvances ==
  /\ halted = "no" /\ nodeMail # {} /\ ~failed
  /\ ~(driven /\ nodeSignal)
  /\ nodeMail' = {}
  /\ nodePosted' = IF driven THEN nodePosted ELSE Unconfirmed
  /\ nodeLate' = IF driven THEN nodeLate \cup nodeMail ELSE {}
  /\ nodeRuns' = IF driven THEN nodeRuns
                 ELSE IF LatestIs = "suspended" THEN [nodeRuns EXCEPT ![Latest] = "running"]
                 ELSE Append(nodeRuns, "running")
  /\ driven' = TRUE /\ news' = Listening
  /\ NodeStep
  /\ UNCHANGED <<nodeSignal, halted, served, talk, failed>>

(* The advance fails, and nothing calls the loop again before a message.    *)
NodeAdvanceFails ==
  /\ ActorFails /\ ~failed
  /\ halted = "no" /\ nodeMail # {} /\ NodeIdle
  /\ failed' = TRUE /\ news' = Listening
  /\ NodeStep
  /\ UNCHANGED <<nodeRuns, nodeMail, nodePosted, nodeLate, driven, nodeSignal, halted, served, talk>>

(* The Run takes a message into its context and confirms it.                *)
NodeTakes(m) ==
  /\ driven /\ ~nodeSignal /\ m \in nodePosted \cup nodeLate
  /\ nodePosted' = nodePosted \ {m} /\ nodeLate' = nodeLate \ {m}
  /\ served' = IF m = "team" /\ execAt # "leaves" THEN Latest ELSE served
  /\ NodeStep
  /\ UNCHANGED <<nodeRuns, nodeMail, driven, nodeSignal, halted, news, talk, failed>>

(* The execution ends. A Run that completes or suspends has taken what it   *)
(* was opened with; what came too late for one that completed opens another.*)
NodeEnds(outcome) ==
  /\ driven
  /\ outcome = "cancelled" <=> nodeSignal
  /\ outcome \in {"completed", "suspended"} => nodePosted = {}
  /\ outcome = "suspended" => nodeLate = {}
  /\ LET goesOn == outcome = "completed" /\ nodeLate # {}
         ended == [nodeRuns EXCEPT ![Latest] = outcome]
     IN /\ nodeRuns' = IF goesOn THEN Append(ended, "running") ELSE ended
        /\ driven' = goesOn
        /\ nodePosted' = IF goesOn THEN nodeLate ELSE nodePosted
        /\ nodeLate' = IF goesOn THEN {} ELSE nodeLate
  /\ nodeSignal' = FALSE /\ news' = Listening
  /\ NodeStep
  /\ UNCHANGED <<nodeMail, halted, served, talk, failed>>

(* TaskActor.cancel: an executor is told, a suspended Run is cancelled.     *)
CancelledIfSuspended ==
  IF LatestIs = "suspended" THEN [nodeRuns EXCEPT ![Latest] = "cancelled"] ELSE nodeRuns

CancelNode == nodeSignal' = (nodeSignal \/ driven) /\ nodeRuns' = CancelledIfSuspended

-----------------------------------------------------------------------------
(* The execution. *)

ExecReady ==
  /\ execAt = "ready" /\ ready
  /\ execAt' = "top"
  /\ UNCHANGED <<rowVars, approval, ready, stop, poked, round, nodeRun, known, cancelSent, reported,
                 nodeVars, parentStop, closing>>

(* The head of the loop of _drive.                                          *)
ExecTop ==
  /\ execAt = "top"
  /\ LET goesOn == stop = NoStop /\ teamRow = "running" IN
     /\ teamRow' = IF goesOn /\ round >= MaxRounds THEN "failed" ELSE teamRow
     /\ execAt' = IF goesOn /\ round < MaxRounds THEN "enqueue" ELSE "finish"
     /\ round' = IF goesOn /\ round < MaxRounds THEN round + 1 ELSE round
  /\ UNCHANGED <<archive, approval, ready, stop, poked, nodeRun, known, cancelSent, reported,
                 nodeVars, parentStop, closing>>

(* _enqueue_node: one transaction tests the row and puts the input.         *)
ExecEnqueues ==
  /\ execAt = "enqueue"
  /\ IF teamRow = "running"
     THEN execAt' = "reads" /\ nodeMail' = nodeMail \cup {"team"} /\ failed' = FALSE
     ELSE execAt' = "finish" /\ UNCHANGED <<nodeMail, failed>>
  /\ nodeRun' = 0 /\ cancelSent' = FALSE
  /\ UNCHANGED <<rowVars, approval, ready, stop, poked, round, known, reported,
                 nodeRuns, nodePosted, nodeLate, driven, nodeSignal, halted, news, served, talk, parentStop, closing>>

(* _await_node_run, one turn of its loop. The events are taken, then the    *)
(* latest Run is read.                                                      *)
ExecReads ==
  /\ execAt = "reads"
  /\ IF halted = "stopped"
     THEN /\ RequestStop("cancelled", TRUE)
          /\ nodeRun' = 0 /\ execAt' = "leaves"
          /\ UNCHANGED <<known, cancelSent, news>>
     ELSE /\ news' = FALSE /\ poked' = FALSE
          /\ execAt' = "acts"
          /\ IF Latest > known
             THEN nodeRun' = Latest /\ known' = Latest /\ cancelSent' = FALSE
             ELSE UNCHANGED <<nodeRun, known, cancelSent>>
          /\ UNCHANGED <<stop, ready>>
  /\ UNCHANGED <<rowVars, approval, round, reported, nodeRuns, nodeMail, nodePosted, nodeLate, driven,
                 nodeSignal, halted, served, talk, failed, parentStop, closing>>

(* At the shutdown the actor is aborted: the row of a Run that has an       *)
(* executor is left as it is. After a stop the Run that has appeared is     *)
(* cancelled, once.                                                         *)
ExecActs ==
  /\ execAt = "acts"
  /\ IF closing /\ nodeRun # 0
     THEN /\ execAt' = "leaves" /\ halted' = "stopped" /\ driven' = FALSE /\ nodeSignal' = FALSE
          /\ nodeRuns' = CancelledIfSuspended
          /\ UNCHANGED cancelSent
     ELSE /\ execAt' = "judges"
          /\ IF stop # NoStop /\ nodeRun # 0 /\ ~cancelSent
             THEN CancelNode /\ cancelSent' = TRUE
             ELSE UNCHANGED <<nodeRuns, nodeSignal, cancelSent>>
          /\ UNCHANGED <<halted, driven>>
  /\ UNCHANGED <<rowVars, approval, ready, stop, poked, round, nodeRun, known, reported,
                 nodeMail, nodePosted, nodeLate, news, served, talk, failed, parentStop, closing>>

(* wait_quiescent(0), and what has changed since the events were taken.     *)
ExecJudges ==
  /\ execAt = "judges"
  /\ execAt' = IF Quiescent
           THEN IF news THEN "reads"
                ELSE IF nodeRun = 0 /\ stop = NoStop THEN "broken" ELSE "leaves"
           ELSE "sleeps"
  /\ UNCHANGED <<rowVars, approval, ready, stop, poked, round, nodeRun, known, cancelSent, reported,
                 nodeVars, parentStop, closing>>

ExecWakes ==
  /\ execAt = "sleeps" /\ (news \/ poked)
  /\ execAt' = "reads"
  /\ UNCHANGED <<rowVars, approval, ready, stop, poked, round, nodeRun, known, cancelSent, reported,
                 nodeVars, parentStop, closing>>

(* _withdraw_node_input: what was not taken is taken back.                  *)
(* Mutant of WithdrawInput: nothing is taken back.                          *)
KeepInput == UNCHANGED <<nodeMail, nodePosted, nodeLate>>

WithdrawInput ==
  /\ nodeMail' = nodeMail \ {"team"}
  /\ nodePosted' = nodePosted \ {"team"}
  /\ nodeLate' = nodeLate \ {"team"}

ExecLeaves ==
  /\ execAt = "leaves"
  /\ WithdrawInput
  /\ execAt' = "result"
  /\ UNCHANGED <<rowVars, approval, ready, stop, poked, round, nodeRun, known, cancelSent, reported,
                 nodeRuns, driven, nodeSignal, halted, news, served, talk, failed, parentStop, closing>>

(* The hand-off of a completed node leads to the END, to a node or nowhere. *)
ExecResult(outcome, next) ==
  /\ execAt = "result"
  /\ IF nodeRun = 0 \/ stop # NoStop
     THEN execAt' = "finish" /\ outcome = teamRow
     ELSE IF nodeRuns[nodeRun] # "completed"
     THEN execAt' = "finish" /\ outcome = MovedRow("failed", {"running"})
     ELSE CASE next = "END"  -> execAt' = "finish" /\ outcome = MovedRow("completed", {"running"})
            [] next = "node" -> execAt' = "top" /\ outcome = teamRow
            [] OTHER         -> execAt' = "finish" /\ outcome = MovedRow("failed", {"running"})
  /\ teamRow' = outcome
  /\ UNCHANGED <<archive, approval, ready, stop, poked, round, nodeRun, known, cancelSent, reported,
                 nodeVars, parentStop, closing>>

(* A storage error while the node is awaited, once its input is in.         *)
ExecBreaks ==
  /\ execAt \in Waiting
  /\ execAt' = "broken" /\ WithdrawInput
  /\ UNCHANGED <<rowVars, approval, ready, stop, poked, round, nodeRun, known, cancelSent, reported,
                 nodeRuns, driven, nodeSignal, halted, news, served, talk, failed, parentStop, closing>>

(* The exception handler of _drive: the row fails, and the node is stopped. *)
ExecBroken ==
  /\ execAt = "broken"
  /\ teamRow' = MovedRow("failed", {"running"})
  /\ CancelNode
  /\ execAt' = "finish"
  /\ UNCHANGED <<archive, approval, ready, stop, poked, round, nodeRun, known, cancelSent, reported,
                 nodeMail, nodePosted, nodeLate, driven, halted, news, served, talk, failed,
                 parentStop, closing>>

(* write_terminal_archive: of a row that has come to its end.               *)
Archived(outcome) == IF outcome \in Terminal THEN outcome ELSE archive

(* The finally of _drive: a stop is written down if nothing else was.       *)
ExecFinishes ==
  /\ execAt = "finish"
  /\ teamRow' = IF stop # NoStop THEN MovedRow("cancelled", TeamActive) ELSE teamRow
  /\ archive' = Archived(teamRow')
  /\ execAt' = "deliver"
  /\ UNCHANGED <<approval, ready, stop, poked, round, nodeRun, known, cancelSent, reported,
                 nodeVars, parentStop, closing>>

(* The conclusion is delivered, and the execution is forgotten.             *)
ExecDelivers ==
  /\ execAt = "deliver"
  /\ reported' = teamRow
  /\ execAt' = "over"
  /\ ready' = FALSE /\ stop' = NoStop /\ poked' = FALSE
  /\ round' = 0 /\ nodeRun' = 0 /\ known' = 0 /\ cancelSent' = FALSE
  /\ UNCHANGED <<rowVars, approval, nodeVars, parentStop, closing>>

-----------------------------------------------------------------------------

ExecSteps ==
  \/ ExecReady \/ ExecTop \/ ExecEnqueues \/ ExecReads \/ ExecActs \/ ExecJudges \/ ExecWakes
  \/ ExecLeaves \/ ExecBroken \/ ExecFinishes \/ ExecDelivers
  \/ \E outcome \in Terminal \cup TeamActive, next \in {"END", "node", "nowhere"} :
       ExecResult(outcome, next)

TeamNext ==
  \/ Proposes \/ \E to \in {"cancelled", "failed"} : Declines(to)
  \/ Approves \/ Staged \/ StageRefused \/ Receipt
  \/ UserStopsTeam \/ Withdrawn \/ ParentStops \/ ParentCancels \/ Closes
  \/ NodeHalting \/ NodeHalts \/ DeletionDrains
  \/ UserTalks \/ NodeAdvances \/ NodeAdvanceFails
  \/ \E m \in {"team", "user"} : NodeTakes(m)
  \/ \E outcome \in Terminal \cup {"suspended"} : NodeEnds(outcome)
  \/ ExecSteps \/ ExecBreaks

(* The event loop goes on with the execution and with the node's actor, and *)
(* an executor that was told to stop heeds it.                              *)
TeamFairness ==
  /\ WF_teamVars(ExecSteps)
  /\ WF_teamVars(NodeAdvances) /\ WF_teamVars(NodeHalts)
  /\ WF_teamVars(nodeSignal /\ NodeEnds("cancelled"))

TeamSpec == TeamInit /\ [][TeamNext]_teamVars
FairTeamSpec == TeamSpec /\ TeamFairness

-----------------------------------------------------------------------------

TeamTypeOK ==
  /\ teamRow \in {"none"} \cup TeamActive \cup Terminal
  /\ archive \in {"none"} \cup Terminal
  /\ approval \in {"none", "waiting", "confirmed", "staged", "done"}
  /\ execAt \in TeamStages /\ reported \in {"none"} \cup Terminal
  /\ stop \in {NoStop, "cancelled", "parent_cancelled", "runtime_restarted"}
  /\ nodeRun \in 0..Latest /\ known \in 0..Latest /\ served \in 0..Latest
  /\ driven => LatestIs = "running"

(* Once a Team is over its node does not go on for it: the input of the     *)
(* Team is in no queue, and a Run that took it is over or told to stop      *)
(* (_drive: without this the node would run on without a coordinator). A    *)
(* Run that is suspended while its Task is deleted goes with the Task, and  *)
(* one that a user opens between the last look and the withdrawal keeps the *)
(* input it finds (_withdraw_node_input).                                   *)
NodeEndsWithTeam ==
  execAt = "over" =>
    /\ "team" \notin Unconfirmed
    /\ served = Latest /\ driven => nodeSignal
    /\ served = Latest /\ halted = "no" => LatestIs # "suspended"

(* A Team that runs has someone who will bring it to an end: the tool that  *)
(* confirmed it or an execution, whatever fails or closes in between.       *)
RunningTeamIsOwned ==
  teamRow = "running" => approval = "confirmed" \/ InActive

(* What the call was told about the end of the Team is what the row and     *)
(* the archive say, for good: no later writer moves a TeamRun that ended.   *)
ConclusionIsFinal == execAt = "over" => reported \in Terminal /\ reported = teamRow /\ reported = archive

(* No node works for a Team that has ended, a running Team has someone who  *)
(* ends it, and it ends once.                                               *)
TeamIsSound == NodeEndsWithTeam /\ RunningTeamIsOwned /\ ConclusionIsFinal

(* A Team that is told to stop, by whomever, comes to its end (aclose and   *)
(* drain_for_deletion wait for it).                                         *)
StoppedTeamEnds == stop # NoStop /\ ready ~> execAt = "over"
=============================================================================
