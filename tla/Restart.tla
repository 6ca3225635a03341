------------------------------- MODULE Restart -------------------------------
(***************************************************************************)
(* What survives a crash of the backend, and how the next start brings the *)
(* records back to a state that can go on (service/recover_service.py,     *)
(* team_coordinator.py recover_after_restart, lifespan.py). Two Tasks: the *)
(* "main" one, whose call starts a Team after the user approved it, and    *)
(* the "node" that works for the Team and may itself start a background    *)
(* job. A step commits one transaction; a crash may come between any two.  *)
(***************************************************************************)
EXTENDS Naturals, FiniteSets

CONSTANTS MaxCrashes,        \* bound: crashes
          MaxInputs,         \* bound: inputs of the user
          CrashInRecovery    \* whether a crash may hit a start that is going on

ASSUME RestartAssumption ==
  MaxCrashes \in Nat /\ MaxInputs \in Nat /\ CrashInRecovery \in BOOLEAN

VARIABLES
  \* the records
  runOf,     \* of each Task: status of its current Run
  result,    \* the result of its one tool call
  queue,     \* kinds of its unconfirmed messages
  teamRecord,   \* status of the TeamRun
  \* the process
  phase,     \* "down", a step of the start, or "serving"
  actorUp,   \* Tasks whose actor is there
  doing,        \* where the execution of a Task is, "rest" for none
  work,       \* Tasks whose background work is alive
  sent,      \* the coordinator: what it did with the node
  orphans,   \* node Tasks of a Team the start has ended
  hit,       \* Tasks the start will tell of the restart
  \* history
  executed,  \* how often the decided call of a Task was executed
  untold,      \* Tasks whose Run or background work died in a crash, not told yet
  teamWork,  \* whether the current Run of the node took the input of the Team
  crashes, inputs

records == <<runOf, result, queue, teamRecord>>
process == <<phase, actorUp, doing, work, sent, orphans, hit>>
history == <<executed, untold, teamWork, crashes, inputs>>
restartVars == <<records, process, history>>

RTasks == {"main", "node"}
Advancing == {"input", "agent", "result", "decision"}

RestartInit ==
  /\ runOf = [t \in RTasks |-> "none"] /\ result = [t \in RTasks |-> "none"]
  /\ queue = [t \in RTasks |-> {}] /\ teamRecord = "none"
  /\ phase = "serving" /\ actorUp = {} /\ doing = [t \in RTasks |-> "rest"]
  /\ work = {} /\ sent = "nothing" /\ orphans = {} /\ hit = {}
  /\ executed = [t \in RTasks |-> 0] /\ untold = {} /\ teamWork = FALSE
  /\ crashes = 0 /\ inputs = 0

Serving == phase = "serving"

Put(t, m) == [queue EXCEPT ![t] = @ \cup {m}]
Off(t, m) == [queue EXCEPT ![t] = @ \ {m}]

-----------------------------------------------------------------------------
(* Work, between two crashes.                                               *)

UserWrites(t) ==
  /\ Serving /\ inputs < MaxInputs
  /\ runOf[t] # "none" \/ t = "main"
  /\ inputs' = inputs + 1
  /\ queue' = Put(t, "input") /\ actorUp' = actorUp \cup {t}
  /\ UNCHANGED <<runOf, result, teamRecord, phase, doing, work, sent, orphans, hit>>
  /\ UNCHANGED <<executed, untold, teamWork, crashes>>

(* A call that waits for the user has no decision in the queue yet.         *)
UserJudges(t) ==
  /\ Serving /\ result[t] = "awaiting" /\ "decision" \notin queue[t]
  /\ queue' = Put(t, "decision") /\ actorUp' = actorUp \cup {t}
  /\ UNCHANGED <<runOf, result, teamRecord, phase, doing, work, sent, orphans, hit, history>>

(* What lets a Task go on: a result wakes the Run it belongs to, which is   *)
(* the suspended one; anything else but a notice opens a Run as well.       *)
Wakeable(t) ==
  /\ doing[t] = "rest"
  /\ IF runOf[t] = "suspended" THEN queue[t] \cap Advancing # {}
                               ELSE queue[t] \cap (Advancing \ {"result"}) # {}

(* TaskActor._advance: a suspended Run is woken, or a new one opened.       *)
StartsRun(t) ==
  /\ Serving /\ t \in actorUp /\ Wakeable(t)
  /\ runOf' = [runOf EXCEPT ![t] = "running"]
  /\ doing' = [doing EXCEPT ![t] = "prepare"]
  /\ teamWork' = IF t = "node" /\ runOf[t] # "suspended" THEN FALSE ELSE teamWork
  /\ UNCHANGED <<result, queue, teamRecord, phase, actorUp, work, sent, orphans, hit>>
  /\ UNCHANGED <<executed, untold, crashes, inputs>>

(* _route_decision: the decision leaves the queue and the call stops        *)
(* waiting in one transaction, before the call is executed.                 *)
ConfirmFirst(t) ==
  /\ queue' = Off(t, "decision")
  /\ result' = [result EXCEPT ![t] = IF @ = "awaiting" THEN "executing" ELSE @]

TakesDecision(t) ==
  /\ doing[t] = "prepare" /\ "decision" \in queue[t]
  /\ ConfirmFirst(t)
  /\ doing' = [doing EXCEPT ![t] = "execute"]
  /\ UNCHANGED <<runOf, teamRecord, phase, actorUp, work, sent, orphans, hit, history>>

(* Any other message is confirmed and written in one transaction; a result  *)
(* settles the call it is for.                                              *)
TakesMessage(t, m) ==
  /\ doing[t] = "prepare" /\ "decision" \notin queue[t] /\ m \in queue[t]
  /\ queue' = Off(t, m)
  /\ result' = [result EXCEPT ![t] = IF m = "result" /\ @ = "pending" THEN "done" ELSE @]
  /\ teamWork' = (teamWork \/ m = "agent")
  /\ UNCHANGED <<runOf, teamRecord, process, executed, untold, crashes, inputs>>

AsksTheModel(t) ==
  /\ doing[t] = "prepare" /\ queue[t] = {}
  /\ doing' = [doing EXCEPT ![t] = "model"]
  /\ UNCHANGED <<records, phase, actorUp, work, sent, orphans, hit, history>>

(* The answer of the model is stored: a call, or an answer that ends the    *)
(* Run unless a background call still owes its result.                      *)
StoresCall(t) ==
  /\ doing[t] = "model" /\ result[t] = "none"
  /\ result' = [result EXCEPT ![t] = "open"]
  /\ doing' = [doing EXCEPT ![t] = "tool"]
  /\ UNCHANGED <<runOf, queue, teamRecord, phase, actorUp, work, sent, orphans, hit, history>>

Answers(t) ==
  /\ doing[t] = "model"
  /\ runOf' = [runOf EXCEPT ![t] = IF result[t] = "pending" THEN "suspended" ELSE "ended"]
  /\ doing' = [doing EXCEPT ![t] = "rest"]
  /\ UNCHANGED <<result, queue, teamRecord, phase, actorUp, work, sent, orphans, hit, history>>

(* The call returns: with a result, with a job that goes on (of the node),  *)
(* or with a proposal the user must judge, which suspends the Run.          *)
CallReturns(t) ==
  /\ doing[t] = "tool"
  /\ \/ result' = [result EXCEPT ![t] = "done"] /\ UNCHANGED work
     \/ t = "node" /\ result' = [result EXCEPT ![t] = "pending"] /\ work' = work \cup {t}
  /\ doing' = [doing EXCEPT ![t] = "prepare"]
  /\ UNCHANGED <<runOf, queue, teamRecord, phase, actorUp, sent, orphans, hit, history>>

ToolAsksUser(t) ==
  /\ doing[t] = "tool"
  /\ result' = [result EXCEPT ![t] = "awaiting"]
  /\ teamRecord' = IF t = "main" THEN "pending" ELSE teamRecord
  /\ doing' = [doing EXCEPT ![t] = "parks"]
  /\ UNCHANGED <<runOf, queue, phase, actorUp, work, sent, orphans, hit, history>>

Parks(t) ==
  /\ doing[t] = "parks"
  /\ IF queue[t] \cap Advancing # {}
     THEN doing' = [doing EXCEPT ![t] = "prepare"] /\ UNCHANGED runOf
     ELSE doing' = [doing EXCEPT ![t] = "rest"] /\ runOf' = [runOf EXCEPT ![t] = "suspended"]
  /\ UNCHANGED <<result, queue, teamRecord, phase, actorUp, work, sent, orphans, hit, history>>

(* The decided call is executed: a Team the user approved is confirmed and  *)
(* its coordinator set up.                                                  *)
Executes(t) ==
  /\ doing[t] = "execute"
  /\ executed' = [executed EXCEPT ![t] = @ + 1]
  /\ teamRecord' = IF t = "main" /\ teamRecord = "pending" THEN "running" ELSE teamRecord
  /\ doing' = [doing EXCEPT ![t] = "settle"]
  /\ UNCHANGED <<runOf, result, queue, phase, actorUp, work, sent, orphans, hit>>
  /\ UNCHANGED <<untold, teamWork, crashes, inputs>>

(* settle_decision_observation; work that goes on is let go afterwards.     *)
SettlesDecision(t) ==
  /\ doing[t] = "settle"
  /\ IF t = "main" /\ teamRecord = "running"
     THEN result' = [result EXCEPT ![t] = "pending"] /\ work' = work \cup {t}
     ELSE result' = [result EXCEPT ![t] = "done"] /\ UNCHANGED work
  /\ queue' = Off(t, "decision")
  /\ doing' = [doing EXCEPT ![t] = "prepare"]
  /\ UNCHANGED <<runOf, teamRecord, phase, actorUp, sent, orphans, hit, history>>

(* A background job of the node concludes: its result is put in the queue.  *)
NodeJobConcludes ==
  /\ Serving /\ "node" \in work
  /\ work' = work \ {"node"} /\ queue' = Put("node", "result")
  /\ UNCHANGED <<runOf, result, teamRecord, phase, actorUp, doing, sent, orphans, hit, history>>

(* The coordinator gives the node its input, waits for the end of its Run,  *)
(* ends the Team and delivers the conclusion to the main Task.              *)
TeamSends ==
  /\ Serving /\ "main" \in work /\ sent = "nothing"
  /\ sent' = "input"
  /\ queue' = Put("node", "agent") /\ actorUp' = actorUp \cup {"node"}
  /\ UNCHANGED <<runOf, result, teamRecord, phase, doing, work, orphans, hit, history>>

TeamEnds ==
  /\ Serving /\ "main" \in work /\ sent = "input"
  /\ "agent" \notin queue["node"] /\ runOf["node"] = "ended"
  /\ sent' = "over" /\ teamRecord' = "ended"
  /\ UNCHANGED <<runOf, result, queue, phase, actorUp, doing, work, orphans, hit, history>>

TeamDelivers ==
  /\ Serving /\ "main" \in work /\ sent = "over"
  /\ work' = work \ {"main"} /\ sent' = "nothing"
  /\ queue' = Put("main", "result")
  /\ UNCHANGED <<runOf, result, teamRecord, phase, actorUp, doing, orphans, hit, history>>

-----------------------------------------------------------------------------
(* The process dies: the records stay, all else is gone.                    *)
Crash ==
  /\ crashes < MaxCrashes /\ phase # "down"
  /\ Serving \/ CrashInRecovery
  /\ crashes' = crashes + 1
  /\ phase' = "down" /\ actorUp' = {} /\ doing' = [t \in RTasks |-> "rest"]
  /\ work' = {} /\ sent' = "nothing" /\ orphans' = {} /\ hit' = {}
  /\ untold' = untold \cup work \cup {t \in RTasks : runOf[t] = "running"}
  /\ UNCHANGED <<records, executed, teamWork, inputs>>

Boots ==
  /\ phase = "down" /\ phase' = "runs"
  /\ UNCHANGED <<records, actorUp, doing, work, sent, orphans, hit, history>>

(* recover_orphaned_runs: a Run that was running is cancelled, and a call   *)
(* of it without a result gets one, in one transaction.                     *)
ClosesCall(t) == result' = [result EXCEPT ![t] = IF @ = "open" THEN "cancelled" ELSE @]

RecoversRun(t) ==
  /\ phase = "runs" /\ runOf[t] = "running"
  /\ runOf' = [runOf EXCEPT ![t] = "ended"]
  /\ ClosesCall(t)
  /\ hit' = hit \cup {t}
  /\ UNCHANGED <<queue, teamRecord, phase, actorUp, doing, work, sent, orphans, history>>

Passes(from, to, cond) == phase = from /\ cond /\ phase' = to

RunsRecovered ==
  /\ Passes("runs", "teams", \A t \in RTasks : runOf[t] # "running")
  /\ UNCHANGED <<records, actorUp, doing, work, sent, orphans, hit, history>>

(* recover_after_restart of the coordinator: what the node has not taken    *)
(* yet is withdrawn, then the Team is ended, in a transaction of its own.   *)
WithdrawsInput ==
  /\ Passes("teams", "team", teamRecord = "running")
  /\ queue' = Off("node", "agent")
  /\ UNCHANGED <<runOf, result, teamRecord, actorUp, doing, work, sent, orphans, hit, history>>

EndsTeam ==
  /\ Passes("team", "nodes", TRUE)
  /\ teamRecord' = "ended" /\ orphans' = {"node"}
  /\ UNCHANGED <<runOf, result, queue, actorUp, doing, work, sent, hit, history>>

NoTeamToEnd ==
  /\ Passes("teams", "nodes", teamRecord # "running")
  /\ UNCHANGED <<records, actorUp, doing, work, sent, orphans, hit, history>>

(* cancel_orphaned_team_nodes: nobody will ever wait for such a Run.        *)
(* Mutant: a suspended Run of a node is left to be woken.                   *)
LeavesNodes == UNCHANGED runOf
CancelsNodes ==
  runOf' = [t \in RTasks |->
              IF t \in orphans /\ runOf[t] = "suspended" THEN "ended" ELSE runOf[t]]

NodesRecovered ==
  /\ Passes("nodes", "dispatch", TRUE)
  /\ CancelsNodes
  /\ UNCHANGED <<result, queue, teamRecord, actorUp, doing, work, sent, orphans, hit, history>>

(* list_task_ids_to_dispatch: Tasks with a message that can advance a Run,  *)
(* or with a suspended Run.                                                 *)
Dispatched(t) == runOf[t] = "suspended" \/ queue[t] \cap Advancing # {}

Dispatches ==
  /\ Passes("dispatch", "rows", TRUE)
  /\ actorUp' = {t \in RTasks : Dispatched(t)}
  /\ UNCHANGED <<records, doing, work, sent, orphans, hit, history>>

(* interrupt_placeholders: what still waited, for a job or for the          *)
(* execution of a decided call, is interrupted, unless its result is in the *)
(* queue.                                                                   *)
Interruptible(t) ==
  /\ result[t] \in {"pending", "executing"}
  /\ ~(t \in actorUp /\ "result" \in queue[t])

Interrupts(t) ==
  /\ phase = "rows" /\ Interruptible(t)
  /\ result' = [result EXCEPT ![t] = "cancelled"]
  /\ hit' = hit \cup {t}
  /\ UNCHANGED <<runOf, queue, teamRecord, phase, actorUp, doing, work, sent, orphans, history>>

RowsInterrupted ==
  /\ Passes("rows", "notify", \A t \in RTasks : ~Interruptible(t))
  /\ UNCHANGED <<records, actorUp, doing, work, sent, orphans, hit, history>>

(* notify_interrupted: a notice, which wakes nobody.                        *)
TellsTask(t) ==
  /\ phase = "notify" /\ t \in hit
  /\ hit' = hit \ {t} /\ untold' = untold \ {t}
  /\ queue' = Put(t, "notice")
  /\ UNCHANGED <<runOf, result, teamRecord, phase, actorUp, doing, work, sent, orphans>>
  /\ UNCHANGED <<executed, teamWork, crashes, inputs>>

Serves ==
  /\ Passes("notify", "serving", hit = {})
  /\ orphans' = {}
  /\ UNCHANGED <<records, actorUp, doing, work, sent, hit, history>>

-----------------------------------------------------------------------------
ActorSteps(t) == StartsRun(t) \/ TakesDecision(t) \/ AsksTheModel(t)
                 \/ Parks(t) \/ Executes(t) \/ SettlesDecision(t)
                 \/ \E m \in Advancing \cup {"notice"} : TakesMessage(t, m)

StartSteps ==
  \/ Boots \/ RunsRecovered \/ WithdrawsInput \/ EndsTeam \/ NoTeamToEnd \/ NodesRecovered
  \/ Dispatches \/ RowsInterrupted \/ Serves
  \/ \E t \in RTasks : RecoversRun(t) \/ Interrupts(t) \/ TellsTask(t)

RestartNext ==
  \/ \E t \in RTasks : UserWrites(t) \/ UserJudges(t) \/ ActorSteps(t)
  \/ \E t \in RTasks : StoresCall(t) \/ Answers(t) \/ CallReturns(t) \/ ToolAsksUser(t)
  \/ NodeJobConcludes \/ TeamSends \/ TeamEnds \/ TeamDelivers
  \/ Crash \/ StartSteps

RestartSpec == RestartInit /\ [][RestartNext]_restartVars

(* Actors and the start go on by themselves.                                *)
RestartFairness ==
  WF_restartVars(StartSteps) /\ \A t \in RTasks : WF_restartVars(ActorSteps(t))

FairRestartSpec == RestartSpec /\ RestartFairness

-----------------------------------------------------------------------------
RestartTypeOK ==
  /\ runOf \in [RTasks -> {"none", "running", "suspended", "ended"}]
  /\ result \in [RTasks -> {"none", "open", "awaiting", "executing", "pending", "done", "cancelled"}]
  /\ queue \in [RTasks -> SUBSET (Advancing \cup {"notice"})]
  /\ teamRecord \in {"none", "pending", "running", "ended"}
  /\ phase \in {"down", "runs", "teams", "team", "nodes", "dispatch", "rows", "notify", "serving"}
  /\ actorUp \subseteq RTasks /\ work \subseteq RTasks
  /\ orphans \subseteq RTasks /\ hit \subseteq RTasks /\ untold \subseteq RTasks
  /\ doing \in [RTasks -> {"rest", "prepare", "model", "tool", "parks", "execute", "settle"}]
  /\ sent \in {"nothing", "input", "over"}

(* Whenever the backend serves, nothing in the records waits for what died  *)
(* with an earlier process: a running Run is executed, a call without a     *)
(* result is being made, a decided one carried out, and a background call   *)
(* has its work alive or its result in the queue (RecoverService).          *)
NothingWaitsForTheDead ==
  Serving => \A t \in RTasks :
    /\ runOf[t] = "running" <=> doing[t] # "rest"
    /\ result[t] = "open" => doing[t] = "tool"
    /\ result[t] = "executing" => doing[t] \in {"execute", "settle"}
    /\ result[t] = "pending" => t \in work \/ "result" \in queue[t]

(* A node works only for a Team that is running: no input of a Team that    *)
(* ended is left for it, and no Run that took one stays suspended, to be    *)
(* woken later and go on alone (recover_after_restart,                      *)
(* cancel_orphaned_team_nodes).                                             *)
NoOrphanNode ==
  Serving /\ teamRecord # "running" =>
    /\ "agent" \notin queue["node"]
    /\ ~(runOf["node"] = "suspended" /\ teamWork)

(* An Agent whose Run or background work died in a crash is told so before  *)
(* the backend serves again (RecoverService.notify_interrupted).            *)
InterruptedIsTold == Serving => untold = {}

(* A call the user approved is executed at most once, whatever crash comes  *)
(* between its confirmation and its result (_route_decision).               *)
ExecutedOnce == \A t \in RTasks : executed[t] <= 1

(* After a recovery nothing waits for work that died with the process, no   *)
(* node is left without its Team, who was interrupted is told, and what was *)
(* decided is not executed again.                                           *)
RestartIsSound == NothingWaitsForTheDead /\ NoOrphanNode /\ InterruptedIsTold /\ ExecutedOnce

(* A message that can advance a Task is acted upon, also when it arrived    *)
(* before the restart (list_task_ids_to_dispatch).                          *)
ArrivedIsHandled == \A t \in RTasks : Wakeable(t) ~> ~Wakeable(t)
=============================================================================
