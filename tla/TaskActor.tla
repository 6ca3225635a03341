------------------------------- MODULE TaskActor -------------------------------
(***************************************************************************)
(* The scheduler of one Task: core/task_actor.py with the execution it     *)
(* registers (core/task_execution.py), the external message queue, the     *)
(* mailbox of the execution, the Run ledger and the cancellation signal.   *)
(*                                                                         *)
(* Everything runs on one asyncio event loop, so a step of the model is    *)
(* the code between two awaits; database work runs in worker threads and   *)
(* is a step of its own. The processes are                                 *)
(*   "loop"             TaskActor._loop                                    *)
(*   e \in Execs        one asyncio task of TaskExecution._drive: it drives *)
(*                      a Run, releases the execution and runs the         *)
(*                      callback _after_drive, all in the same task        *)
(*   "user", "parent"   a TaskActor.cancel(reason) that must take the gate *)
(*   "resume"           TaskActor.resume                                   *)
(*   "stop"             TaskActor.stop, before the Task is deleted         *)
(* The Task gate is a plain thread lock, acquired in no particular order.  *)
(***************************************************************************)
EXTENDS Naturals, Sequences, DispatchPolicy, RunStatus

CONSTANTS
  Execs,        \* pool of asyncio tasks that can be alive at one time
  MaxRun,       \* bound on the number of Runs
  Classes,      \* classes of messages others put: [kind, delivery, owned]
  Budget,       \* how often each outside event may happen (bounds TLC)
  StaleReads    \* whether a database read may be older than the code after
                \* its await (the result waits for the event loop)

Reasons   == {"user", "parent"}
Commands  == Reasons \cup {"resume"}
Advancers == Execs \cup {"loop"}
Procs     == Advancers \cup Commands
Waiters   == {"loop", "stop"}
Free      == "free"
NoExec    == "none"

(* Outside events: messages, user commands and the failures of a database  *)
(* or of a model that the code handles.                                    *)
Events == {"put", "withdraw", "user", "parent", "resume", "stop",
           "fail", "config", "orphan", "settle", "queue"}

ASSUME ActorAssumption ==
  /\ MaxRun \in Nat
  /\ Execs \cap (Commands \cup {"loop", "stop", Free, NoExec}) = {}
  /\ Classes \subseteq [kind : Kinds, delivery : Deliveries, owned : BOOLEAN]
  /\ Budget \in [Events -> Nat]
  /\ StaleReads \in BOOLEAN

VARIABLES
  queue,       \* task_messages: the rows nobody confirmed yet
  issued,      \* id of the last row
  context,     \* rows written to the context, with the Run that took them
  withdrawn,   \* ids the user took back
  status,      \* conversation_runs.status
  current,     \* tasks.current_run_id (Runs are numbered as they open)
  propagated,  \* Runs whose cancellation was passed on to the child Tasks
  exec,        \* TaskExecution._task: the registered execution
  runOf,       \* the Run each asyncio task drives
  epc,         \* where each asyncio task is
  taken,       \* the cancel reason its release took (consume)
  waitFlag,    \* ReactExecutionState.wait_for_input of the execution
  mailbox,     \* RunMailbox entries, in (posting round, id) order
  seen,        \* row ids this execution already received
  posts,       \* posting rounds of this execution
  signal,      \* cancellation_registry entry of the Task
  gate,        \* TaskRuntimeSpace.lock
  snap,        \* [run, st]: the current Run as a process read it
  lpc,         \* where _loop is
  watermark, handled,
  awaited,     \* the asyncio task a wait_released waits for
  apc,         \* where each _advance is
  apending, afresh,     \* its arguments
  cpc,         \* where each command is
  stopping, stopped,
  spc,         \* where stop() is
  budget

rowVars  == <<queue, issued, context, withdrawn>>
runVars  == <<status, current, propagated>>
boxVars  == <<mailbox, seen, posts>>
execVars == <<exec, runOf, epc, taken, waitFlag>>
loopVars == <<lpc, watermark, handled>>
advVars  == <<apc, apending, afresh>>
stopVars == <<stopping, stopped, spc>>
vars == <<rowVars, runVars, boxVars, execVars, signal, gate, snap, loopVars,
          awaited, advVars, cpc, stopVars, budget>>

Runs == 1..MaxRun

NoSnap == [run |-> NoRun, st |-> "none"]

Init ==
  /\ queue = {} /\ issued = 0 /\ context = <<>> /\ withdrawn = {}
  /\ status = [r \in Runs |-> "none"] /\ current = NoRun /\ propagated = {}
  /\ exec = NoExec /\ waitFlag = FALSE
  /\ runOf = [e \in Execs |-> NoRun]
  /\ epc = [e \in Execs |-> "off"]
  /\ taken = [e \in Execs |-> "none"]
  /\ mailbox = {} /\ seen = {} /\ posts = 0
  /\ signal = "none" /\ gate = Free
  /\ snap = [p \in Procs |-> NoSnap]
  /\ lpc = "wait" /\ watermark = 0 /\ handled = 0
  /\ awaited = [w \in Waiters |-> NoExec]
  /\ apc = [a \in Advancers |-> "off"]
  /\ apending = [a \in Advancers |-> {}]
  /\ afresh = [a \in Advancers |-> {}]
  /\ cpc = [c \in Commands |-> "off"]
  /\ stopping = FALSE /\ stopped = FALSE /\ spc = "off"
  /\ budget = Budget

-----------------------------------------------------------------------------
(* Shared pieces.                                                          *)

Spend(event) == /\ budget[event] > 0
                /\ budget' = [budget EXCEPT ![event] = @ - 1]

Driving == exec # NoExec

StatusOf(run) == IF run = NoRun THEN "none" ELSE status[run]

CurrentStatus == StatusOf(current)

PhaseOf(st) == IF Driving THEN "driving"
               ELSE IF st = "suspended" THEN "suspended" ELSE "idle"

(* require_current_run by process p, and the status p then judges by: the  *)
(* one it read, or the row as it is when the await ends.                   *)
Read(p)   == snap' = [snap EXCEPT ![p] =
                        [run |-> current,
                         st  |-> IF StaleReads THEN CurrentStatus ELSE "none"]]
Judged(p) == IF StaleReads THEN snap[p].st ELSE StatusOf(snap[p].run)
Settle(p) == snap' = [snap EXCEPT ![p].st = "none"]
Forget(p) == snap' = [snap EXCEPT ![p] = NoSnap]

Transit(run, t) == status' = [status EXCEPT ![run] = After(t, @)]

Row(id, kind, delivery, owner) ==
  [id |-> id, kind |-> kind, delivery |-> delivery, owner |-> owner]

(* Mutant of Enqueue: the id of the new row is not taken.                  *)
EnqueueSameId(kind, delivery, owner) ==
  /\ queue' = queue \cup {Row(issued + 1, kind, delivery, owner)}
  /\ UNCHANGED <<issued, context, withdrawn>>

Enqueue(kind, delivery, owner) ==
  /\ issued' = issued + 1
  /\ queue' = queue \cup {Row(issued + 1, kind, delivery, owner)}
  /\ UNCHANGED <<context, withdrawn>>

Ids(S) == {m.id : m \in S}

(* RunMailbox.post of the rows of S, in id order, each at most once.       *)
Post(S) ==
  LET new == {m \in S : m.id \notin seen}
  IN  /\ mailbox' = mailbox \cup {[msg |-> m, round |-> posts] : m \in new}
      /\ seen' = seen \cup Ids(new)
      /\ posts' = IF new = {} THEN posts ELSE posts + 1

(* The asyncio task a is over when a is one: who waits for it goes on.     *)
EpcEnd(a)     == IF a \in Execs THEN [epc EXCEPT ![a] = "off"] ELSE epc
RunOfEnd(a)   == IF a \in Execs THEN [runOf EXCEPT ![a] = NoRun] ELSE runOf
TakenEnd(a)   == IF a \in Execs THEN [taken EXCEPT ![a] = "none"] ELSE taken
AwaitedEnd(a) == [w \in Waiters |-> IF awaited[w] = a THEN NoExec ELSE awaited[w]]

Finish(e) == /\ epc' = EpcEnd(e) /\ runOf' = RunOfEnd(e)
             /\ taken' = TakenEnd(e) /\ awaited' = AwaitedEnd(e)

(* TaskExecution.start, called by a: reset the mailbox, post the initial   *)
(* messages and create the asyncio task.                                   *)
StartExecution(a, run, pending, freshRun) ==
  LET initial == InitialMessages(pending, freshRun)
  IN  /\ exec = NoExec
      /\ \E e \in Execs :
           /\ epc[e] = "off"
           /\ exec' = e
           /\ epc' = [EpcEnd(a) EXCEPT ![e] = "prepare"]
           /\ runOf' = [RunOfEnd(a) EXCEPT ![e] = run]
      /\ taken' = TakenEnd(a)
      /\ mailbox' = {[msg |-> m, round |-> 0] : m \in initial}
      /\ seen' = Ids(initial)
      /\ posts' = 1
      /\ waitFlag' = FALSE

(* TaskCancellation.after_cancelled: pass the cancellation on to the child *)
(* Tasks and, when the user stopped the Run, leave a notice in the queue.  *)
AfterCancelled(run, reason) ==
  /\ propagated' = propagated \cup {run}
  /\ IF reason = "user" THEN Enqueue("system_notice", "next_run", NoRun)
                        ELSE UNCHANGED rowVars

-----------------------------------------------------------------------------
(* Messages from other parties.                                            *)

(* TaskMessageQueue.put. A result addressed to one Run (owned) is put only *)
(* while that Run is current and active (report_cancelled_result); a       *)
(* decision and a result answer a call some Run made.                      *)
Put(c) ==
  /\ Spend("put")
  /\ c.kind \in {"user_decision", "background_result"} => current # NoRun
  /\ c.owned => CurrentStatus \in Active
  /\ Enqueue(c.kind, c.delivery, IF c.owned THEN current ELSE NoRun)
  /\ UNCHANGED <<runVars, boxVars, execVars, signal, gate, snap, loopVars,
                 awaited, advVars, cpc, stopVars>>

(* TaskMessageQueue.withdraw: the user deletes a message still queued.     *)
Withdraw(m) ==
  /\ Spend("withdraw")
  /\ m \in queue /\ m.kind = "user_input"
  /\ queue' = queue \ {m}
  /\ withdrawn' = withdrawn \cup {m.id}
  /\ UNCHANGED <<issued, context, runVars, boxVars, execVars, signal, gate, snap,
                 loopVars, awaited, advVars, cpc, stopVars>>

-----------------------------------------------------------------------------
(* TaskActor._loop                                                         *)

(* The head of _advance runs before its first await: once stop() began it  *)
(* returns, and the loop counts the round as handled.                      *)
LoopAdvances(pending, fresh) ==
  IF stopping
  THEN /\ lpc' = "wait" /\ handled' = watermark'
       /\ apending' = [apending EXCEPT !["loop"] = {}]
       /\ afresh' = [afresh EXCEPT !["loop"] = {}]
       /\ UNCHANGED apc
  ELSE /\ lpc' = "advance"
       /\ apc' = [apc EXCEPT !["loop"] = "gate"]
       /\ apending' = [apending EXCEPT !["loop"] = pending]
       /\ afresh' = [afresh EXCEPT !["loop"] = fresh]
       /\ UNCHANGED handled

(* The rows the loop has not seen.                                         *)
Fresh == {m \in queue : m.id > watermark}

(* queue.pending returned: some row is newer than the watermark. While the *)
(* execution is being stopped the loop first waits for it.                 *)
LoopWakes ==
  /\ lpc = "wait"
  /\ \E last \in Fresh : /\ \A m \in Fresh : m.id <= last.id
                        /\ watermark' = last.id
  /\ IF Driving /\ signal # "none"
     THEN /\ lpc' = "drain"
          /\ awaited' = [awaited EXCEPT !["loop"] = exec]
          /\ apending' = [apending EXCEPT !["loop"] = queue]
          /\ afresh' = [afresh EXCEPT !["loop"] = Fresh]
          /\ UNCHANGED <<handled, apc>>
     ELSE /\ LoopAdvances(queue, Fresh)
          /\ UNCHANGED awaited
  /\ UNCHANGED <<rowVars, runVars, boxVars, execVars, signal, gate, snap, cpc,
                 stopVars, budget>>

(* Mutant of LoopDrained: listen again instead of advancing.               *)
LoopListensAgain ==
  /\ lpc = "drain" /\ awaited["loop"] = NoExec
  /\ lpc' = "wait" /\ handled' = watermark
  /\ apending' = [apending EXCEPT !["loop"] = {}]
  /\ afresh' = [afresh EXCEPT !["loop"] = {}]
  /\ UNCHANGED <<rowVars, runVars, boxVars, execVars, signal, gate, snap, watermark,
                 awaited, apc, cpc, stopVars, budget>>

(* wait_released returned: the stopped execution and its callback ended.   *)
LoopDrained ==
  /\ lpc = "drain" /\ awaited["loop"] = NoExec
  /\ watermark' = watermark
  /\ LoopAdvances(apending["loop"], afresh["loop"])
  /\ UNCHANGED <<rowVars, runVars, boxVars, execVars, signal, gate, snap, awaited,
                 cpc, stopVars, budget>>

(* Reading the queue failed: the loop halts for good (_halt_loop).         *)
LoopHalts ==
  /\ lpc = "wait" /\ Spend("queue")
  /\ lpc' = "halted" /\ stopped' = TRUE
  /\ UNCHANGED <<rowVars, runVars, boxVars, execVars, signal, gate, snap, watermark,
                 handled, awaited, advVars, cpc, stopping, spc>>

-----------------------------------------------------------------------------
(* TaskActor._advance, run by the loop or by an execution that released.   *)

AdvanceTakesGate(a) ==
  /\ apc[a] = "gate" /\ gate = Free
  /\ gate' = a
  /\ apc' = [apc EXCEPT ![a] = "decide"]
  /\ Read(a)
  /\ UNCHANGED <<rowVars, runVars, boxVars, execVars, signal, loopVars, awaited,
                 apending, afresh, cpc, stopVars, budget>>

Decision(a) ==
  NextAction(PhaseOf(Judged(a)), snap[a].run, apending[a], afresh[a],
             snap[a].run # NoRun)

(* _advance returns (or raises, ok = FALSE): the gate is released and the  *)
(* caller goes on; only a round that did not raise counts as handled.      *)
EndAdvance(a, ok) ==
  /\ apc' = [apc EXCEPT ![a] = "off"]
  /\ apending' = [apending EXCEPT ![a] = {}]
  /\ afresh' = [afresh EXCEPT ![a] = {}]
  /\ gate' = Free
  /\ Forget(a)
  /\ awaited' = AwaitedEnd(a)
  /\ watermark' = watermark
  /\ IF a = "loop" THEN /\ lpc' = "wait"
                        /\ handled' = IF ok THEN watermark ELSE handled
                   ELSE UNCHANGED <<lpc, handled>>

AdvanceDelivers(a) ==
  /\ apc[a] = "decide" /\ Decision(a) = "deliver"
  /\ Post(Immediate(apending[a]))
  /\ EndAdvance(a, TRUE)
  /\ epc' = EpcEnd(a) /\ runOf' = RunOfEnd(a) /\ taken' = TakenEnd(a)
  /\ UNCHANGED <<rowVars, runVars, exec, waitFlag, signal, cpc, stopVars, budget>>

(* Mutant of AdvanceStays: nothing to do yet, so judge again.              *)
AdvanceTriesAgain(a) ==
  /\ apc[a] = "decide" /\ Decision(a) = "stay"
  /\ apc' = [apc EXCEPT ![a] = "gate"]
  /\ gate' = Free
  /\ Forget(a)
  /\ UNCHANGED <<rowVars, runVars, boxVars, execVars, signal, loopVars, awaited,
                 apending, afresh, cpc, stopVars, budget>>

AdvanceStays(a) ==
  /\ apc[a] = "decide" /\ Decision(a) = "stay"
  /\ EndAdvance(a, TRUE)
  /\ epc' = EpcEnd(a) /\ runOf' = RunOfEnd(a) /\ taken' = TakenEnd(a)
  /\ UNCHANGED <<rowVars, runVars, boxVars, exec, waitFlag, signal, cpc, stopVars,
                 budget>>

(* A Run will be woken or opened: the database step follows.               *)
AdvanceClaims(a) ==
  /\ apc[a] = "decide" /\ Decision(a) \in {"wake", "start"}
  /\ apc' = [apc EXCEPT ![a] = IF Decision(a) = "wake" THEN "wake" ELSE "create"]
  /\ Settle(a)
  /\ UNCHANGED <<rowVars, runVars, boxVars, execVars, signal, gate, loopVars, awaited,
                 apending, afresh, cpc, stopVars, budget>>

(* ledger.transition(WAKE); None when the Run is no longer suspended.      *)
AdvanceWakes(a) ==
  /\ apc[a] = "wake" /\ Applies("WAKE", status[snap[a].run])
  /\ Transit(snap[a].run, "WAKE")
  /\ apc' = [apc EXCEPT ![a] = "startWoken"]
  /\ UNCHANGED <<rowVars, current, propagated, boxVars, execVars, signal, gate, snap,
                 loopVars, awaited, apending, afresh, cpc, stopVars, budget>>

AdvanceWakeMisses(a) ==
  /\ apc[a] = "wake" /\ ~Applies("WAKE", status[snap[a].run])
  /\ EndAdvance(a, TRUE)
  /\ epc' = EpcEnd(a) /\ runOf' = RunOfEnd(a) /\ taken' = TakenEnd(a)
  /\ UNCHANGED <<rowVars, runVars, boxVars, exec, waitFlag, signal, cpc, stopVars,
                 budget>>

(* ledger.create_run: a running Run and the pointer to it, one transaction. *)
OpenRun == /\ current < MaxRun
           /\ current' = current + 1
           /\ status' = [status EXCEPT ![current + 1] = "running"]
           /\ UNCHANGED propagated

AdvanceCreates(a) ==
  /\ apc[a] = "create"
  /\ OpenRun
  /\ apc' = [apc EXCEPT ![a] = "startNew"]
  /\ snap' = [snap EXCEPT ![a].run = current']
  /\ UNCHANGED <<rowVars, boxVars, execVars, signal, gate, loopVars, awaited,
                 apending, afresh, cpc, stopVars, budget>>

(* create_run raises before its transaction (the model configuration was   *)
(* deleted), or the projection of the committed event raises.              *)
AdvanceFails(a) ==
  /\ \/ apc[a] = "create" /\ Spend("config") /\ UNCHANGED runVars
     \/ apc[a] = "create" /\ Spend("orphan") /\ OpenRun
     \/ /\ apc[a] = "wake" /\ Spend("orphan")
        /\ Applies("WAKE", status[snap[a].run])
        /\ Transit(snap[a].run, "WAKE")
        /\ UNCHANGED <<current, propagated>>
  /\ EndAdvance(a, FALSE)
  /\ epc' = EpcEnd(a) /\ runOf' = RunOfEnd(a) /\ taken' = TakenEnd(a)
  /\ UNCHANGED <<rowVars, boxVars, exec, waitFlag, signal, cpc, stopVars>>

AdvanceStarts(a) ==
  /\ apc[a] \in {"startWoken", "startNew"}
  /\ StartExecution(a, snap[a].run, apending[a], apc[a] = "startNew")
  /\ EndAdvance(a, TRUE)
  /\ UNCHANGED <<rowVars, runVars, signal, cpc, stopVars, budget>>

-----------------------------------------------------------------------------
(* The registered execution e drives its Run (ReactLikeWorkflow).          *)

driveFrame == <<signal, gate, snap, loopVars, awaited, advVars, cpc, stopVars>>

(* A cancel checkpoint: before a round of input, before and during a model *)
(* request. The Run settles as cancelled.                                  *)
RunStops(e) ==
  /\ epc[e] \in {"prepare", "model"} /\ signal # "none"
  /\ Transit(runOf[e], "CANCEL")
  /\ epc' = [epc EXCEPT ![e] = "settled"]
  /\ UNCHANGED <<rowVars, current, propagated, boxVars, exec, runOf, taken, waitFlag,
                 driveFrame, budget>>

HasWakeable(run) == \E x \in mailbox : Wakes(x.msg, run)

(* Nothing to go on with: suspend and end the execution.                   *)
RunSuspends(e) ==
  /\ epc[e] = "prepare" /\ signal = "none"
  /\ waitFlag /\ ~HasWakeable(runOf[e])
  /\ Transit(runOf[e], "SUSPEND")
  /\ epc' = [epc EXCEPT ![e] = "settled"]
  /\ waitFlag' = FALSE
  /\ UNCHANGED <<rowVars, current, propagated, boxVars, exec, runOf, taken, driveFrame,
                 budget>>

RunTakesInput(e) ==
  /\ epc[e] = "prepare" /\ signal = "none"
  /\ waitFlag => HasWakeable(runOf[e])
  /\ epc' = [epc EXCEPT ![e] = "consume"]
  /\ waitFlag' = FALSE
  /\ UNCHANGED <<rowVars, runVars, boxVars, exec, runOf, taken, driveFrame, budget>>

(* Notices leave the mailbox first, then posting order, then id order.     *)
Precedes(x, y) ==
  LET px == IF x.msg.kind = "system_notice" THEN 0 ELSE 1
      py == IF y.msg.kind = "system_notice" THEN 0 ELSE 1
  IN  \/ px < py
      \/ px = py /\ x.round < y.round
      \/ px = py /\ x.round = y.round /\ x.msg.id <= y.msg.id

(* Mutant of Confirm: write the copy, whatever the deletion said.          *)
ConfirmBlindly(e, x) ==
  /\ mailbox' = mailbox \ {x}
  /\ queue' = queue \ {x.msg}
  /\ context' = Append(context, [msg |-> x.msg, run |-> runOf[e]])

(* Confirm the row of x and write it to the context, in one transaction; a *)
(* row that was confirmed or withdrawn meanwhile is skipped.               *)
Confirm(e, x) ==
  /\ mailbox' = mailbox \ {x}
  /\ queue' = queue \ {x.msg}
  /\ context' = IF x.msg \in queue
                THEN Append(context, [msg |-> x.msg, run |-> runOf[e]])
                ELSE context

RunConsumes(e) ==
  /\ epc[e] = "consume"
  /\ \E x \in mailbox : (\A y \in mailbox : Precedes(x, y)) /\ Confirm(e, x)
  /\ UNCHANGED <<issued, withdrawn, runVars, seen, posts, execVars, driveFrame, budget>>

(* A user decision that a tool executes goes first: confirm and write it,  *)
(* then run the call; when the row or the call is gone, go on as usual.    *)
RunClaimsDecision(e) ==
  /\ epc[e] = "prepare" /\ signal = "none"
  /\ waitFlag => HasWakeable(runOf[e])
  /\ \E x \in mailbox :
       /\ x.msg.kind = "user_decision"
       /\ \A y \in mailbox : y.msg.kind = "user_decision" => Precedes(x, y)
       /\ Confirm(e, x)
       /\ \/ epc' = [epc EXCEPT ![e] = "consume"]
          \/ x.msg \in queue /\ epc' = [epc EXCEPT ![e] = "tools"]
  /\ waitFlag' = FALSE
  /\ UNCHANGED <<issued, withdrawn, runVars, seen, posts, exec, runOf, taken, driveFrame,
                 budget>>

RunAsksModel(e) ==
  /\ epc[e] = "consume" /\ mailbox = {}
  /\ epc' = [epc EXCEPT ![e] = "model"]
  /\ UNCHANGED <<rowVars, runVars, boxVars, exec, runOf, taken, waitFlag, driveFrame,
                 budget>>

(* The model called tools, was cut off or still has background results to  *)
(* wait for: back to prepare_input, maybe asking to suspend there.         *)
RunContinues(e) ==
  /\ epc[e] \in {"model", "tools"}
  /\ epc' = [epc EXCEPT ![e] = "prepare"]
  /\ waitFlag' \in BOOLEAN
  /\ UNCHANGED <<rowVars, runVars, boxVars, exec, runOf, taken, driveFrame, budget>>

(* The last checkpoint is passed; run_awaits_background is still read from *)
(* the database before the Run is completed.                               *)
RunAnswers(e) ==
  /\ epc[e] = "model" /\ signal = "none"
  /\ epc' = [epc EXCEPT ![e] = "answer"]
  /\ UNCHANGED <<rowVars, runVars, boxVars, exec, runOf, taken, waitFlag, driveFrame,
                 budget>>

RunCompletes(e) ==
  /\ epc[e] = "answer"
  /\ Transit(runOf[e], "COMPLETE")
  /\ epc' = [epc EXCEPT ![e] = "settled"]
  /\ UNCHANGED <<rowVars, current, propagated, boxVars, exec, runOf, taken, waitFlag,
                 driveFrame, budget>>

(* Mutant of RunFails: the failure is only logged.                         *)
RunFailsUnsettled(e) ==
  /\ epc[e] \in {"prepare", "consume", "tools", "model", "answer"}
  /\ Spend("fail")
  /\ epc' = [epc EXCEPT ![e] = "settled"]
  /\ UNCHANGED <<rowVars, runVars, boxVars, exec, runOf, taken, waitFlag, driveFrame>>

(* A model or tool failure, or the step limit: RunDriver settles failed.   *)
RunFails(e) ==
  /\ epc[e] \in {"prepare", "consume", "tools", "model", "answer"}
  /\ Spend("fail")
  /\ Transit(runOf[e], "FAIL")
  /\ epc' = [epc EXCEPT ![e] = "settled"]
  /\ UNCHANGED <<rowVars, current, propagated, boxVars, exec, runOf, taken, waitFlag,
                 driveFrame>>

-----------------------------------------------------------------------------
(* TaskExecution._drive releases the execution.                            *)

(* Unregister and take the signal, with no await between, then enter       *)
(* _after_drive, which returns at once when the Task is being deleted. The *)
(* first conjunct bounds how many callbacks may still be running: a task   *)
(* of the pool must be left for the next execution.                        *)
Release(e) ==
  /\ \E f \in Execs : epc[f] = "off"
  /\ exec' = NoExec
  /\ signal' = "none"
  /\ IF stopping
     THEN Finish(e)
     ELSE /\ epc' = [epc EXCEPT ![e] = "tail"]
          /\ taken' = [taken EXCEPT ![e] = signal]
          /\ UNCHANGED <<runOf, awaited>>
  /\ UNCHANGED <<rowVars, runVars, boxVars, waitFlag, gate, snap, loopVars, advVars, cpc,
                 stopVars>>

(* No signal after the STOP hook: released in the same step.               *)
DriveReturns(e) ==
  /\ epc[e] = "settled" /\ signal = "none"
  /\ Release(e)
  /\ UNCHANGED budget

(* Mutant of DriveDrops: unregister first.                                 *)
DriveUnregisters(e) ==
  /\ epc[e] = "settled" /\ signal # "none"
  /\ epc' = [epc EXCEPT ![e] = "drop"]
  /\ exec' = NoExec
  /\ UNCHANGED <<rowVars, runVars, boxVars, runOf, taken, waitFlag, driveFrame, budget>>

(* Signalled: first drop the background results (await), still registered. *)
DriveDrops(e) ==
  /\ epc[e] = "settled" /\ signal # "none"
  /\ epc' = [epc EXCEPT ![e] = "drop"]
  /\ UNCHANGED <<rowVars, runVars, boxVars, exec, runOf, taken, waitFlag, driveFrame,
                 budget>>

DriveDropped(e) ==
  /\ epc[e] = "drop"
  /\ Release(e)
  /\ UNCHANGED budget

(* Settling the failure failed too: released with the Run left running.    *)
DriveCrashes(e) ==
  /\ epc[e] \in {"prepare", "consume", "tools", "model", "answer"}
  /\ Spend("settle")
  /\ Release(e)

-----------------------------------------------------------------------------
(* TaskActor._after_drive, in the asyncio task of e, without the gate.     *)

tailFrame == <<boxVars, exec, waitFlag, signal, gate, snap, loopVars, cpc, stopVars,
               budget>>

SettledStatus(e) == status[runOf[e]]

TailMoves(e, to) == /\ epc' = [epc EXCEPT ![e] = to]
                    /\ UNCHANGED <<runOf, taken, awaited>>

(* get_run: what is left to do depends on how the Run settled.             *)
TailReads(e) ==
  /\ epc[e] = "tail"
  /\ LET st == SettledStatus(e)
     IN  \/ /\ taken[e] # "none" /\ st = "suspended"
            /\ TailMoves(e, "tailCancel")
         \/ /\ st = "cancelled"
            /\ TailMoves(e, "tailNotify")
         \/ /\ taken[e] = "none" /\ st \in ContinueAfter
            /\ TailMoves(e, "tailPending")
         \/ /\ st # "cancelled"
            /\ IF taken[e] = "none" THEN st \notin ContinueAfter ELSE st # "suspended"
            /\ Finish(e)
  /\ UNCHANGED <<rowVars, runVars, advVars, tailFrame>>

(* The signal came after the Run had suspended: cancel it now.             *)
TailCancels(e) ==
  /\ epc[e] = "tailCancel"
  /\ Transit(runOf[e], "CANCEL")
  /\ IF Applies("CANCEL", SettledStatus(e)) THEN TailMoves(e, "tailNotify")
                                            ELSE Finish(e)
  /\ UNCHANGED <<rowVars, current, propagated, advVars, tailFrame>>

TailNotifies(e) ==
  /\ epc[e] = "tailNotify"
  /\ AfterCancelled(runOf[e], IF taken[e] = "none" THEN "user" ELSE taken[e])
  /\ Finish(e)
  /\ UNCHANGED <<status, current, advVars, tailFrame>>

(* pending_nowait, then the head of _advance(pending, pending).            *)
TailContinues(e) ==
  /\ epc[e] = "tailPending"
  /\ IF queue = {} \/ stopping
     THEN Finish(e) /\ UNCHANGED advVars
     ELSE /\ TailMoves(e, "advance")
          /\ apc' = [apc EXCEPT ![e] = "gate"]
          /\ apending' = [apending EXCEPT ![e] = queue]
          /\ afresh' = [afresh EXCEPT ![e] = queue]
  /\ UNCHANGED <<rowVars, runVars, tailFrame>>

-----------------------------------------------------------------------------
(* Commands: cancel, resume and stop.                                      *)

cmdFrame == <<boxVars, loopVars, awaited, advVars, stopVars>>

(* request_cancel keeps the first reason.                                  *)
RequestCancel(reason) == signal' = IF signal = "none" THEN reason ELSE signal

(* With an execution registered, cancel only sets the signal; otherwise it *)
(* queues for the gate.                                                    *)
CancelBegins(c) ==
  /\ cpc[c] = "off" /\ Spend(c)
  /\ IF Driving THEN RequestCancel(c) /\ UNCHANGED cpc
                ELSE cpc' = [cpc EXCEPT ![c] = "gate"] /\ UNCHANGED signal
  /\ UNCHANGED <<rowVars, runVars, execVars, gate, snap, cmdFrame>>

(* Under the gate: an execution may have started meanwhile, else read the  *)
(* current Run (_cancel_suspended).                                        *)
CancelTakesGate(c) ==
  /\ cpc[c] = "gate" /\ gate = Free
  /\ IF Driving
     THEN /\ RequestCancel(c)
          /\ cpc' = [cpc EXCEPT ![c] = "off"]
          /\ UNCHANGED <<gate, snap>>
     ELSE /\ gate' = c
          /\ cpc' = [cpc EXCEPT ![c] = "decide"]
          /\ Read(c)
          /\ UNCHANGED signal
  /\ UNCHANGED <<rowVars, runVars, execVars, cmdFrame, budget>>

CommandEnds(c) == /\ cpc' = [cpc EXCEPT ![c] = "off"]
                  /\ gate' = Free
                  /\ Forget(c)

CommandMoves(c, to) == cpc' = [cpc EXCEPT ![c] = to] /\ UNCHANGED gate

CancelDecides(c) ==
  /\ c \in Reasons /\ cpc[c] = "decide"
  /\ IF PhaseOf(Judged(c)) = "suspended"
     THEN CommandMoves(c, "transit") /\ Settle(c)
     ELSE CommandEnds(c)
  /\ UNCHANGED <<rowVars, runVars, execVars, signal, cmdFrame, budget>>

(* Mutant of CancelSuspended: the cancellation is not passed on.           *)
CancelQuietly(c) ==
  /\ c \in Reasons /\ cpc[c] = "transit"
  /\ Transit(snap[c].run, "CANCEL")
  /\ CommandEnds(c)
  /\ UNCHANGED <<rowVars, current, propagated, execVars, signal, cmdFrame, budget>>

CancelSuspended(c) ==
  /\ c \in Reasons /\ cpc[c] = "transit"
  /\ Transit(snap[c].run, "CANCEL")
  /\ IF Applies("CANCEL", status[snap[c].run])
     THEN CommandMoves(c, "notify") /\ UNCHANGED snap
     ELSE CommandEnds(c)
  /\ UNCHANGED <<rowVars, current, propagated, execVars, signal, cmdFrame, budget>>

CancelNotifies(c) ==
  /\ cpc[c] = "notify"
  /\ AfterCancelled(snap[c].run, c)
  /\ CommandEnds(c)
  /\ UNCHANGED <<status, current, execVars, signal, cmdFrame, budget>>

ResumeBegins ==
  /\ cpc["resume"] = "off" /\ Spend("resume")
  /\ cpc' = [cpc EXCEPT !["resume"] = "gate"]
  /\ UNCHANGED <<rowVars, runVars, execVars, signal, gate, snap, cmdFrame>>

(* Rejected once stop() began.                                             *)
ResumeTakesGate ==
  /\ cpc["resume"] = "gate" /\ gate = Free
  /\ IF stopping
     THEN cpc' = [cpc EXCEPT !["resume"] = "off"] /\ UNCHANGED <<gate, snap>>
     ELSE /\ gate' = "resume"
          /\ cpc' = [cpc EXCEPT !["resume"] = "decide"]
          /\ Read("resume")
  /\ UNCHANGED <<rowVars, runVars, execVars, signal, cmdFrame, budget>>

ResumeDecides ==
  /\ cpc["resume"] = "decide"
  /\ IF snap["resume"].run # NoRun /\ PhaseOf(Judged("resume")) = "idle"
     THEN CommandMoves("resume", "transit") /\ Settle("resume")
     ELSE CommandEnds("resume")
  /\ UNCHANGED <<rowVars, runVars, execVars, signal, cmdFrame, budget>>

(* RESUME misses unless the Run is cancelled or failed: RUN_NOT_RESUMABLE. *)
ResumeTransits ==
  /\ cpc["resume"] = "transit"
  /\ LET run == snap["resume"].run
     IN  /\ Transit(run, "RESUME")
         /\ IF Applies("RESUME", status[run])
            THEN /\ CommandMoves("resume", "start")
                 /\ propagated' = propagated \ {run}
                 /\ UNCHANGED snap
            ELSE CommandEnds("resume") /\ UNCHANGED propagated
  /\ UNCHANGED <<rowVars, current, execVars, signal, cmdFrame, budget>>

ResumeStarts ==
  /\ cpc["resume"] = "start"
  /\ StartExecution("resume", snap["resume"].run, queue, FALSE)
  /\ CommandEnds("resume")
  /\ UNCHANGED <<rowVars, runVars, signal, loopVars, awaited, advVars, stopVars, budget>>

stopFrame == <<rowVars, boxVars, execVars, watermark, handled, cpc>>

(* The loop is cancelled wherever it is; a database call already handed to *)
(* a worker thread still runs to its end, without the gate.                *)
HaltLoop ==
  /\ spc' = "done" /\ stopped' = TRUE /\ lpc' = "halted"
  /\ apc' = [apc EXCEPT !["loop"] =
               CASE @ = "wake"   -> "strayWake"
                 [] @ = "create" -> "strayCreate"
                 [] OTHER        -> "off"]
  /\ apending' = [apending EXCEPT !["loop"] = {}]
  /\ afresh' = [afresh EXCEPT !["loop"] = {}]
  /\ awaited' = [awaited EXCEPT !["loop"] = NoExec]
  /\ IF apc["loop"] = "wake" THEN UNCHANGED snap ELSE Forget("loop")
  /\ gate' = IF gate = "loop" THEN Free ELSE gate

(* stop(): without an execution halt the loop at once, else signal the     *)
(* execution and stop its teams,                                           *)
StopBegins ==
  /\ spc = "off" /\ Spend("stop")
  /\ stopping' = TRUE
  /\ IF Driving
     THEN /\ RequestCancel("parent")
          /\ spc' = "teams"
          /\ UNCHANGED <<stopped, lpc, advVars, awaited, snap, gate>>
     ELSE HaltLoop /\ UNCHANGED signal
  /\ UNCHANGED <<stopFrame, runVars>>

(* then wait for the execution registered by now, its callback included.   *)
StopWaits ==
  /\ spc = "teams"
  /\ spc' = "wait"
  /\ awaited' = [awaited EXCEPT !["stop"] = exec]
  /\ UNCHANGED <<stopFrame, runVars, signal, gate, snap, lpc, advVars, stopping,
                 stopped, budget>>

StopHalts ==
  /\ spc = "wait" /\ awaited["stop"] = NoExec
  /\ HaltLoop
  /\ UNCHANGED <<stopFrame, runVars, signal, stopping, budget>>

StrayCommit ==
  /\ \/ /\ apc["loop"] = "strayWake"
        /\ Transit(snap["loop"].run, "WAKE")
        /\ UNCHANGED <<current, propagated>>
     \/ apc["loop"] = "strayCreate" /\ OpenRun
  /\ apc' = [apc EXCEPT !["loop"] = "off"]
  /\ Forget("loop")
  /\ UNCHANGED <<stopFrame, signal, gate, lpc, awaited, apending, afresh, stopVars,
                 budget>>

-----------------------------------------------------------------------------
AdvanceStep(a) ==
  \/ AdvanceTakesGate(a) \/ AdvanceDelivers(a) \/ AdvanceStays(a) \/ AdvanceClaims(a)
  \/ AdvanceWakes(a) \/ AdvanceWakeMisses(a) \/ AdvanceCreates(a) \/ AdvanceStarts(a)

DriveStep(e) ==
  \/ RunStops(e) \/ RunSuspends(e) \/ RunTakesInput(e) \/ RunConsumes(e)
  \/ RunClaimsDecision(e)
  \/ RunAsksModel(e) \/ RunContinues(e) \/ RunAnswers(e) \/ RunCompletes(e)
  \/ DriveReturns(e) \/ DriveDrops(e) \/ DriveDropped(e)

TailStep(e) ==
  TailReads(e) \/ TailCancels(e) \/ TailNotifies(e) \/ TailContinues(e)

ExecStep(e) == DriveStep(e) \/ TailStep(e) \/ AdvanceStep(e)

LoopStep == LoopWakes \/ LoopDrained \/ AdvanceStep("loop")

CancelStep(c) ==
  CancelTakesGate(c) \/ CancelDecides(c) \/ CancelSuspended(c) \/ CancelNotifies(c)

ResumeStep == ResumeTakesGate \/ ResumeDecides \/ ResumeTransits \/ ResumeStarts

StopStep == StopWaits \/ StopHalts \/ StrayCommit

Environment ==
  \/ \E c \in Classes : Put(c)
  \/ \E m \in queue : Withdraw(m)
  \/ \E c \in Reasons : CancelBegins(c)
  \/ ResumeBegins \/ StopBegins

Faults ==
  \/ LoopHalts
  \/ \E a \in Advancers : AdvanceFails(a)
  \/ \E e \in Execs : RunFails(e) \/ DriveCrashes(e)

(* Every process is parked: nothing happens until the next outside event.  *)
AtRest ==
  /\ lpc \in {"wait", "halted"} /\ apc["loop"] = "off"
  /\ lpc = "wait" => Fresh = {}
  /\ \A e \in Execs : epc[e] = "off"
  /\ \A c \in Commands : cpc[c] = "off"
  /\ spc \in {"off", "done"}

Rest == AtRest /\ UNCHANGED vars

Next ==
  \/ LoopStep
  \/ \E e \in Execs : ExecStep(e)
  \/ \E c \in Reasons : CancelStep(c)
  \/ ResumeStep \/ StopStep
  \/ Environment \/ Faults \/ Rest

Spec == Init /\ [][Next]_vars

(* The event loop runs every ready task and a worker thread finishes its   *)
(* database call. The lock is not fair, but its holders always release it, *)
(* so a process that waits for it finds it free again and again: strong    *)
(* fairness of each process. The step limit of a Run bounds the rounds     *)
(* before an answer.                                                       *)
Fairness ==
  /\ SF_vars(LoopStep)
  /\ \A e \in Execs : SF_vars(ExecStep(e)) /\ SF_vars(RunAnswers(e))
  /\ \A c \in Reasons : SF_vars(CancelStep(c))
  /\ SF_vars(ResumeStep)
  /\ WF_vars(StopStep)

FairSpec == Spec /\ Fairness

=============================================================================
