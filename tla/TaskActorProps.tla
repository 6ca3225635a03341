---------------------------- MODULE TaskActorProps ----------------------------
(***************************************************************************)
(* What the scheduler of a Task must keep, stated on TaskActor.            *)
(***************************************************************************)
EXTENDS TaskActor

Rows     == [id : 1..issued, kind : Kinds, delivery : Deliveries, owner : 0..MaxRun]
Drives   == {"prepare", "consume", "tools", "model", "answer", "settled", "drop"}
Tails    == {"tail", "tailCancel", "tailNotify", "tailPending", "advance"}
Critical == {"decide", "wake", "create", "startWoken", "startNew"}
Signals  == Reasons \cup {"none"}

RowTypes ==
  /\ issued \in Nat
  /\ queue \subseteq Rows
  /\ context \in Seq([msg : Rows, run : 0..MaxRun])
  /\ withdrawn \subseteq 1..issued

RunTypes ==
  /\ status \in [Runs -> Statuses \cup {"none"}]
  /\ current \in 0..MaxRun
  /\ propagated \subseteq 0..MaxRun
  /\ snap \in [Procs -> [run : 0..MaxRun, st : Statuses \cup {"none"}]]

BoxTypes ==
  /\ mailbox \subseteq [msg : Rows, round : Nat]
  /\ seen \subseteq 1..issued
  /\ posts \in Nat

ExecTypes ==
  /\ exec \in Execs \cup {NoExec}
  /\ runOf \in [Execs -> 0..MaxRun]
  /\ epc \in [Execs -> Drives \cup Tails \cup {"off"}]
  /\ taken \in [Execs -> Signals]
  /\ signal \in Signals
  /\ awaited \in [Waiters -> Execs \cup {NoExec}]

AdvanceTypes ==
  /\ gate \in Procs \cup {Free}
  /\ lpc \in {"wait", "drain", "advance", "halted"}
  /\ watermark \in 0..issued
  /\ handled \in 0..issued
  /\ apc \in [Advancers -> Critical \cup {"off", "gate", "strayWake", "strayCreate"}]
  /\ apending \in [Advancers -> SUBSET Rows]
  /\ afresh \in [Advancers -> SUBSET Rows]

CommandTypes ==
  /\ cpc \in [Commands -> {"off", "gate", "decide", "transit", "notify", "start"}]
  /\ spc \in {"off", "teams", "wait", "done"}
  /\ budget \in [Events -> Nat]

FlagTypes == {waitFlag, stopping, stopped} \subseteq BOOLEAN

TypeOK == /\ RowTypes
          /\ RunTypes
          /\ BoxTypes
          /\ ExecTypes
          /\ AdvanceTypes
          /\ CommandTypes
          /\ FlagTypes

-----------------------------------------------------------------------------
(* Executions, the cancellation signal and the gate.                       *)

(* At most one asyncio task drives a Run, and it is the registered one: an *)
(* execution is released only when its Run was settled, and nothing starts *)
(* a second one ("同一 Task 不会出现两个执行者", task_actor.py).           *)
OneExecutor == \A e \in Execs : epc[e] \in Drives <=> e = exec

(* TaskExecution.start never raises "已有执行": whoever is about to start   *)
(* an execution holds the gate and finds none registered.                  *)
StartsAlone ==
  /\ \A a \in Advancers : apc[a] \in {"wake", "create", "startWoken", "startNew"} =>
       gate = a /\ ~Driving
  /\ cpc["resume"] \in {"transit", "start"} => gate = "resume" /\ ~Driving

(* A cancellation signal exists only while an execution is registered, so  *)
(* it can never stop the next execution ("有执行者才打、注销执行时取走").  *)
SignalHasExecutor == signal # "none" => Driving

(* The gate discipline these rest on. Whoever is between reading the       *)
(* current Run and acting on it holds the gate, it goes on to a start only *)
(* when no execution is registered, and an asyncio task advances only in   *)
(* its callback, after its own execution was released.                     *)
Holding  == {"decide", "transit", "notify", "start"}
Starting == {"wake", "create", "startWoken", "startNew"}

GateHeld == /\ \A a \in Advancers : apc[a] \in Critical => gate = a
            /\ \A c \in Commands : cpc[c] \in Holding => gate = c

StartersFindNone == /\ \A a \in Advancers : apc[a] \in Starting => ~Driving
                    /\ cpc["resume"] \in {"transit", "start"} => ~Driving

AdvancesInTail == \A e \in Execs : apc[e] # "off" => epc[e] = "advance"

ControlTypes ==
  /\ exec \in Execs \cup {NoExec}
  /\ epc \in [Execs -> Drives \cup Tails \cup {"off"}]
  /\ apc \in [Advancers -> Critical \cup {"off", "gate", "strayWake", "strayCreate"}]
  /\ cpc \in [Commands -> {"off", "gate"} \cup Holding]

ControlInv == /\ ControlTypes
              /\ OneExecutor
              /\ SignalHasExecutor
              /\ GateHeld
              /\ StartersFindNone
              /\ AdvancesInTail

-----------------------------------------------------------------------------
(* Messages.                                                               *)

ContextIds == {context[i].msg.id : i \in DOMAIN context}

(* A message is written to the context at most once, over all executions,  *)
(* resumes and wakes, and never after the user took it back.               *)
WrittenOnce ==
  /\ \A i, j \in DOMAIN context : context[i].msg.id = context[j].msg.id => i = j
  /\ ContextIds \cap (Ids(queue) \cup withdrawn) = {}

QueuedInput(entry) == entry.msg.kind \in LaunchKinds /\ entry.msg.delivery = "next_run"

(* Queued inputs are handled in the order they were put, one Run each      *)
(* ("排队消息因此一轮一条依次处理").                                       *)
QueuedInputsInOrder ==
  \A i, j \in DOMAIN context :
    QueuedInput(context[i]) /\ QueuedInput(context[j]) /\ i < j
    => context[i].msg.id < context[j].msg.id /\ context[i].run < context[j].run

(* When nothing moves any more, no message is left that should have moved  *)
(* the Task: none that wakes the suspended Run, and none that opens a Run  *)
(* after a completed one. (A message left behind by a cancelled or failed  *)
(* Run waits for the next one.)                                            *)
NothingForgotten ==
  AtRest /\ lpc = "wait" /\ ~stopping =>
    /\ CurrentStatus = "suspended" => \A m \in Immediate(queue) : ~Wakes(m, current)
    /\ CurrentStatus \in {"none", "completed"} => \A m \in queue : ~Wakes(m, NoRun)

(* Once a Run is cancelled and nothing moves, its cancellation was passed  *)
(* on to the child Tasks, whoever cancelled it.                            *)
CancelReachesDownstream ==
  AtRest /\ ~stopping =>
    \A r \in Runs : status[r] = "cancelled" => r \in propagated

-----------------------------------------------------------------------------
(* The Task as its callers see it.                                         *)

Lifecycle == INSTANCE RunLifecycle
               WITH MaxRun <- MaxRun, status <- status, current <- current

(* Whatever the actor, its executions and the commands do, the Runs of the *)
(* Task move as RunLifecycle says: one Run after the other, a new one only *)
(* once the one before it holds the Task no more.                          *)
ImplementsLifecycle == Lifecycle!Spec

(* "同一 Task 同时至多一条" (conversation_run_status.py).                  *)
AtMostOneActive == Lifecycle!AtMostOneActive

(* Every running Run has an executor, or is about to get one under the     *)
(* gate ("不存在「running 但没有执行者」").                                *)
RunningRunIsDriven ==
  \A r \in Runs : status[r] = "running" =>
    \/ \E e \in Execs : runOf[e] = r
    \/ \E a \in Advancers : apc[a] \in {"startWoken", "startNew"} /\ snap[a].run = r
    \/ cpc["resume"] = "start" /\ snap["resume"].run = r

(* A waiter of wait_quiescent is answered: when nothing moves any more and *)
(* the Task looks idle, _quiescent holds ("执行结束后会接续它们").         *)
RestIsQuiescent ==
  AtRest /\ ~stopped /\ PhaseOf(CurrentStatus) = "idle" =>
    LET continues == CurrentStatus \in {"none", "completed"}
    IN  ~\E m \in queue : Wakes(m, NoRun) /\ (continues \/ m.id > handled)

-----------------------------------------------------------------------------
(* Liveness.                                                               *)

(* The Task always comes to rest again: no lock, signal, callback or       *)
(* command keeps a process waiting for ever, and no unconfirmed row makes  *)
(* the loop spin.                                                          *)
ComesToRest == []<>AtRest

AnsweredInput(id) ==
  \E i \in DOMAIN context : context[i].msg.id = id

(* A message the loop has seen while it waits for a stopped execution to   *)
(* end is answered: it is neither delivered to the dying execution and     *)
(* lost nor left behind ("停止期间先等执行落定再判定", task_actor.py).         *)
DrainedInputIsAnswered ==
  \A id \in 1..Budget["put"] :
    (lpc = "drain" /\ \E m \in afresh["loop"] : m.id = id /\ m.kind = "user_input" /\ m.delivery = "immediate")
    ~> (AnsweredInput(id) \/ stopping)

-----------------------------------------------------------------------------
(* Statements of the docs that the code does not keep. They are refuted by *)
(* short interleavings, which the README gives with the bounds TLC needs.  *)

(* A Run that an execution drives is running: a Run is cancelled from      *)
(* outside only when it has no executor.                                   *)
DrivenRunIsRunning ==
  \A e \in Execs :
    epc[e] \in Drives \ {"settled", "drop"} => status[runOf[e]] = "running"

(* A Run opened with a launch input takes that input: it is still waiting  *)
(* when the Run starts.                                                    *)
LaunchInputWaits ==
  \A a \in Advancers : apc[a] = "startNew" => NextInput(apending[a]) \subseteq queue

(* stop() "不调度后续 Run": once it returned, nothing drives the Task.     *)
StoppedForGood == spc = "done" => ~Driving

(* A message the user sends while the Task is being stopped is answered:   *)
(* it is neither delivered to the dying execution and lost nor left behind *)
(* ("用户停下后又发的消息就是这一轮的新消息，自然开新 Run").              *)
InputAfterStopIsAnswered ==
  \A id \in 1..Budget["put"] :
    (/\ signal = "user" /\ id > watermark
     /\ \E m \in queue : m.id = id /\ m.kind = "user_input" /\ m.delivery = "immediate")
    ~> (AnsweredInput(id) \/ stopping)

=============================================================================
