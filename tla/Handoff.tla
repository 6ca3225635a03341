------------------------------ MODULE Handoff ------------------------------
(***************************************************************************)
(* The terminal sessions of one Task and the calls that hand them to the   *)
(* user: how a session opens and ends (session_service.py,                 *)
(* session_runtime.py, worker_client.py), the table of hand-offs           *)
(* (handoff_registry.py), the decision that a waiting call gets            *)
(* (tool_decision_service.py), and the nodes of the Run that place, replay *)
(* and settle such a call (prepare_input_node.py, tool_batch_runner.py,    *)
(* tool_observation_projection.py). Threads: the Run, one that opens each  *)
(* session, the reader of each worker, one that disposes of each worker,   *)
(* the executor of side effects, the user, and the deletion or shutdown.   *)
(***************************************************************************)
EXTENDS Integers, FiniteSets, Sequences

CONSTANTS Sessions, HandoffCalls,
          NoSession, NoCall,
          MaxActive,      \* Constant.Terminal.MAX_ACTIVE_SESSIONS
          MaxTurns,       \* bound: inputs of the user, edited ones included
          MaxStops,       \* bound: stops of the Run and of single calls
          EarlySettle,    \* whether a settlement may come before the row of its call
          StopsReplay     \* whether a stop may meet a call between its hand-off and its replay

ASSUME HandoffAssumption ==
  /\ NoSession \notin Sessions /\ NoCall \notin HandoffCalls
  /\ MaxActive \in Nat \ {0} /\ MaxTurns \in Nat \ {0} /\ MaxStops \in Nat
  /\ EarlySettle \in BOOLEAN /\ StopsReplay \in BOOLEAN

VARIABLES
  status,   \* of each session: "unused", "starting", "running", "ended"
  maker,    \* created_by
  ending,   \* "none", or whether the end was announced: "told", "silent"
  place,    \* the collection that lists it: "none", "registry", "history", "gone"
  worker,   \* its process: "none", "starting", "ready", "dead", "closed"
  opener,   \* the thread inside TerminalSessionService.start
  disposer, \* who won the end: "none", "owes" dispose_worker, "retires", "done"
  lease,    \* HandoffRegistry._leases: call -> session
  effects,  \* the queue of the effects executor
  settling, \* the call whose lease a settlement has taken
  sessionGate,     \* "open", or what closes the sessions: "deleting", "shutdown"
  swept,    \* sessions _close_matching has yet to end
  sweeping, \* the one whose disposal it waits for
  callRow,      \* the result row of a call: "none", "pending", "running", "done"
  turnOf,   \* the turn a call belongs to, 0 before it is made
  withdrawn,\* calls whose turn was edited away
  inbox,    \* decisions in the queue of the Task
  seen,     \* how many of them the actor has judged
  mailed,     \* how many of them are in the mailbox of the execution
  notices,  \* sessions whose end is told by a system notice
  runState,      \* status of the current Run
  pc,       \* where its execution is, "rest" for none
  call,     \* the call it executes
  target,   \* the session a call names
  said,     \* an input of the user waits
  turn,
  stopSignal,   \* cancellation_registry: the Task is told to stop
  stopMarks,   \* tool_call_cancellation_registry: the calls told to stop
  stops,
  replays   \* how often the handler ran with a decision

sessionVars == <<status, maker, ending, place, worker, opener, disposer>>
sweepVars   == <<sessionGate, swept, sweeping>>
queueVars   == <<inbox, seen, mailed>>
workflowVars     == <<runState, pc, call, said, turn, stopSignal, stopMarks, stops>>
callVars    == <<callRow, turnOf, withdrawn, target, replays>>
handoffVars == <<sessionVars, lease, effects, settling, sweepVars, queueVars, notices, workflowVars, callVars>>

Active == {"starting", "running"}
ActiveSessions == {s \in Sessions : status[s] \in Active /\ place[s] = "registry"}
On(s) == {c \in HandoffCalls : lease[c] = s}
Driving == pc # "rest"
Free == UNCHANGED <<lease, effects, settling>>

HandoffInit ==
  /\ status = [s \in Sessions |-> "unused"] /\ maker = [s \in Sessions |-> "agent"]
  /\ ending = [s \in Sessions |-> "none"] /\ place = [s \in Sessions |-> "none"]
  /\ worker = [s \in Sessions |-> "none"] /\ opener = [s \in Sessions |-> "idle"]
  /\ disposer = [s \in Sessions |-> "none"]
  /\ lease = [c \in HandoffCalls |-> NoSession] /\ effects = <<>> /\ settling = NoCall
  /\ sessionGate = "open" /\ swept = {} /\ sweeping = NoSession
  /\ callRow = [c \in HandoffCalls |-> "none"] /\ turnOf = [c \in HandoffCalls |-> 0]
  /\ withdrawn = {} /\ target = [c \in HandoffCalls |-> NoSession]
  /\ inbox = <<>> /\ seen = 0 /\ mailed = 0 /\ notices = {}
  /\ runState = "none" /\ pc = "rest" /\ call = NoCall /\ said = FALSE /\ turn = 0
  /\ stopSignal = FALSE /\ stopMarks = {} /\ stops = 0
  /\ replays = [c \in HandoffCalls |-> 0]

-----------------------------------------------------------------------------
(* The end of a session. Only the first end counts; who wins it owes the    *)
(* disposal of the worker. An end the Agent does not know of is told by a   *)
(* notice, or by a decision in the name of the user where the session is    *)
(* handed off, unless the Agent is waiting in the session and will see it.  *)

Waits(s) == pc = "waiting" /\ target[call] = s

EndEffects(s, sees) ==
  IF On(s) # {} THEN <<[kind |-> "settle", on |-> CHOOSE c \in On(s) : TRUE]>>
  ELSE IF maker[s] = "agent" /\ ~sees THEN <<[kind |-> "notice", on |-> s]>> ELSE <<>>

SessionEnds(s, announce, sees) ==
  /\ status' = [status EXCEPT ![s] = "ended"]
  /\ ending' = [ending EXCEPT ![s] = IF announce THEN "told" ELSE "silent"]
  /\ disposer' = [disposer EXCEPT ![s] = "owes"]
  /\ effects' =
       effects \o IF announce /\ sessionGate # "shutdown" THEN EndEffects(s, sees) ELSE <<>>

Finish(s, announce) ==
  IF status[s] \in Active THEN SessionEnds(s, announce, Waits(s))
                          ELSE UNCHANGED <<status, ending, disposer, effects>>

-----------------------------------------------------------------------------
(* A session opens: it is listed first, its worker is launched under a lock *)
(* of its own, and the thread looks once more whether all is being closed.  *)

Opens(s, who) ==
  /\ status[s] = "unused" /\ sessionGate = "open"
  /\ Cardinality(ActiveSessions) < MaxActive
  /\ status' = [status EXCEPT ![s] = "starting"]
  /\ maker' = [maker EXCEPT ![s] = who]
  /\ place' = [place EXCEPT ![s] = "registry"]
  /\ opener' = [opener EXCEPT ![s] = "begun"]
  /\ UNCHANGED <<ending, worker, disposer>>

AgentOpens(s) ==
  /\ pc = "model" /\ Opens(s, "agent") /\ pc' = "opening"
  /\ Free
  /\ UNCHANGED <<sweepVars, queueVars, notices, runState, call, said, turn, stopSignal, stopMarks, stops, callVars>>

UserOpens(s) ==
  /\ Opens(s, "user") /\ Free
  /\ UNCHANGED <<sweepVars, queueVars, notices, workflowVars, callVars>>

Locked(s) == opener[s] \in {"locked", "shaking"}

StartLocks(s) ==
  /\ opener[s] = "begun"
  /\ opener' = [opener EXCEPT ![s] = IF status[s] = "starting" THEN "locked" ELSE "failing"]
  /\ UNCHANGED <<status, maker, ending, place, worker, disposer>> /\ Free
  /\ UNCHANGED <<sweepVars, queueVars, notices, workflowVars, callVars>>

Launches(s) ==
  /\ opener[s] = "locked"
  /\ opener' = [opener EXCEPT ![s] = "shaking"]
  /\ worker' = [worker EXCEPT ![s] = "starting"]
  /\ UNCHANGED <<status, maker, ending, place, disposer>> /\ Free
  /\ UNCHANGED <<sweepVars, queueVars, notices, workflowVars, callVars>>

HandshakeArrives(s) ==
  /\ worker[s] = "starting"
  /\ worker' = [worker EXCEPT ![s] = "ready"]
  /\ UNCHANGED <<status, maker, ending, place, opener, disposer>> /\ Free
  /\ UNCHANGED <<sweepVars, queueVars, notices, workflowVars, callVars>>

(* The handshake is there: the session runs, unless it ended meanwhile.     *)
Starts(s) ==
  /\ opener[s] = "shaking" /\ worker[s] \in {"ready", "dead"}
  /\ opener' = [opener EXCEPT ![s] = "check"]
  /\ status' = [status EXCEPT ![s] = IF @ = "starting" THEN "running" ELSE @]
  /\ UNCHANGED <<maker, ending, place, worker, disposer>> /\ Free
  /\ UNCHANGED <<sweepVars, queueVars, notices, workflowVars, callVars>>

(* No handshake in time, or not a valid one: the worker is closed at once.  *)
HandshakeFails(s) ==
  /\ opener[s] = "shaking" /\ worker[s] = "starting"
  /\ opener' = [opener EXCEPT ![s] = "failing"]
  /\ worker' = [worker EXCEPT ![s] = "closed"]
  /\ UNCHANGED <<status, maker, ending, place, disposer>> /\ Free
  /\ UNCHANGED <<sweepVars, queueVars, notices, workflowVars, callVars>>

StartChecks(s) ==
  /\ opener[s] = "check"
  /\ opener' = [opener EXCEPT ![s] = IF sessionGate = "open" THEN "done" ELSE "failing"]
  /\ UNCHANGED <<status, maker, ending, place, worker, disposer>> /\ Free
  /\ UNCHANGED <<sweepVars, queueVars, notices, workflowVars, callVars>>

StartFails(s) ==
  /\ opener[s] = "failing"
  /\ opener' = [opener EXCEPT ![s] = "done"]
  /\ Finish(s, FALSE)
  /\ UNCHANGED <<maker, place, worker, lease, settling>>
  /\ UNCHANGED <<sweepVars, queueVars, notices, workflowVars, callVars>>

(* The tool that opened a session returns.                                  *)
AgentOpened ==
  /\ pc = "opening"
  /\ \A s \in Sessions : maker[s] = "agent" => opener[s] \in {"idle", "done"}
  /\ pc' = "model"
  /\ UNCHANGED <<sessionVars, lease, effects, settling, sweepVars, queueVars, notices>>
  /\ UNCHANGED <<runState, call, said, turn, stopSignal, stopMarks, stops, callVars>>

(* The shell exits or the worker fails, and the reader tells the session.   *)
WorkerExits(s) ==
  /\ worker[s] = "ready"
  /\ worker' = [worker EXCEPT ![s] = "dead"]
  /\ Finish(s, TRUE)
  /\ UNCHANGED <<maker, place, opener, lease, settling>>
  /\ UNCHANGED <<sweepVars, queueVars, notices, workflowVars, callVars>>

UserCloses(s) ==
  /\ place[s] \in {"registry", "history"} /\ status[s] \in Active
  /\ Finish(s, TRUE)
  /\ UNCHANGED <<maker, place, worker, opener, lease, settling>>
  /\ UNCHANGED <<sweepVars, queueVars, notices, workflowVars, callVars>>

AgentCloses(s) ==
  /\ pc = "model" /\ ~stopSignal
  /\ place[s] = "registry" /\ status[s] \in Active
  /\ Finish(s, FALSE)
  /\ UNCHANGED <<maker, place, worker, opener, lease, settling>>
  /\ UNCHANGED <<sweepVars, queueVars, notices, workflowVars, callVars>>

(* dispose_worker waits for the lock of the launch, then closes the worker. *)
(* Mutant of Disposable: it does not wait.                                  *)
DisposableAtOnce(s) == disposer[s] = "owes"

Disposable(s) == disposer[s] = "owes" /\ ~Locked(s)

Disposes(s) ==
  /\ Disposable(s)
  /\ worker' = [worker EXCEPT ![s] = IF @ = "none" THEN @ ELSE "closed"]
  /\ disposer' = [disposer EXCEPT ![s] = "retires"]
  /\ UNCHANGED <<status, maker, ending, place, opener>> /\ Free
  /\ UNCHANGED <<sweepVars, queueVars, notices, workflowVars, callVars>>

Retires(s) ==
  /\ disposer[s] = "retires"
  /\ disposer' = [disposer EXCEPT ![s] = "done"]
  /\ place' = [place EXCEPT ![s] = IF sessionGate = "open" THEN "history" ELSE "gone"]
  /\ UNCHANGED <<status, maker, ending, worker, opener>> /\ Free
  /\ UNCHANGED <<sweepVars, queueVars, notices, workflowVars, callVars>>

-----------------------------------------------------------------------------
(* The deletion of the Task and the shutdown of the backend end all its     *)
(* sessions; both come when no Run is left.                                 *)

Sweeps(why) ==
  /\ sessionGate = "open" /\ pc = "rest"
  /\ sessionGate' = why
  /\ swept' = {s \in Sessions : place[s] = "registry"}
  /\ place' = [s \in Sessions |-> IF place[s] = "registry" THEN "gone" ELSE place[s]]
  /\ lease' = IF why = "shutdown" THEN [c \in HandoffCalls |-> NoSession] ELSE lease
  /\ runState' = IF runState = "suspended" /\ why = "deleting" THEN "ended" ELSE runState
  /\ UNCHANGED <<status, maker, ending, worker, opener, disposer, effects, settling, sweeping>>
  /\ UNCHANGED <<queueVars, notices, pc, call, said, turn, stopSignal, stopMarks, stops, callVars>>

SweepEnds(s) ==
  /\ sweeping = NoSession /\ s \in swept
  /\ swept' = swept \ {s} /\ sweeping' = s
  /\ Finish(s, FALSE)
  /\ UNCHANGED <<maker, place, worker, opener, lease, settling, sessionGate>>
  /\ UNCHANGED <<queueVars, notices, workflowVars, callVars>>

SweepGoesOn ==
  /\ sweeping # NoSession /\ disposer[sweeping] \in {"retires", "done"}
  /\ sweeping' = NoSession
  /\ place' = IF swept # {} THEN place
              ELSE [s \in Sessions |-> IF place[s] = "history" THEN "gone" ELSE place[s]]
  /\ lease' = IF swept = {} THEN [c \in HandoffCalls |-> NoSession] ELSE lease
  /\ UNCHANGED <<status, maker, ending, worker, opener, disposer, effects, settling, sessionGate, swept>>
  /\ UNCHANGED <<queueVars, notices, workflowVars, callVars>>

SweepIsOver == sessionGate # "open" /\ swept = {} /\ sweeping = NoSession

-----------------------------------------------------------------------------
(* The executor of side effects, one at a time.                             *)

Notices ==
  /\ effects # <<>> /\ settling = NoCall /\ Head(effects).kind = "notice"
  /\ notices' = IF sessionGate = "deleting" THEN notices ELSE notices \cup {Head(effects).on}
  /\ effects' = Tail(effects)
  /\ UNCHANGED <<sessionVars, lease, settling, sweepVars, queueVars, workflowVars, callVars>>

(* HandoffRegistry.settle: it takes the lease, and submits a rejection only *)
(* when there was one.                                                      *)
Settles ==
  /\ effects # <<>> /\ settling = NoCall /\ Head(effects).kind = "settle"
  /\ LET c == Head(effects).on
     IN  IF lease[c] = NoSession
         THEN settling' = NoCall /\ effects' = Tail(effects) /\ UNCHANGED lease
         ELSE settling' = c /\ lease' = [lease EXCEPT ![c] = NoSession] /\ UNCHANGED effects
  /\ UNCHANGED <<sessionVars, sweepVars, queueVars, notices, workflowVars, callVars>>

Queued(c) == {i \in 1..Len(inbox) : inbox[i] = c}

(* ToolDecisionService.submit: the call still waits and has no decision in  *)
(* the queue.                                                               *)
Admits(c) == callRow[c] = "pending" /\ c \notin withdrawn /\ Queued(c) = {}

SettleSubmits ==
  /\ settling # NoCall
  /\ EarlySettle \/ callRow[settling] # "none"
  /\ inbox' = IF Admits(settling) /\ sessionGate # "deleting" THEN Append(inbox, settling) ELSE inbox
  /\ settling' = NoCall /\ effects' = Tail(effects)
  /\ UNCHANGED <<sessionVars, lease, sweepVars, seen, mailed, notices, workflowVars, callVars>>

UserDecides(c) ==
  /\ sessionGate = "open" /\ Admits(c)
  /\ inbox' = Append(inbox, c)
  /\ UNCHANGED <<sessionVars, lease, effects, settling, sweepVars, seen, mailed, notices, workflowVars, callVars>>

-----------------------------------------------------------------------------
(* The Run, as its actor drives it.                                         *)

UserSays ==
  /\ sessionGate = "open" /\ pc = "rest" /\ runState # "suspended" /\ ~said /\ turn < MaxTurns
  /\ said' = TRUE
  /\ UNCHANGED <<sessionVars, lease, effects, settling, sweepVars, queueVars, notices>>
  /\ UNCHANGED <<runState, pc, call, turn, stopSignal, stopMarks, stops, callVars>>

(* Editing the latest input takes its turn out of the context, with every   *)
(* hand-off it began, and queues the new input, in one transaction.         *)
OfTurn == {c \in HandoffCalls : turnOf[c] = turn} \ withdrawn

UserEditsTurn ==
  /\ sessionGate = "open" /\ pc = "rest" /\ runState = "ended" /\ ~said /\ turn \in 1..(MaxTurns - 1)
  /\ withdrawn' = withdrawn \cup OfTurn /\ said' = TRUE
  /\ lease' = [c \in HandoffCalls |-> IF c \in OfTurn THEN NoSession ELSE lease[c]]
  /\ UNCHANGED <<sessionVars, effects, settling, sweepVars, queueVars, notices>>
  /\ UNCHANGED <<runState, pc, call, turn, stopSignal, stopMarks, stops, callRow, turnOf, target, replays>>

(* A new input, or a decision nobody judged, opens a Run or wakes the       *)
(* suspended one.                                                           *)
Begins ==
  /\ sessionGate = "open" /\ pc = "rest"
  /\ seen < Len(inbox) \/ (said /\ runState # "suspended")
  /\ runState' = "running" /\ pc' = "prepare"
  /\ seen' = Len(inbox) /\ mailed' = Len(inbox)
  /\ UNCHANGED <<sessionVars, lease, effects, settling, sweepVars, inbox, notices>>
  /\ UNCHANGED <<call, said, turn, stopSignal, stopMarks, stops, callVars>>

Delivers ==
  /\ Driving /\ seen < Len(inbox)
  /\ seen' = Len(inbox) /\ mailed' = Len(inbox)
  /\ UNCHANGED <<sessionVars, lease, effects, settling, sweepVars, inbox, notices, workflowVars, callVars>>

(* The tail of an execution: mailbox, signal and marks are dropped.         *)
Rests(st) ==
  /\ runState' = st /\ pc' = "rest" /\ call' = NoCall
  /\ mailed' = 0 /\ stopSignal' = FALSE /\ stopMarks' = {}
  /\ UNCHANGED <<sessionVars, lease, effects, settling, sweepVars, inbox, seen, notices>>
  /\ UNCHANGED <<said, turn, stops, callVars>>

RunStopped == pc \in {"prepare", "parks"} /\ stopSignal /\ Rests("ended")

(* The batch asked to wait: the Run is suspended, unless mail is there.     *)
Suspends == pc = "parks" /\ ~stopSignal /\ mailed = 0 /\ Rests("suspended")

GoesOn ==
  /\ pc = "parks" /\ ~stopSignal /\ mailed > 0 /\ pc' = "prepare"
  /\ UNCHANGED <<sessionVars, lease, effects, settling, sweepVars, queueVars, notices>>
  /\ UNCHANGED <<runState, call, said, turn, stopSignal, stopMarks, stops, callVars>>

(* _route_decision: one transaction confirms the decision and moves a row   *)
(* that still waits to running. A call the context no longer has is left to *)
(* the model.                                                               *)
Claimed(c) == IF callRow[c] = "pending" /\ c \notin withdrawn THEN [callRow EXCEPT ![c] = "running"] ELSE callRow

Claims ==
  /\ pc = "prepare" /\ ~stopSignal /\ mailed > 0
  /\ inbox' = Tail(inbox) /\ mailed' = mailed - 1 /\ seen' = seen - 1
  /\ callRow' = Claimed(Head(inbox))
  /\ IF Head(inbox) \in withdrawn THEN UNCHANGED <<pc, call>>
                                  ELSE pc' = "replay" /\ call' = Head(inbox)
  /\ UNCHANGED <<sessionVars, lease, effects, settling, sweepVars, notices>>
  /\ UNCHANGED <<runState, said, turn, stopSignal, stopMarks, stops, turnOf, withdrawn, target, replays>>

Told(c) == stopSignal \/ c \in stopMarks

(* The runner looks for a stop, then the handler takes the lease back and   *)
(* reports on the session.                                                  *)
HandsBack(c) == [lease EXCEPT ![c] = NoSession]

Replays ==
  /\ pc = "replay" /\ pc' = "settle"
  /\ IF Told(call) THEN UNCHANGED <<lease, replays>>
     ELSE /\ lease' = HandsBack(call)
          /\ replays' = [replays EXCEPT ![call] = @ + 1]
  /\ stopMarks' = stopMarks \ {call}
  /\ UNCHANGED <<sessionVars, effects, settling, sweepVars, queueVars, notices>>
  /\ UNCHANGED <<runState, call, said, turn, stopSignal, stops, callRow, turnOf, withdrawn, target>>

SettlesRow ==
  /\ pc = "settle" /\ pc' = "prepare" /\ call' = NoCall
  /\ callRow' = [callRow EXCEPT ![call] = "done"]
  /\ UNCHANGED <<sessionVars, lease, effects, settling, sweepVars, queueVars, notices>>
  /\ UNCHANGED <<runState, said, turn, stopSignal, stopMarks, stops, turnOf, withdrawn, target, replays>>

(* Every other message goes in, and the model is asked.                     *)
AsksModel ==
  /\ pc = "prepare" /\ ~stopSignal /\ mailed = 0
  /\ pc' = "model"
  /\ said' = FALSE /\ turn' = IF said THEN turn + 1 ELSE turn
  /\ UNCHANGED <<sessionVars, lease, effects, settling, sweepVars, queueVars, notices>>
  /\ UNCHANGED <<runState, call, stopSignal, stopMarks, stops, callVars>>

Completes == pc = "model" /\ Rests("ended")

(* The model calls a tool of a session: terminal_handoff, or a read that    *)
(* waits.                                                                   *)
CallsTool(c, s, where) ==
  /\ pc = "model" /\ turnOf[c] = 0 /\ status[s] # "unused"
  /\ pc' = where /\ call' = c
  /\ turnOf' = [turnOf EXCEPT ![c] = turn]
  /\ target' = [target EXCEPT ![c] = s]
  /\ UNCHANGED <<sessionVars, lease, effects, settling, sweepVars, queueVars, notices>>
  /\ UNCHANGED <<runState, said, turn, stopSignal, stopMarks, stops, callRow, withdrawn, replays>>

CallsHandoff(c, s) == CallsTool(c, s, "hands")
CallsRead(c, s)    == CallsTool(c, s, "waiting")

(* begin_handoff, under the lock of the session.                            *)
Leasable(c) ==
  /\ ~Told(c)
  /\ place[target[c]] \in {"registry", "history"} /\ status[target[c]] = "running"
  /\ On(target[c]) = {}

HandsOver ==
  /\ pc = "hands"
  /\ IF Leasable(call)
     THEN lease' = [lease EXCEPT ![call] = target[call]] /\ pc' = "awaits"
     ELSE UNCHANGED lease /\ pc' = "fails"
  /\ stopMarks' = stopMarks \ {call}
  /\ UNCHANGED <<sessionVars, effects, settling, sweepVars, queueVars, notices>>
  /\ UNCHANGED <<runState, call, said, turn, stopSignal, stops, callVars>>

(* observation_node: the row is stored only now, and the Run will wait.     *)
Observes ==
  /\ pc \in {"awaits", "fails"}
  /\ callRow' = [callRow EXCEPT ![call] = IF pc = "awaits" THEN "pending" ELSE "done"]
  /\ pc' = IF pc = "awaits" THEN "parks" ELSE "prepare"
  /\ call' = NoCall
  /\ UNCHANGED <<sessionVars, lease, effects, settling, sweepVars, queueVars, notices>>
  /\ UNCHANGED <<runState, said, turn, stopSignal, stopMarks, stops, turnOf, withdrawn, target, replays>>

(* A wait in a session returns: a stop, the end of the session, or what it  *)
(* waited for.                                                              *)
WaitReturns ==
  /\ pc = "waiting" /\ pc' = "fails" /\ stopMarks' = stopMarks \ {call}
  /\ UNCHANGED <<sessionVars, lease, effects, settling, sweepVars, queueVars, notices>>
  /\ UNCHANGED <<runState, call, said, turn, stopSignal, stops, callVars>>

UserStopsRun ==
  /\ stops < MaxStops /\ (StopsReplay \/ pc # "replay")
  /\ stops' = stops + 1
  /\ \/ Driving /\ ~stopSignal /\ stopSignal' = TRUE /\ UNCHANGED runState
     \/ ~Driving /\ runState = "suspended" /\ runState' = "ended" /\ UNCHANGED stopSignal
  /\ UNCHANGED <<sessionVars, lease, effects, settling, sweepVars, queueVars, notices>>
  /\ UNCHANGED <<pc, call, said, turn, stopMarks, callVars>>

UserStopsCall(c) ==
  /\ stops < MaxStops /\ (StopsReplay \/ lease[c] = NoSession)
  /\ Driving /\ c \notin stopMarks /\ turnOf[c] # 0
  /\ stops' = stops + 1 /\ stopMarks' = stopMarks \cup {c}
  /\ UNCHANGED <<sessionVars, lease, effects, settling, sweepVars, queueVars, notices>>
  /\ UNCHANGED <<runState, pc, call, said, turn, stopSignal, callVars>>

HandoffResting == sessionGate # "open" /\ UNCHANGED handoffVars

SessionSteps(s) ==
  \/ StartLocks(s) \/ Launches(s) \/ HandshakeArrives(s) \/ Starts(s) \/ HandshakeFails(s)
  \/ StartChecks(s) \/ StartFails(s) \/ Disposes(s) \/ Retires(s) \/ SweepEnds(s)

RunSteps ==
  \/ Begins \/ Delivers \/ RunStopped \/ Suspends \/ GoesOn \/ Claims \/ Replays \/ SettlesRow
  \/ AsksModel \/ HandsOver \/ Observes \/ WaitReturns \/ AgentOpened

EffectSteps == Notices \/ Settles \/ SettleSubmits \/ SweepGoesOn

HandoffNext ==
  \/ \E s \in Sessions :
       \/ SessionSteps(s) \/ WorkerExits(s)
       \/ AgentOpens(s) \/ UserOpens(s) \/ UserCloses(s) \/ AgentCloses(s)
       \/ \E c \in HandoffCalls : CallsHandoff(c, s) \/ CallsRead(c, s)
  \/ \E c \in HandoffCalls : UserDecides(c) \/ UserStopsCall(c)
  \/ RunSteps \/ EffectSteps \/ Completes
  \/ UserSays \/ UserEditsTurn \/ UserStopsRun
  \/ \E why \in {"deleting", "shutdown"} : Sweeps(why)
  \/ HandoffResting

HandoffSpec == HandoffInit /\ [][HandoffNext]_handoffVars

(* The threads keep running; the user, the worker and the model need not    *)
(* act.                                                                     *)
HandoffFairness ==
  /\ WF_handoffVars(RunSteps) /\ WF_handoffVars(EffectSteps)
  /\ \A s \in Sessions : WF_handoffVars(SessionSteps(s))

FairHandoffSpec == HandoffSpec /\ HandoffFairness

-----------------------------------------------------------------------------
HandoffTypeOK ==
  /\ status \in [Sessions -> {"unused", "ended"} \cup Active]
  /\ maker \in [Sessions -> {"agent", "user"}]
  /\ ending \in [Sessions -> {"none", "told", "silent"}]
  /\ place \in [Sessions -> {"none", "registry", "history", "gone"}]
  /\ worker \in [Sessions -> {"none", "starting", "ready", "dead", "closed"}]
  /\ opener \in [Sessions -> {"idle", "begun", "locked", "shaking", "check", "failing", "done"}]
  /\ disposer \in [Sessions -> {"none", "owes", "retires", "done"}]
  /\ lease \in [HandoffCalls -> Sessions \cup {NoSession}]
  /\ settling \in HandoffCalls \cup {NoCall}
  /\ callRow \in [HandoffCalls -> {"none", "pending", "running", "done"}]
  /\ inbox \in Seq(HandoffCalls) /\ mailed <= seen /\ seen <= Len(inbox)
  /\ call \in HandoffCalls \cup {NoCall}

(* Nothing of a worker outlives the close of its sessions: when the         *)
(* deletion of the Task or the shutdown has gone through them, no worker is *)
(* left alive, one that was being launched meanwhile included               *)
(* (TerminalSessionRuntime.start, dispose_worker).                          *)
NoWorkerOutlivesSweep ==
  SweepIsOver => \A s \in Sessions :
    worker[s] \in {"none", "closed"} /\ opener[s] # "locked"

(* A decision is carried out once: a call has at most one decision in the   *)
(* queue and none after its replay, whoever decides, the user or the end of *)
(* the session (ToolDecisionService.submit, _route_decision).               *)
DecidedOnce ==
  \A c \in HandoffCalls : Cardinality(Queued(c)) + replays[c] <= 1

(* A resource that is handed off has a call that will give it back: the     *)
(* call is being placed, waits, or its decision is being carried out        *)
(* (HandoffRegistry: every path that ends a hand-off goes through it).      *)
LeaseHasCall ==
  \A c \in HandoffCalls : lease[c] # NoSession =>
    \/ callRow[c] = "pending" /\ c \notin withdrawn
    \/ call = c /\ pc \in {"awaits", "replay"}
    \/ sessionGate # "open"

(* A hand-over is decided once, its lease has a call, and no worker is left *)
(* after the sweep of the shutdown.                                         *)
HandoffIsSound == NoWorkerOutlivesSweep /\ DecidedOnce /\ LeaseHasCall

(* A session that ends behind the back of an Agent that waits for it to be  *)
(* handed back is decided in the name of the user: the Agent does not wait  *)
(* for ever (TerminalSessionRuntime.finish, HandoffRegistry.settle).        *)
EndedHandoffIsDecided ==
  \A c \in HandoffCalls :
    ( /\ callRow[c] = "pending" /\ c \notin withdrawn
      /\ ending[target[c]] = "told" )
    ~> ( \/ callRow[c] # "pending" \/ c \in withdrawn
         \/ Queued(c) # {} \/ sessionGate # "open" )
=============================================================================
