----------------------------- MODULE TerminalExec -----------------------------
(***************************************************************************)
(* One command of execute_terminal: the worker process that runs it        *)
(* (worker_client.py in the mode "exec"), the thread that waits for it     *)
(* (LocalExecutionBackend), the text that is kept for the result           *)
(* (_OutputCollector), and the channel that shows it while it comes        *)
(* (TerminalOutputStream), drained on the event loop. Text is counted in   *)
(* chunks.                                                                 *)
(***************************************************************************)
EXTENDS Integers, Sequences

CONSTANTS MaxChunks   \* bound: chunks of output

ASSUME TerminalExecAssumption == MaxChunks \in Nat

VARIABLES
  worker,     \* "none", "starting", "running", "gone": the process and its command
  shutdown,   \* the worker was told to shut down
  produced,   \* chunks the command has written
  pipe,       \* events of the worker that are not read yet
  held,       \* an event that is read and not delivered
  cut,        \* _stop_event: the connection is being closed
  thread,     \* what execute is at
  stopped,    \* stop was called
  ends,       \* _Outcome: how the command ended, as far as it is known
  collected, sealed,
  result, resultText,
  unsent, scheduled, timer, streamClosed, drained, published, loopQueue, loop

processVars == <<worker, shutdown, produced, pipe, held, cut>>
threadVars == <<thread, stopped, ends, sealed, result, resultText>>
loopVars == <<timer, streamClosed, drained, published>>
execVars == <<processVars, threadVars, collected, unsent, scheduled, loopQueue, loop, loopVars>>

Chunks == 0..MaxChunks
None == -1
Endings == {"exit", "start_failed", "lost"}

ExecTypeOK ==
  /\ worker \in {"none", "starting", "running", "gone"} /\ {shutdown, cut, stopped, sealed} \subseteq BOOLEAN
  /\ {produced, collected, resultText, unsent, published} \subseteq Chunks
  /\ pipe \in Seq({"output"} \cup Endings) /\ held \in {"none", "output"} \cup Endings
  /\ thread \in {"ready", "launching", "known", "waiting", "late", "closing", "finishing", "returned", "ended"}
  /\ ends \subseteq Endings /\ result \in {"none", "exited", "timed_out", "cancelled", "failed", "lost"}
  /\ {scheduled, timer, streamClosed} \subseteq BOOLEAN /\ drained \in Chunks \cup {None}
  /\ loopQueue \in Seq({"schedule", "drain"}) /\ loop \in {"runs", "closed"}

ExecInit ==
  /\ worker = "none" /\ shutdown = FALSE /\ produced = 0 /\ pipe = <<>> /\ held = "none" /\ cut = FALSE
  /\ thread = "ready" /\ stopped = FALSE /\ ends = {}
  /\ collected = 0 /\ sealed = FALSE /\ result = "none" /\ resultText = 0
  /\ unsent = 0 /\ scheduled = FALSE /\ timer = FALSE /\ streamClosed = FALSE /\ drained = None
  /\ published = 0 /\ loopQueue = <<>> /\ loop = "runs"

-----------------------------------------------------------------------------
(* The worker process.                                                      *)

WorkerKeeps == UNCHANGED <<threadVars, collected, unsent, scheduled, loopQueue, loop, loopVars>>

(* After the handshake the command starts, or cannot.                       *)
CommandStarts ==
  /\ worker = "starting"
  /\ \/ worker' = "running" /\ UNCHANGED pipe
     \/ worker' = "gone" /\ pipe' = pipe \o <<"start_failed", "exit", "lost">>
  /\ UNCHANGED <<shutdown, produced, held, cut>> /\ WorkerKeeps

CommandWrites ==
  /\ worker = "running" /\ produced < MaxChunks
  /\ produced' = produced + 1 /\ pipe' = Append(pipe, "output")
  /\ UNCHANGED <<worker, shutdown, held, cut>> /\ WorkerKeeps

(* By itself or because it was told: exit is the last event of the worker.  *)
(* One that breaks down says nothing; the reader adds that it is lost.      *)
CommandEnds ==
  /\ worker = "running" /\ worker' = "gone"
  /\ \E endings \in {<<"exit", "lost">>, <<"lost">>} : pipe' = pipe \o endings
  /\ UNCHANGED <<shutdown, produced, held, cut>> /\ WorkerKeeps

-----------------------------------------------------------------------------
(* The reader thread.                                                       *)

(* _read_events: not after the connection was closed.                       *)
ReadsOutput ==
  /\ held = "none" /\ pipe # <<>> /\ ~cut
  /\ held' = Head(pipe) /\ pipe' = Tail(pipe)
  /\ UNCHANGED <<worker, shutdown, produced, cut>> /\ WorkerKeeps

(* feed: nothing after finish.                                              *)
Collects == ~sealed

(* _wake_loop: a loop that is closed takes nothing more.                    *)
Woken(callback) ==
  IF loop = "runs" THEN loopQueue' = Append(loopQueue, callback) ELSE UNCHANGED loopQueue

(* emit, in the lock of the collector.                                      *)
Emits ==
  IF streamClosed THEN UNCHANGED <<unsent, scheduled, loopQueue>>
  ELSE /\ unsent' = (IF loop = "runs" \/ scheduled THEN unsent + 1 ELSE 0)
       /\ scheduled' = (loop = "runs" \/ scheduled)
       /\ IF scheduled THEN UNCHANGED loopQueue ELSE Woken("schedule")

(* _observe.                                                                *)
ObservesEnd ==
  /\ held # "none" /\ held' = "none"
  /\ IF held = "output"
     THEN /\ UNCHANGED ends
          /\ IF Collects THEN collected' = collected + 1 /\ Emits
             ELSE UNCHANGED <<collected, unsent, scheduled, loopQueue>>
     ELSE /\ ends' = ends \cup (IF cut /\ held = "lost" THEN {} ELSE {held})
          /\ UNCHANGED <<collected, unsent, scheduled, loopQueue>>
  /\ UNCHANGED <<worker, shutdown, produced, pipe, cut, thread, stopped, sealed, result, resultText, loop, loopVars>>

-----------------------------------------------------------------------------
(* The thread of the command: execute.                                      *)

ThreadKeeps == UNCHANGED <<produced, pipe, held, collected, unsent, scheduled, loopQueue, loop, loopVars>>

(* shutdown: a worker that is gone takes nothing.                           *)
ShutDown == shutdown' = (shutdown \/ worker \in {"starting", "running"})

(* The Agent calls execute_terminal: its command is given to a thread.       *)
CommandCalled ==
  /\ thread = "ready" /\ thread' = "launching"
  /\ UNCHANGED <<worker, shutdown, cut, stopped, ends, sealed, result, resultText>> /\ ThreadKeeps

(* start_exec: the handshake, or a worker that does not come up.            *)
Launches ==
  /\ thread = "launching"
  /\ \/ worker' = "starting" /\ thread' = "known" /\ UNCHANGED result
     \/ result' = "failed" /\ thread' = "returned" /\ UNCHANGED worker
  /\ UNCHANGED <<shutdown, cut, stopped, ends, sealed, resultText>> /\ ThreadKeeps

Remembered == stopped

(* The worker is made known; a stop that came before ends it.               *)
MadeKnown ==
  /\ thread = "known" /\ thread' = "waiting"
  /\ IF Remembered THEN ShutDown ELSE UNCHANGED shutdown
  /\ UNCHANGED <<worker, cut, stopped, ends, sealed, result, resultText>> /\ ThreadKeeps

(* stop, from any thread.                                                   *)
Stops ==
  /\ ~stopped /\ thread \notin {"ready", "ended"} /\ stopped' = TRUE
  /\ IF thread \in {"launching", "known"} THEN UNCHANGED shutdown ELSE ShutDown
  /\ UNCHANGED <<worker, cut, thread, ends, sealed, result, resultText>> /\ ThreadKeeps

TimesOut ==
  /\ thread = "waiting" /\ ends = {}
  /\ thread' = "late" /\ ShutDown
  /\ UNCHANGED <<worker, cut, stopped, ends, sealed, result, resultText>> /\ ThreadKeeps

(* _SHUTDOWN_WAIT_SECONDS.                                                  *)
GivesUpWaiting == thread = "late"

(* close: the reader stops, and the process is gone in the end.             *)
Closes ==
  /\ (thread \in {"waiting", "late"} /\ ends # {}) \/ GivesUpWaiting
  /\ thread' = "closing" /\ cut' = TRUE /\ worker' = "gone"
  /\ result' = (IF thread = "late" THEN "timed_out" ELSE result)
  /\ UNCHANGED <<shutdown, stopped, ends, sealed, resultText>> /\ ThreadKeeps

FinishesOutput ==
  /\ thread = "closing" /\ thread' = "finishing"
  /\ sealed' = TRUE /\ resultText' = collected
  /\ UNCHANGED <<worker, shutdown, cut, stopped, ends, result>> /\ ThreadKeeps

(* Mutant of Outcome: a worker that broke down passes for an exit.          *)
OutcomeOfLost ==
  IF "start_failed" \in ends THEN "failed"
  ELSE IF result = "timed_out" THEN "timed_out"
  ELSE IF stopped THEN "cancelled" ELSE "exited"

(* A command that could not start is told of first, then the timeout and    *)
(* the stop, then what the worker reported.                                 *)
Outcome ==
  IF "start_failed" \in ends THEN "failed"
  ELSE IF result = "timed_out" THEN "timed_out"
  ELSE IF stopped THEN "cancelled"
  ELSE IF "exit" \in ends THEN "exited" ELSE "lost"

ResultReturns ==
  /\ thread = "finishing" /\ thread' = "returned"
  /\ result' = Outcome
  /\ UNCHANGED <<worker, shutdown, cut, stopped, ends, sealed, resultText>> /\ ThreadKeeps

(* finish: what is pending is drained at once.                              *)
Drains == unsent # 0 \/ scheduled \/ drained # None

ChannelFinishes ==
  /\ thread = "returned" /\ thread' = "ended"
  /\ streamClosed' = TRUE
  /\ IF Drains THEN Woken("drain") ELSE UNCHANGED loopQueue
  /\ UNCHANGED <<processVars, stopped, ends, sealed, result, resultText, collected, unsent, scheduled, loop,
                 timer, drained, published>>

-----------------------------------------------------------------------------
(* The event loop.                                                          *)

LoopKeeps == UNCHANGED <<processVars, threadVars, collected, streamClosed, loop>>

Takes == /\ drained' = unsent /\ unsent' = 0 /\ scheduled' = FALSE /\ timer' = FALSE

(* _schedule_drain: one window at a time, and none when the channel is      *)
(* closed.                                                                  *)
LoopSchedules ==
  /\ loop = "runs" /\ drained = None /\ loopQueue # <<>> /\ Head(loopQueue) = "schedule"
  /\ loopQueue' = Tail(loopQueue) /\ UNCHANGED published
  /\ IF ~timer /\ streamClosed THEN Takes
     ELSE timer' = TRUE /\ UNCHANGED <<drained, unsent, scheduled>>
  /\ LoopKeeps

LoopDrains ==
  /\ loop = "runs" /\ drained = None
  /\ \/ timer /\ UNCHANGED loopQueue
     \/ loopQueue # <<>> /\ Head(loopQueue) = "drain" /\ loopQueue' = Tail(loopQueue)
  /\ Takes /\ UNCHANGED published
  /\ LoopKeeps

Rescheduled == unsent # 0 /\ ~scheduled

(* The end of _drain: published, and what came meanwhile is scheduled.      *)
LoopPublishes ==
  /\ loop = "runs" /\ drained # None
  /\ published' = published + drained /\ drained' = None
  /\ IF Rescheduled THEN scheduled' = TRUE /\ Woken("schedule") ELSE UNCHANGED <<scheduled, loopQueue>>
  /\ UNCHANGED <<unsent, timer>> /\ LoopKeeps

(* The process of the backend ends.                                         *)
LoopCloses ==
  /\ loop = "runs" /\ drained = None /\ loop' = "closed"
  /\ UNCHANGED <<processVars, threadVars, collected, unsent, scheduled, loopQueue, loopVars>>

-----------------------------------------------------------------------------
ThreadSteps == Launches \/ MadeKnown \/ TimesOut \/ Closes \/ FinishesOutput \/ ResultReturns \/ ChannelFinishes
LoopSteps == LoopSchedules \/ LoopDrains \/ LoopPublishes

ExecNext == CommandStarts \/ CommandWrites \/ CommandEnds \/ ReadsOutput \/ ObservesEnd
            \/ CommandCalled \/ Stops \/ LoopCloses \/ ThreadSteps \/ LoopSteps

ExecSpec == ExecInit /\ [][ExecNext]_execVars

(* The thread runs and its timeouts expire; neither the worker nor the      *)
(* event loop is relied upon.                                               *)
ExecFairness == WF_execVars(ThreadSteps)

-----------------------------------------------------------------------------
(* What a command is said to have done is what it did: an exit stands for   *)
(* the whole of its output, and a stop is never taken for an exit.          *)
ResultIsTrue ==
  result = "exited" => "exit" \in ends /\ resultText = produced

(* The screen and the result stop at the same place: when the channel has   *)
(* come to rest, it has shown exactly the text of the result, in the order  *)
(* and once, as long as there is an event loop to show it.                  *)
LiveIsResult ==
  (thread = "ended" /\ loop = "runs" /\ drained = None /\ loopQueue = <<>> /\ ~timer) => published = resultText

(* A stop is not lost in the launch: a worker that may still run once       *)
(* execute waits for it has been told to shut down.                         *)
StopIsHeard == (stopped /\ thread \in {"waiting", "late"} /\ worker \in {"starting", "running"}) => shutdown

(* The call of the Agent comes to an end whatever the worker, the command   *)
(* and the event loop do.                                                   *)
CommandReturns == (thread # "ready") ~> (thread = "ended")
=============================================================================
