---------------------------- MODULE TerminalWorker ----------------------------
(***************************************************************************)
(* The worker process that runs one shell on a PTY (session mode) or one   *)
(* command on a pipe (exec mode) for the backend. A reader thread feeds    *)
(* the output to the screen and to the backend, a writer thread feeds the  *)
(* input to the PTY, a watcher waits for the shell, and the main loop      *)
(* takes the frames of the backend and what the threads report from one    *)
(* queue. However it ends, it first ends what the shell has started.       *)
(***************************************************************************)
EXTENDS Integers, Sequences

CONSTANTS Scripts,         \* what the programs of a session may write, in order
          WriteQueue,      \* frames of input that wait for the PTY
          MaxFrames,       \* frames the backend sends
          WorkerFaults,    \* "read", "wait": what may fail besides
          WorkerModes,     \* the modes looked at
          WorkerCommands,  \* the frames it sends: "write", "resize", "shutdown"
          ForksWhileScanned\* a process may fork between the last scan and its signal

ASSUME WorkerAssumption ==
  /\ Scripts \subseteq Seq({"text", "query", "p1", "p2"}) /\ WriteQueue \in Nat \ {0} /\ MaxFrames \in Nat
  /\ WorkerModes \subseteq {"session", "exec"} /\ ForksWhileScanned \in BOOLEAN
  /\ WorkerFaults \subseteq {"read", "wait"} /\ WorkerCommands \subseteq {"write", "resize", "shutdown"}

VARIABLES
  mode,       \* "none" until the first frame, then "session" or "exec"
  procs,      \* what runs: the leader, a job of its group, a stray that left it
  output,     \* the items the programs wrote: text, a query, a prompt marker
  screen,     \* [upto: items the screen has taken, size, prompt: last marker's id]
  reader,     \* [state, last: end of its chunk, frames: what it still sends, mute]
  writer,     \* [alive, queued]: input frames that wait for the PTY
  observed,     \* the queue of the main loop
  main,       \* [at, round, members, code]: the main loop and its clean-up
  arbiter,    \* [exited, eof, late, cleaned]: what decides the end
  backend,    \* "beating", "silent" or "gone"
  sent,       \* frames the backend has sent
  received        \* what the backend has received

workerVars == <<mode, procs, output, screen, reader, writer, observed, main, arbiter, backend, sent, received>>

Sizes == {"small", "large"}
IdleMain == [at |-> "first", round |-> "ask", members |-> {}, code |-> FALSE]

WorkerInit ==
  /\ mode = "none" /\ procs = {} /\ output = <<>>
  /\ screen = [upto |-> 0, size |-> "small", prompt |-> "none"]
  /\ reader = [state |-> "reading", last |-> 0, frames |-> <<>>, mute |-> FALSE]
  /\ writer = [alive |-> TRUE, queued |-> 0]
  /\ observed = <<>> /\ main = IdleMain
  /\ arbiter = [exited |-> FALSE, eof |-> FALSE, late |-> FALSE, cleaned |-> FALSE]
  /\ backend = "beating" /\ sent = 0
  /\ received = [hello |-> FALSE, output |-> 0, screen |-> 0, size |-> "small", shell |-> 0, end |-> "none"]

Running == mode # "none" /\ main.at # "done"
ReportsEvent(e) == observed' = Append(observed, e)
(* What the screen shows depends on the text it has taken. *)
TextIn(n) == {k \in 1 .. n : output[k] = "text"}

-----------------------------------------------------------------------------
(* The first frame chooses the mode. A shell that cannot be started ends    *)
(* the worker before its handshake; a command that cannot be started is    *)
(* the result of the command and told after it.                              *)
RunWorker ==
  /\ main.at = "first"
  /\ \/ /\ main' = [main EXCEPT !.at = "done"]
        /\ UNCHANGED <<mode, procs, received>>
     \/ \E m \in WorkerModes, started \in BOOLEAN :
          /\ mode' = m
          /\ procs' = IF started THEN {"leader"} ELSE {}
          /\ main' = [main EXCEPT !.at = IF started THEN "loop" ELSE "done"]
          /\ received' = [received EXCEPT !.hello = started \/ m = "exec",
                                  !.end = IF m = "exec" /\ ~started THEN "failed" ELSE @]
  /\ UNCHANGED <<output, screen, reader, writer, observed, arbiter, backend, sent>>

-----------------------------------------------------------------------------
(* The programs: they write, start others, leave the group and end.         *)
Program(action) ==
  /\ Running /\ procs # {} /\ action
  /\ UNCHANGED <<mode, screen, reader, writer, observed, main, arbiter, backend, sent, received>>

ProgramWrites ==
  Program(/\ \E s \in Scripts :
               /\ Len(output) < Len(s) /\ output = SubSeq(s, 1, Len(output))
               /\ output' = Append(output, IF mode = "session" THEN s[Len(output) + 1] ELSE "text")
          /\ UNCHANGED procs)

(* The last scan of a clean-up sees a process or it does not exist yet. *)
ForksUnseen == main.at = "signal" /\ main.round = "KILL"
ProgramForks ==
  Program(/\ "leader" \in procs /\ (ForksUnseen => ForksWhileScanned)
          /\ procs' = procs \union {"job"} /\ UNCHANGED output)
ProgramLeaves ==
  Program("job" \in procs /\ procs' = (procs \ {"job"}) \union {"stray"} /\ UNCHANGED output)
ProgramEnds == Program(\E p \in procs : procs' = procs \ {p} /\ UNCHANGED output)

-----------------------------------------------------------------------------
(* The reader takes what is there and holds the screen until all of it is   *)
(* sent: a change of the size comes before a chunk or after it.            *)
SendsFrame(f) ==
  /\ backend # "gone"
  /\ received' = CASE f.kind = "output" -> [received EXCEPT !.output = f.upto]
               [] f.kind = "screen" -> [received EXCEPT !.screen = f.upto, !.size = screen.size]
               [] f.kind = "shell"  -> [received EXCEPT !.shell = f.upto]

WorkerFrame(k, n) == [kind |-> k, upto |-> n]
Output(n) == IF n > received.output THEN <<WorkerFrame("output", n)>> ELSE <<>>
Screen(n) == IF TextIn(n) # TextIn(received.screen) THEN <<WorkerFrame("screen", n)>> ELSE <<>>

ReaderTakes ==
  /\ Running /\ reader.state = "reading" /\ reader.last < Len(output)
  /\ \E n \in reader.last + 1 .. Len(output) :
       reader' = [reader EXCEPT !.state = "holding", !.last = n]
  /\ UNCHANGED <<mode, procs, output, screen, writer, observed, main, arbiter, backend, sent, received>>

(* A query is answered through the same queue as the input; the reader does *)
(* not wait for room, and gives up answering after a failure.              *)
AnswersQuery ==
  IF ~reader.mute /\ writer.alive /\ writer.queued < WriteQueue
  THEN writer' = [writer EXCEPT !.queued = @ + 1] /\ UNCHANGED reader
  ELSE reader' = [reader EXCEPT !.mute = TRUE] /\ UNCHANGED writer


IsEvent(k) == k \in {"p1", "p2"} /\ k # screen.prompt


(* Output up to the marker, the screen it left, then the marker. *)
MarkedFrames(n) == Output(n) \o Screen(n) \o <<WorkerFrame("shell", n)>>

ReaderAdvances ==
  /\ Running /\ reader.state = "holding" /\ reader.frames = <<>> /\ screen.upto < reader.last
  /\ LET n == screen.upto + 1  k == output[n] IN
     /\ screen' = [screen EXCEPT !.upto = n, !.prompt = IF IsEvent(k) THEN k ELSE @]
     /\ IF k = "query" THEN AnswersQuery
        ELSE /\ reader' = [reader EXCEPT !.frames = IF IsEvent(k) THEN MarkedFrames(n) ELSE <<>>]
             /\ UNCHANGED writer
  /\ UNCHANGED <<mode, procs, output, observed, main, arbiter, backend, sent, received>>

(* After the last item the rest of the chunk and the screen are sent. *)
LastFrames == Output(reader.last) \o (IF mode = "session" THEN Screen(reader.last) ELSE <<>>)

ReaderFinishes ==
  /\ Running /\ reader.state = "holding" /\ reader.frames = <<>> /\ screen.upto = reader.last
  /\ reader' = IF LastFrames = <<>> THEN [reader EXCEPT !.state = "reading"]
                                    ELSE [reader EXCEPT !.frames = LastFrames]
  /\ UNCHANGED <<mode, procs, output, screen, writer, observed, main, arbiter, backend, sent, received>>

ReaderSends ==
  /\ Running /\ reader.frames # <<>>
  /\ \/ /\ SendsFrame(Head(reader.frames))
        /\ reader' = [reader EXCEPT !.frames = Tail(@)]
        /\ UNCHANGED observed
     \/ /\ backend = "gone" /\ ReportsEvent("output_failed")
        /\ reader' = [reader EXCEPT !.state = "ended", !.frames = <<>>]
        /\ UNCHANGED received
  /\ UNCHANGED <<mode, procs, output, screen, writer, main, arbiter, backend, sent>>

(* The PTY, or the pipe, ends when everything is read and nobody holds it;  *)
(* another error of a pipe is taken for its end.                           *)
ReaderEnds ==
  /\ Running /\ reader.state = "reading"
  /\ reader' = [reader EXCEPT !.state = "ended"]
  /\ \/ reader.last = Len(output) /\ procs = {} /\ ReportsEvent("eof")
     \/ "read" \in WorkerFaults /\ procs # {} /\ ReportsEvent(IF mode = "session" THEN "read_failed" ELSE "eof")
  /\ UNCHANGED <<mode, procs, output, screen, writer, main, arbiter, backend, sent, received>>

-----------------------------------------------------------------------------
(* The writer and the watcher.                                              *)
WriterWrites ==
  /\ Running /\ mode = "session" /\ writer.alive /\ writer.queued > 0
  /\ writer' = IF procs # {} THEN [writer EXCEPT !.queued = @ - 1] ELSE [alive |-> FALSE, queued |-> 0]
  /\ UNCHANGED <<mode, procs, output, screen, reader, observed, main, arbiter, backend, sent, received>>

WatcherSees ==
  /\ Running /\ "leader" \notin procs
  /\ {observed[i] : i \in DOMAIN observed} \intersect {"exited", "wait_failed"} = {} /\ ~arbiter.exited
  /\ \/ ReportsEvent("exited")
     \/ "wait" \in WorkerFaults /\ ReportsEvent("wait_failed")
  /\ UNCHANGED <<mode, procs, output, screen, reader, writer, main, arbiter, backend, sent, received>>

-----------------------------------------------------------------------------
(* The clean-up: it asks what it finds in the group to end, which may be    *)
(* ignored, kills what is there a second later, and stops as soon as it    *)
(* finds nothing.                                                          *)
Members == procs \ {"stray"}
CleanUp(code) == main' = [main EXCEPT !.at = "scan", !.round = "ask", !.code = code]

Scan ==
  /\ main.at = "scan"
  /\ main' = IF Members = {} THEN [main EXCEPT !.at = "reap"]
                             ELSE [main EXCEPT !.at = "signal", !.members = Members]
  /\ UNCHANGED <<mode, procs, output, screen, reader, writer, observed, arbiter, backend, sent, received>>

Signal ==
  /\ main.at = "signal"
  /\ \E dead \in SUBSET main.members :
       /\ (main.round = "KILL" => dead = main.members)
       /\ procs' = procs \ dead
  /\ main' = [main EXCEPT !.at = IF main.round = "KILL" THEN "reap" ELSE "scan",
                          !.round = "KILL", !.members = {}]
  /\ UNCHANGED <<mode, output, screen, reader, writer, observed, arbiter, backend, sent, received>>

-----------------------------------------------------------------------------
(* Mutant of ExitReady: the exit alone ends the worker. *)
ExitReadyAtOnce == arbiter.exited

(* What follows the clean-up: a session ends with its exit frame; a command *)
(* whose output can still be told goes on until it is drained.             *)
ExitReady == arbiter.exited /\ (arbiter.eof \/ arbiter.late)

TellsEnd(code) ==
  received' = IF backend = "gone" \/ received.end # "none" THEN received
          ELSE [received EXCEPT !.end = IF code THEN "code" ELSE "forced"]

ReapsShell ==
  /\ main.at = "reap"
  /\ procs' = procs \ (IF mode = "session" THEN {"leader"} ELSE {})
  /\ IF mode = "session" THEN TellsEnd(main.code) /\ main' = [main EXCEPT !.at = "done"]
     ELSE main' = [main EXCEPT !.at = IF main.code THEN "done" ELSE "loop"] /\ UNCHANGED received
  /\ UNCHANGED <<mode, output, screen, reader, writer, observed, arbiter, backend, sent>>

(* In exec mode the clean-up happens once; code then says that the loop is  *)
(* left without an exit frame.                                             *)
CleansOnce(leaves) ==
  /\ arbiter' = [arbiter EXCEPT !.cleaned = TRUE]
  /\ IF ~arbiter.cleaned THEN CleanUp(leaves)
     ELSE main' = [main EXCEPT !.at = IF leaves THEN "done" ELSE "loop"]

StopsAll == IF mode = "session" THEN CleanUp(FALSE) /\ UNCHANGED arbiter ELSE CleansOnce(FALSE)

Exits ==
  /\ Running /\ main.at = "loop" /\ ExitReady
  /\ IF mode = "session" THEN CleanUp(TRUE) /\ UNCHANGED received
     ELSE TellsEnd(TRUE) /\ main' = [main EXCEPT !.at = "done"]
  /\ UNCHANGED <<mode, procs, output, screen, reader, writer, observed, arbiter, backend, sent>>

(* Two seconds after the exit was seen the output is not waited for. *)
DrainIsOver ==
  /\ Running /\ main.at = "loop" /\ arbiter.exited /\ ~arbiter.late
  /\ arbiter' = [arbiter EXCEPT !.late = TRUE]
  /\ UNCHANGED <<mode, procs, output, screen, reader, writer, observed, main, backend, sent, received>>

(* Fifteen seconds without a heartbeat. *)
HeartbeatIsLost ==
  /\ Running /\ main.at = "loop" /\ ~ExitReady /\ backend # "beating"
  /\ (mode = "exec" => ~arbiter.cleaned)
  /\ StopsAll
  /\ UNCHANGED <<mode, procs, output, screen, reader, writer, observed, backend, sent, received>>

-----------------------------------------------------------------------------
(* The main loop takes one event.                                           *)
TakesEvent(e) ==
  /\ Running /\ main.at = "loop" /\ ~ExitReady
  /\ observed # <<>> /\ Head(observed) = e /\ observed' = Tail(observed)
  /\ UNCHANGED <<mode, procs, output, backend, sent>>

(* Input is queued, refused when the queue is full, and the end of the      *)
(* session when the writer is gone. A command has no input.                *)
TakesWrite ==
  /\ TakesEvent("write")
  /\ IF mode = "session" /\ ~writer.alive THEN CleanUp(FALSE) /\ UNCHANGED writer
     ELSE /\ writer' = IF mode = "session" /\ writer.queued < WriteQueue
                       THEN [writer EXCEPT !.queued = @ + 1] ELSE writer
          /\ UNCHANGED main
  /\ UNCHANGED <<screen, reader, arbiter, received>>
ScreenIsFree == reader.state # "holding"

(* The PTY first; when it refuses, the screen stays as it is. A signal and  *)
(* a second start are answered as a refused size is.                       *)
TakesResize ==
  /\ TakesEvent("resize")
  /\ \/ /\ mode = "session" /\ ScreenIsFree
        /\ \E s \in Sizes : screen' = [screen EXCEPT !.size = s]
        /\ IF backend = "gone" THEN CleanUp(FALSE) /\ UNCHANGED received
           ELSE received' = [received EXCEPT !.screen = screen.upto, !.size = screen'.size] /\ UNCHANGED main
     \/ UNCHANGED <<screen, main, received>>
  /\ UNCHANGED <<reader, writer, arbiter>>

TakesEnd ==
  /\ \/ TakesEvent("shutdown") \/ TakesEvent("backend_eof")
  /\ StopsAll
  /\ UNCHANGED <<screen, reader, writer, received>>

(* Nobody reads what is sent, or the end cannot be told from the outside:   *)
(* the loop is left after the clean-up.                                    *)
TakesFailure ==
  /\ \/ TakesEvent("output_failed") /\ UNCHANGED received
     \/ /\ TakesEvent("read_failed") \/ TakesEvent("wait_failed")
        /\ received' = [received EXCEPT !.end = IF backend # "gone" /\ mode = "exec" THEN "failed" ELSE @]
  /\ IF mode = "session" THEN CleanUp(FALSE) /\ UNCHANGED arbiter ELSE CleansOnce(TRUE)
  /\ UNCHANGED <<screen, reader, writer>>

TakesEof ==
  /\ TakesEvent("eof")
  /\ arbiter' = [arbiter EXCEPT !.eof = TRUE]
  /\ UNCHANGED <<screen, reader, writer, main, received>>

(* A command that ended leaves jobs behind that hold its pipe. *)
TakesExit ==
  /\ TakesEvent("exited")
  /\ IF mode = "session" THEN UNCHANGED main
     ELSE IF arbiter.cleaned THEN UNCHANGED main ELSE CleanUp(FALSE)
  /\ arbiter' = [arbiter EXCEPT !.exited = TRUE, !.cleaned = @ \/ mode = "exec"]
  /\ UNCHANGED <<screen, reader, writer, received>>

-----------------------------------------------------------------------------
(* The backend.                                                             *)
BackendSends ==
  /\ Running /\ backend # "gone" /\ sent < MaxFrames /\ sent' = sent + 1
  /\ \E f \in WorkerCommands : ReportsEvent(f)
  /\ UNCHANGED <<mode, procs, output, screen, reader, writer, main, arbiter, backend, received>>

BackendFails ==
  /\ Running
  /\ \/ backend = "beating" /\ backend' = "silent" /\ UNCHANGED observed
     \/ backend = "beating" /\ backend' = "gone" /\ ReportsEvent("backend_eof")
  /\ UNCHANGED <<mode, procs, output, screen, reader, writer, main, arbiter, sent, received>>

-----------------------------------------------------------------------------
ReaderSteps == ReaderTakes \/ ReaderAdvances \/ ReaderFinishes \/ ReaderSends \/ ReaderEnds
MainTakes == TakesWrite \/ TakesResize \/ TakesEnd \/ TakesFailure \/ TakesEof \/ TakesExit

WorkerNext ==
  \/ RunWorker \/ ProgramWrites \/ ProgramForks \/ ProgramLeaves \/ ProgramEnds
  \/ ReaderTakes \/ ReaderAdvances \/ ReaderFinishes \/ ReaderSends \/ ReaderEnds
  \/ WriterWrites \/ WatcherSees \/ Scan \/ Signal \/ ReapsShell \/ Exits \/ DrainIsOver \/ HeartbeatIsLost
  \/ TakesWrite \/ TakesResize \/ TakesEnd \/ TakesFailure \/ TakesEof \/ TakesExit
  \/ BackendSends \/ BackendFails

(* Threads run and timers fire; programs and the backend owe nothing, and a *)
(* program need not read its input.                                        *)
WorkerFairness ==
  /\ WF_workerVars(ReaderSteps) /\ WF_workerVars(WatcherSees)
  /\ WF_workerVars(Scan \/ Signal \/ ReapsShell) /\ WF_workerVars(Exits)
  /\ WF_workerVars(MainTakes) /\ WF_workerVars(DrainIsOver) /\ WF_workerVars(HeartbeatIsLost)

WorkerSpec == WorkerInit /\ [][WorkerNext]_workerVars
FairWorkerSpec == WorkerSpec /\ WorkerFairness

-----------------------------------------------------------------------------
WorkerTypeOK ==
  /\ mode \in {"none", "session", "exec"}
  /\ procs \subseteq {"leader", "job", "stray"} /\ output \in Seq({"text", "query", "p1", "p2"})
  /\ screen \in [upto : Nat, size : Sizes, prompt : {"none", "p1", "p2"}]
  /\ reader.state \in {"reading", "holding", "ended"} /\ reader.last \in 0 .. Len(output)
  /\ writer \in [alive : BOOLEAN, queued : 0 .. WriteQueue]
  /\ main.at \in {"first", "loop", "scan", "signal", "reap", "done"} /\ main.members \subseteq procs \union {"leader", "job"}
  /\ arbiter \in [exited : BOOLEAN, eof : BOOLEAN, late : BOOLEAN, cleaned : BOOLEAN]
  /\ backend \in {"beating", "silent", "gone"} /\ sent \in 0 .. MaxFrames
  /\ received.end \in {"none", "code", "forced", "failed"}

(* A marker of the shell arrives after all output before it and with the    *)
(* screen that output left, never after what follows it.                   *)
EventsKeepTheirPlace ==
  [][received'.shell # received.shell =>
       received.output = received'.shell /\ TextIn(received.screen) = TextIn(received'.shell)]_workerVars

(* The backend never sees a screen with text it has not received, and when  *)
(* no chunk is worked on it has the screen as it is.                       *)
ScreenIsTold ==
  /\ received.screen <= received.output
  /\ Running /\ reader.state = "reading" /\ backend # "gone" /\ mode = "session" =>
       TextIn(received.screen) = TextIn(screen.upto) /\ received.size = screen.size

(* The exit of the shell is told after all it wrote, unless a process that  *)
(* holds the terminal kept the worker waiting for two seconds.             *)
ExitIsLast ==
  received.end = "code" /\ ~arbiter.late /\ "read" \notin WorkerFaults => received.output = Len(output)

(* A worker that said hello and ends tells its end to a backend that        *)
(* listens, and nothing of the group it started is left.                   *)
EndIsClean ==
  main.at = "done" /\ received.hello =>
    /\ backend # "gone" => received.end # "none"
    /\ procs \subseteq {"stray"}

(* Without its backend a worker ends. *)
WorkerEnds == backend # "beating" ~> main.at = "done"

(* The reader does not keep the screen: a program that does not read its     *)
(* input still has its output read, whatever it asks of the terminal.      *)
ReaderGoesOn == reader.state = "holding" ~> (reader.state # "holding" \/ main.at = "done")
===============================================================================
