--------------------------- MODULE BackgroundRegistry ---------------------------
(***************************************************************************)
(* Background work of one Task: core/tool/background/backgraound_registry.py *)
(* with the parties that race on it: the tool threads that register a call *)
(* and wait in the foreground (execute_terminal.py), the jobs that conclude *)
(* it, the user who stops or detaches one call, the executions of the Task *)
(* that drop everything when they are stopped, and the shutdown.           *)
(*                                                                         *)
(* The registry's methods hold its lock; a step is one such critical       *)
(* section, or what a thread does between two of them.                     *)
(***************************************************************************)
EXTENDS Naturals, FiniteSets

CONSTANTS
  Calls,       \* tool call ids
  Kind,        \* [Calls -> Kinds]
  MaxRun,      \* bound on the Runs of the Task
  Faults       \* failures that may happen: "settle", "enqueue"

(* "job": a terminal command in the background from the start, "terminal": a *)
(* command the tool waits for, "child": a delegated or forked child Task,  *)
(* "team": an approved Agent Team.                                         *)
Kinds == {"job", "terminal", "child", "team"}

ASSUME RegistryAssumption ==
  /\ IsFiniteSet(Calls) /\ Kind \in [Calls -> Kinds]
  /\ MaxRun \in Nat
  /\ Faults \subseteq {"settle", "enqueue"}

VARIABLES
  entry,       \* _entries: the mode of each registered call, or "none"
  asked,       \* entries with stop_requested
  staged,      \* entries whose after_commit was not called yet
  delivering,  \* _delivering
  hand,        \* the delivery of a call that was taken out of the registry
  hinted,      \* deliveries that carry a cancel_hint
  owed,        \* <<call, reason>>: on_cancel callbacks still to be called
  close,       \* where close() is; "open" before it
  held,        \* entries close() took out, to be told when it has waited
  owner,       \* run_id of each entry
  tool,        \* where the tool thread of each call is
  job,         \* the work itself: "done" has a conclusion, "reported" gave it
  told,        \* jobs whose on_cancel was called
  started,     \* Teams let go (_TeamExecution.ready)
  child,       \* the child Task of a "child": its message, its Run
  spread,      \* a cancelled Run has still to stop the child Tasks
  detached,    \* calls moved to the background
  handedOver,  \* _ForegroundWait._background
  marked,      \* tool_call_cancellation_registry
  run, runSt,  \* the current Run and its status
  exec,        \* the execution of the Task
  signal,      \* its cancellation signal
  cancelling,  \* a suspended Run is being cancelled under the Task gate
  (* how each call ended *)
  puts,        \* background_result messages put for it
  cards,       \* placeholder settled instead of a message
  dropped, settled, discarded,
  (* history *)
  accepted,    \* stops the user was told are accepted while the tool ran
  abandoned,   \* reported calls whose drop a crashed execution skipped
  excluded     \* calls of a turn the user took back

regVars  == <<entry, asked, staged, owner>>
sendVars == <<delivering, hand, hinted>>
toolVars == <<tool, detached, handedOver, marked>>
jobVars  == <<job, told, started, child>>
runVars  == <<run, runSt, exec, signal, cancelling, spread, abandoned>>
endVars  == <<puts, cards, dropped, settled, discarded>>
vars == <<regVars, sendVars, owed, close, held, toolVars, jobVars, runVars, endVars,
          accepted, excluded>>

Init ==
  /\ entry = [c \in Calls |-> "none"] /\ asked = {} /\ staged = {}
  /\ owner = [c \in Calls |-> 0]
  /\ delivering = 0 /\ hand = [c \in Calls |-> "none"] /\ hinted = {}
  /\ owed = {} /\ close = "open" /\ held = {}
  /\ tool = [c \in Calls |-> "off"] /\ detached = {} /\ handedOver = {} /\ marked = {}
  /\ job = [c \in Calls |-> "none"] /\ told = {} /\ started = {}
  /\ child = [c \in Calls |-> "idle"] /\ spread = FALSE
  /\ run = 0 /\ runSt = "ended" /\ exec = "off" /\ signal = FALSE /\ cancelling = FALSE
  /\ puts = [c \in Calls |-> 0] /\ cards = {}
  /\ dropped = {} /\ settled = {} /\ discarded = {}
  /\ accepted = {} /\ excluded = {} /\ abandoned = {}

-----------------------------------------------------------------------------
Closed  == close # "open"
Entries == {c \in Calls : entry[c] # "none"}

Owe(S, reason) == {<<c, reason>> : c \in S}

(* Take the calls of S out of the registry for good, to be told why.       *)
Drop(S, reason) ==
  /\ entry' = [c \in Calls |-> IF c \in S THEN "none" ELSE entry[c]]
  /\ dropped' = dropped \cup S
  /\ owed' = owed \cup Owe(S, reason)
  /\ UNCHANGED <<asked, staged, owner, puts, cards, settled, discarded>>

(* on_cancel: the work is told to stop. A child Task stops the Run it has;  *)
(* one whose message did not open a Run yet has nothing to stop.           *)
Tell(c) ==
  /\ told' = told \cup {c}
  /\ child' = [child EXCEPT ![c] = IF @ = "running" THEN "rest" ELSE @]

(* _take_for_delivery_locked                                               *)
Take(c, how) ==
  /\ entry' = [entry EXCEPT ![c] = "none"]
  /\ delivering' = delivering + 1
  /\ hand' = [hand EXCEPT ![c] = how]

(* Mutant of Complete: the entry is looked up but not taken out.           *)
CompleteKeepsEntry(c) ==
  /\ UNCHANGED <<regVars, hinted>>
  /\ IF entry[c] = "none" \/ Closed \/ signal
     THEN UNCHANGED <<delivering, hand>>
     ELSE delivering' = delivering + 1 /\ hand' = [hand EXCEPT ![c] = "put"]

(* complete: nothing when the entry is gone or the registry closed; while  *)
(* the Task is being stopped the entry stays, for the drop.                *)
Complete(c) ==
  \/ /\ entry[c] = "none" \/ Closed
     /\ UNCHANGED <<regVars, sendVars>>
  \/ /\ entry[c] # "none" /\ ~Closed /\ signal
     /\ UNCHANGED <<regVars, sendVars>>
  \/ /\ entry[c] # "none" /\ ~Closed /\ ~signal
     /\ Take(c, "put")
     /\ UNCHANGED <<asked, staged, owner, hinted>>

-----------------------------------------------------------------------------
(* The tool thread of a call.                                              *)

toolFrame == <<owed, close, held, runVars, endVars, accepted, excluded>>

(* The handler passed the cancellation check and is about to register.     *)
ToolStarts(c) ==
  /\ exec = "driving" /\ ~signal /\ tool[c] = "off" /\ c \notin marked
  /\ tool' = [tool EXCEPT ![c] = "running"]
  /\ UNCHANGED <<regVars, sendVars, detached, handedOver, marked, jobVars, toolFrame>>

(* register: refused once closed, and the job told at once.                *)
Register(c) ==
  /\ tool[c] = "running"
  /\ tool' = [tool EXCEPT ![c] = "check"]
  /\ job' = [job EXCEPT ![c] = "running"]
  /\ owner' = [owner EXCEPT ![c] = run]
  /\ IF Closed
     THEN /\ Tell(c)
          /\ dropped' = dropped \cup {c}
          /\ started' = IF Kind[c] = "team" THEN started \cup {c} ELSE started
          /\ UNCHANGED <<entry, staged>>
     ELSE /\ entry' = [entry EXCEPT ![c] = IF Kind[c] = "terminal" THEN "foreground"
                                                                   ELSE "background"]
          /\ staged' = IF Kind[c] = "team" THEN staged \cup {c} ELSE staged
          /\ UNCHANGED <<told, child, dropped, started>>
  /\ UNCHANGED <<asked, sendVars, owed, close, held, detached, handedOver, marked, runVars,
                 puts, cards, settled, discarded, accepted, excluded>>

(* request_user_cancel on a registered call, under the registry lock.      *)
CancelEntry(c) ==
  /\ asked' = asked \cup {c}
  /\ CASE c \in asked -> UNCHANGED <<entry, sendVars, owed, dropped>>
       [] c \notin asked /\ Kind[c] = "team" ->
            owed' = owed \cup {<<c, "user">>} /\ UNCHANGED <<entry, sendVars, dropped>>
       [] c \notin asked /\ Kind[c] # "team" /\ entry[c] = "background" ->
            Take(c, "tell") /\ hinted' = hinted \cup {c} /\ UNCHANGED <<owed, dropped>>
       [] OTHER ->
            /\ entry' = [entry EXCEPT ![c] = "none"]
            /\ dropped' = dropped \cup {c}
            /\ owed' = owed \cup {<<c, "user">>}
            /\ UNCHANGED sendVars
  /\ UNCHANGED <<staged, owner, puts, cards, settled, discarded>>

ToolReturns(c) == tool' = [tool EXCEPT ![c] = "returned"] /\ marked' = marked \ {c}

ToolGoesOn(c) ==
  CASE Kind[c] = "terminal" -> tool' = [tool EXCEPT ![c] = "waiting"] /\ UNCHANGED marked
    [] Kind[c] = "child" -> tool' = [tool EXCEPT ![c] = "launching"] /\ UNCHANGED marked
    [] OTHER -> ToolReturns(c)

(* Mutant of ToolChecks: the mark is not looked at.                        *)
ToolSkipsCheck(c) ==
  /\ tool[c] = "check"
  /\ UNCHANGED <<regVars, sendVars, owed, endVars>>
  /\ ToolGoesOn(c)
  /\ UNCHANGED <<close, held, detached, handedOver, jobVars, runVars, accepted, excluded>>

(* The end of register: a stop marked before the call was registered is    *)
(* taken over; then the tool waits in the foreground or returns its        *)
(* placeholder.                                                            *)
ToolChecks(c) ==
  /\ tool[c] = "check"
  /\ IF c \in marked /\ entry[c] # "none" THEN CancelEntry(c)
                     ELSE UNCHANGED <<regVars, sendVars, owed, endVars>>
  /\ ToolGoesOn(c)
  /\ UNCHANGED <<close, held, detached, handedOver, jobVars, runVars, accepted, excluded>>

(* The message to the child Task is put, whatever became of the entry,     *)
ToolLaunches(c) ==
  /\ tool[c] = "launching"
  /\ child' = [child EXCEPT ![c] = "queued"]
  /\ ToolReturns(c)
  /\ UNCHANGED <<regVars, sendVars, detached, handedOver, job, told, started, toolFrame>>

(* or it cannot be put: discard the registration.                          *)
ToolDiscards(c) ==
  /\ "enqueue" \in Faults /\ tool[c] = "launching"
  /\ entry' = [entry EXCEPT ![c] = "none"]
  /\ discarded' = IF entry[c] = "none" THEN discarded ELSE discarded \cup {c}
  /\ job' = [job EXCEPT ![c] = "reported"]
  /\ ToolReturns(c)
  /\ UNCHANGED <<asked, staged, owner, sendVars, owed, close, held, detached, handedOver, told,
                 started, child, runVars, puts, cards, dropped, settled, accepted, excluded>>

(* The foreground wait: the conclusion arrived,                            *)
ToolTakes(c) ==
  /\ tool[c] \in {"waiting", "awaiting"} /\ job[c] = "done"
  /\ tool' = [tool EXCEPT ![c] = "settling"]
  /\ UNCHANGED <<regVars, sendVars, detached, handedOver, marked, jobVars, toolFrame>>

(* the Run was stopped: stop the job and wait for its conclusion,          *)
ToolAborts(c) ==
  /\ tool[c] = "waiting" /\ signal
  /\ tool' = [tool EXCEPT ![c] = "awaiting"]
  /\ Tell(c)
  /\ UNCHANGED <<regVars, sendVars, detached, handedOver, marked, job, started, toolFrame>>

(* Mutant of ToolDetaches: a conclusion that came before is not looked for. *)
ToolDetachesBlindly(c) ==
  /\ tool[c] = "waiting" /\ c \in detached
  /\ handedOver' = handedOver \cup {c}
  /\ ToolReturns(c)
  /\ job' = [job EXCEPT ![c] = IF @ = "done" THEN "reported" ELSE @]
  /\ UNCHANGED <<regVars, sendVars, detached, told, started, child, toolFrame>>

(* or the call was moved to the background: the conclusion is reported by  *)
(* this thread when it is there already, else by the job.                  *)
ToolDetaches(c) ==
  /\ tool[c] = "waiting" /\ c \in detached
  /\ IF job[c] = "done"
     THEN /\ tool' = [tool EXCEPT ![c] = "completing"]
          /\ UNCHANGED <<marked, handedOver>>
     ELSE /\ handedOver' = handedOver \cup {c}
          /\ ToolReturns(c)
  /\ UNCHANGED <<regVars, sendVars, detached, jobVars, toolFrame>>

(* settle_foreground decides against detach under the lock.                *)
ToolSettles(c) ==
  /\ tool[c] = "settling"
  /\ IF entry[c] = "foreground"
     THEN /\ entry' = [entry EXCEPT ![c] = "none"]
          /\ settled' = settled \cup {c}
     ELSE UNCHANGED <<entry, settled>>
  /\ IF entry[c] = "background" \/ (entry[c] = "none" /\ c \in detached)
     THEN tool' = [tool EXCEPT ![c] = "completing"] /\ UNCHANGED <<marked, job>>
     ELSE ToolReturns(c) /\ job' = [job EXCEPT ![c] = "reported"]
  /\ UNCHANGED <<asked, staged, owner, sendVars, owed, close, held, detached, handedOver, told,
                 started, child, runVars, puts, cards, dropped, discarded, accepted, excluded>>

ToolCompletes(c) ==
  /\ tool[c] = "completing"
  /\ Complete(c)
  /\ job' = [job EXCEPT ![c] = "reported"]
  /\ ToolReturns(c)
  /\ UNCHANGED <<detached, handedOver, told, started, child, toolFrame>>

-----------------------------------------------------------------------------
(* The work, its conclusion and its delivery.                              *)

jobFrame == <<regVars, owed, close, held, toolVars, runVars, accepted, excluded>>

(* The child Task runs and comes to rest. *)
ChildStarts(c) ==
  /\ child[c] = "queued"
  /\ child' = [child EXCEPT ![c] = "running"]
  /\ UNCHANGED <<jobFrame, sendVars, job, told, started, endVars>>

ChildRests(c) ==
  /\ child[c] = "running"
  /\ child' = [child EXCEPT ![c] = "rest"]
  /\ UNCHANGED <<jobFrame, sendVars, job, told, started, endVars>>

(* A Team concludes only once it was let go, and with a hint when the user *)
(* stopped it; a child when its Task is at rest or it was told to stop.    *)
JobConcludes(c) ==
  /\ job[c] = "running"
  /\ Kind[c] = "team" => c \in started
  /\ Kind[c] = "child" => c \in told \/ child[c] = "rest"
  /\ job' = [job EXCEPT ![c] = "done"]
  /\ hinted' = IF Kind[c] = "team" /\ c \in told THEN hinted \cup {c} ELSE hinted
  /\ UNCHANGED <<jobFrame, delivering, hand, told, started, child, endVars>>

(* Its thread reports: a pure background job once the tool subscribed, a   *)
(* terminal command once the tool gave up waiting.                         *)
JobReports(c) ==
  /\ job[c] = "done"
  /\ IF Kind[c] = "terminal" THEN c \in handedOver ELSE tool[c] \in {"launching", "returned"}
  /\ Complete(c)
  /\ job' = [job EXCEPT ![c] = "reported"]
  /\ UNCHANGED <<owed, close, held, toolVars, runVars, accepted, told, started, child, endVars,
                 excluded>>

(* commit_start, when the receipt of the approved Team was committed.      *)
CommitStart(c) ==
  /\ Kind[c] = "team" /\ tool[c] = "returned" /\ exec = "driving"
  /\ c \in staged /\ entry[c] # "none"
  /\ staged' = staged \ {c}
  /\ started' = started \cup {c}
  /\ UNCHANGED <<entry, asked, owner, sendVars, owed, close, held, toolVars, runVars, endVars,
                 accepted, excluded, job, told, child>>

(* _cancel_all calls one on_cancel; a Team that was withdrawn does not wait *)
(* for its receipt.                                                        *)
Tells(c) ==
  \E reason \in {"user", "parent", "withdraw", "shutdown"} :
    /\ <<c, reason>> \in owed
    /\ owed' = owed \ {<<c, reason>>}
    /\ Tell(c)
    /\ started' = IF Kind[c] = "team" /\ reason # "user" THEN started \cup {c} ELSE started
    /\ UNCHANGED <<regVars, sendVars, close, held, toolVars, job, runVars, endVars, accepted,
                   excluded>>

(* _deliver: tell the job first when the user stopped it,                  *)
DeliverTells(c) ==
  /\ hand[c] = "tell"
  /\ hand' = [hand EXCEPT ![c] = "put"]
  /\ Tell(c)
  /\ UNCHANGED <<jobFrame, delivering, hinted, job, started, endVars>>

(* put the message (report_cancelled_result: only while the Run of the call *)
(* is active, else settle its placeholder),                                *)
DeliverPuts(c) ==
  /\ hand[c] = "put"
  /\ hand' = [hand EXCEPT ![c] = "release"]
  /\ IF c \in hinted /\ ~(owner[c] = run /\ runSt \in {"running", "suspended", "crashed"})
     THEN cards' = cards \cup {c} /\ UNCHANGED puts
     ELSE puts' = [puts EXCEPT ![c] = @ + 1] /\ UNCHANGED cards
  /\ UNCHANGED <<jobFrame, delivering, hinted, jobVars, dropped, settled, discarded>>

(* and leave the in-flight count, whatever happened.                       *)
DeliverReleases(c) ==
  /\ hand[c] = "release"
  /\ hand' = [hand EXCEPT ![c] = "none"]
  /\ delivering' = delivering - 1
  /\ UNCHANGED <<jobFrame, hinted, jobVars, endVars>>

-----------------------------------------------------------------------------
(* The user.                                                               *)

(* cancel_tool_call: an unregistered call is marked while an execution is  *)
(* registered.                                                             *)
UserCancels(c) ==
  /\ IF entry[c] = "none"
     THEN /\ exec # "off" /\ c \notin marked
          /\ marked' = marked \cup {c}
          /\ accepted' = IF tool[c] = "running" THEN accepted \cup {c} ELSE accepted
          /\ UNCHANGED <<regVars, sendVars, owed, endVars>>
     ELSE /\ c \notin asked
          /\ CancelEntry(c)
          /\ UNCHANGED <<marked, accepted>>
  /\ UNCHANGED <<close, held, tool, detached, handedOver, jobVars, runVars, excluded>>

UserDetaches(c) ==
  /\ entry[c] = "foreground"
  /\ entry' = [entry EXCEPT ![c] = "background"]
  /\ detached' = detached \cup {c}
  /\ UNCHANGED <<asked, staged, owner, sendVars, owed, close, held, tool, handedOver, marked,
                 jobVars, runVars, endVars, accepted, excluded>>

(* _replace_latest_input: with the Task idle the user takes the turn of a  *)
(* call back; its registration is withdrawn.                               *)
UserEdits(c) ==
  /\ exec = "off" /\ ~cancelling /\ runSt \in {"ended", "crashed"}
  /\ tool[c] = "returned" /\ c \notin excluded
  /\ excluded' = excluded \cup {c}
  /\ Drop(Entries \cap {c}, "withdraw")
  /\ UNCHANGED <<sendVars, close, held, toolVars, jobVars, runVars, accepted>>

-----------------------------------------------------------------------------
(* The Runs and executions of the Task.                                    *)

workFrame == <<sendVars, close, held, tool, detached, handedOver, job, told, started, accepted,
               excluded>>
runFrame == <<workFrame, abandoned>>

(* A Run opens, or a suspended one is woken. One whose failure could not be *)
(* settled has no executor any more: the Task is idle for the scheduler.   *)
RunStarts ==
  /\ exec = "off" /\ ~cancelling /\ close = "open"
  /\ \/ runSt = "suspended" /\ UNCHANGED run
     \/ runSt \in {"ended", "crashed"} /\ run < MaxRun /\ run' = run + 1
  /\ runSt' = "running" /\ exec' = "driving"
  /\ UNCHANGED <<regVars, owed, marked, endVars, signal, cancelling, spread, child, runFrame>>

Stop ==
  /\ exec # "off" /\ ~signal
  /\ signal' = TRUE
  /\ UNCHANGED <<regVars, owed, marked, endVars, run, runSt, exec, cancelling, spread, child,
                 runFrame>>

(* The tool calls of a Run have returned before it settles.                *)
ToolsReturned == \A c \in Calls : tool[c] \in {"off", "returned"}

(* The Run settles. Released at once without a signal; with one the        *)
(* background work is dropped first. A Run that fails withdraws the Teams  *)
(* it staged; one cannot suspend or end in order with a staged Team.       *)
Uncommitted == {c \in Entries : c \in staged /\ owner[c] = run}

RunSettles ==
  /\ exec = "driving" /\ ToolsReturned
  /\ \/ /\ Uncommitted = {} /\ runSt' \in {"suspended", "ended"}
        /\ UNCHANGED <<regVars, owed, endVars>>
     \/ runSt' = "ended" /\ Drop(Uncommitted, "withdraw")
  /\ exec' = IF signal THEN "drop" ELSE "off"
  /\ marked' = {}
  /\ UNCHANGED <<run, signal, cancelling, spread, child, runFrame>>

(* Settling the failure failed: released without the drop, so what complete *)
(* left for the drop stays in the registry.                                *)
RunCrashes ==
  /\ "settle" \in Faults
  /\ exec = "driving" /\ ToolsReturned
  /\ Drop(Uncommitted, "withdraw")
  /\ exec' = "off" /\ signal' = FALSE /\ marked' = {}
  /\ runSt' = "crashed"
  /\ abandoned' = abandoned \cup {c \in Entries : job[c] = "reported"}
  /\ UNCHANGED <<run, cancelling, spread, child, workFrame>>

DropTask == Drop(Entries, "parent")

(* Mutant of ExecDrops: the signal is taken first.                         *)
ExecConsumesFirst ==
  /\ exec = "drop"
  /\ IF signal
     THEN signal' = FALSE /\ UNCHANGED <<regVars, owed, endVars, exec>>
     ELSE DropTask /\ exec' = "dropped" /\ UNCHANGED signal
  /\ UNCHANGED <<marked, run, runSt, cancelling, spread, child, runFrame>>

ExecDrops ==
  /\ exec = "drop"
  /\ DropTask
  /\ exec' = "dropped"
  /\ UNCHANGED <<marked, run, runSt, signal, cancelling, spread, child, runFrame>>

TaskTold == ~\E c \in Calls : <<c, "parent">> \in owed

(* Unregistered with the signal; a Run that had suspended is cancelled. One *)
(* that is cancelled now or was when it settled has to stop the children.  *)
ExecReleases ==
  /\ exec = "dropped" /\ TaskTold
  /\ exec' = "off" /\ signal' = FALSE
  /\ runSt' = "ended"
  /\ spread' \in IF runSt = "suspended" THEN {TRUE} ELSE {spread, TRUE}
  /\ UNCHANGED <<regVars, owed, marked, endVars, run, cancelling, child, runFrame>>

(* A suspended Run is cancelled under the gate: dropped, then cancelled.   *)
SuspendedDrops ==
  /\ exec = "off" /\ runSt = "suspended" /\ ~cancelling /\ close = "open"
  /\ cancelling' = TRUE
  /\ DropTask
  /\ UNCHANGED <<marked, run, runSt, exec, signal, spread, child, runFrame>>

SuspendedCancels ==
  /\ cancelling /\ TaskTold
  /\ cancelling' = FALSE /\ runSt' = "ended" /\ spread' = TRUE
  /\ UNCHANGED <<regVars, owed, marked, endVars, run, exec, signal, child, runFrame>>

(* after_cancelled: every child Task is told to stop its Run.              *)
CancelSpreads ==
  /\ spread
  /\ spread' = FALSE
  /\ child' = [c \in Calls |-> IF child[c] = "running" THEN "rest" ELSE child[c]]
  /\ UNCHANGED <<regVars, owed, marked, endVars, run, runSt, exec, signal, cancelling, runFrame>>

-----------------------------------------------------------------------------
(* close(), at shutdown: no more deliveries, every entry taken out, wait   *)
(* for the deliveries in flight, then tell the jobs.                       *)
closeFrame == <<asked, staged, owner, sendVars, toolVars, jobVars, runVars, puts, cards,
                settled, discarded, accepted, excluded>>

CloseBegins ==
  /\ close = "open"
  /\ close' = "waiting"
  /\ held' = Entries
  /\ dropped' = dropped \cup Entries
  /\ entry' = [c \in Calls |-> "none"]
  /\ UNCHANGED <<owed, closeFrame>>

CloseWaited ==
  /\ close = "waiting" /\ delivering = 0
  /\ close' = "telling"
  /\ held' = {} /\ owed' = owed \cup Owe(held, "shutdown")
  /\ UNCHANGED <<entry, dropped, closeFrame>>

CloseReturns ==
  /\ close = "telling" /\ ~\E c \in Calls : <<c, "shutdown">> \in owed
  /\ close' = "closed"
  /\ UNCHANGED <<held, owed, entry, dropped, closeFrame>>

-----------------------------------------------------------------------------
ToolStep(c) ==
  \/ Register(c) \/ ToolChecks(c) \/ ToolTakes(c) \/ ToolAborts(c) \/ ToolDetaches(c)
  \/ ToolSettles(c) \/ ToolCompletes(c) \/ ToolLaunches(c)

JobStep(c) == JobConcludes(c) \/ JobReports(c)

SendStep(c) == DeliverTells(c) \/ DeliverPuts(c) \/ DeliverReleases(c) \/ Tells(c)

ExecStep == ExecDrops \/ ExecReleases \/ SuspendedCancels \/ CancelSpreads

CloseStep == CloseWaited \/ CloseReturns

Outside ==
  \/ \E c \in Calls : ToolStarts(c) \/ ToolDiscards(c) \/ CommitStart(c) \/ UserCancels(c)
                      \/ UserDetaches(c) \/ UserEdits(c) \/ ChildStarts(c) \/ ChildRests(c)
  \/ RunStarts \/ Stop \/ RunSettles \/ RunCrashes \/ SuspendedDrops \/ CloseBegins

Next ==
  \/ \E c \in Calls : ToolStep(c) \/ JobStep(c) \/ SendStep(c)
  \/ ExecStep \/ CloseStep \/ Outside

Spec == Init /\ [][Next]_vars

(* Threads and the event loop go on; nothing is assumed of the user, of    *)
(* the model or of when work concludes, except that work told to stop does. *)
Fairness ==
  /\ \A c \in Calls : /\ WF_vars(ToolStep(c))
                      /\ WF_vars(SendStep(c))
                      /\ WF_vars(JobReports(c))
                      /\ WF_vars(c \in told /\ JobConcludes(c))
  /\ WF_vars(ExecStep) /\ WF_vars(CloseStep)

FairSpec == Spec /\ Fairness

=============================================================================
