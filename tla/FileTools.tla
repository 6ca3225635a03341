------------------------------ MODULE FileTools ------------------------------
(***************************************************************************)
(* How the tool calls of a model reach the files of a workspace: the batch *)
(* of one step (tool_batch_runner.py), the gate and the runner             *)
(* (core/tool/execute), and the tools that change files (write_file,       *)
(* replace, apply_patch, move_file, delete_file). The content of a file is *)
(* the set of the edits it carries; an absent file carries none. Two Tasks *)
(* of one workspace, and programs of the user, change the same files: no   *)
(* lock is between them.                                                   *)
(***************************************************************************)
EXTENDS Integers, Sequences, FiniteSets

CONSTANTS FileCalls,
          Base, Foreign,      \* what was there, and what others write
          Tasks2,             \* the Tasks that share the workspace
          Batch,              \* the calls of the step of a Task, in order
          Plans,              \* the kinds of the calls that are looked at
          MaxForeign,         \* bound: changes by other programs
          MaxSignals          \* bound: stops and cancellations

ASSUME FileAssumption ==
  /\ Base \notin FileCalls /\ Foreign \notin FileCalls \cup {Base}
  /\ Batch \in [Tasks2 -> Seq(FileCalls)]
  /\ {MaxForeign, MaxSignals} \subseteq Nat

CallsOf(t) == {Batch[t][i] : i \in DOMAIN Batch[t]}
TaskOf(c) == CHOOSE t \in Tasks2 : c \in CallsOf(t)

(* A call is of one step of one Task.                                       *)
ASSUME BatchAssumption ==
  \A c \in FileCalls : \E t \in Tasks2 : c \in CallsOf(t) /\ \A u \in Tasks2 \ {t} : c \notin CallsOf(u)

VARIABLES
  file,      \* the content of the files "a" and "b"
  plan,      \* the kind of every call
  at,        \* where a call is
  seen,      \* what a call has read of the files
  process,   \* the child process of a call: "none", "alive", "over"
  changed,   \* history: the files a call has changed
  report,    \* the observation of a call
  stops,     \* the Tasks that were told to stop
  halted,    \* the calls that were cancelled one by one
  abandoned, \* the Tasks whose batch was cancelled
  foreign

fileVars == <<file, plan, at, seen, process, changed, report, stops, halted, abandoned, foreign>>

Files == {"a", "b"}
Marks == FileCalls \cup {Base, Foreign}
Absent == {}

Reports == {"none", "denied", "cancelled", "success", "error", "partial", "failed", "unknown"}

(* What a call of a kind means to change. "job" is a tool that runs in a    *)
(* process of its own, "search" one that may run beside others, "ask" one   *)
(* that waits for a decision of the user.                                   *)
Targets(c) ==
  CASE plan[c] \in {"patch", "move"} -> Files
    [] plan[c] \in {"search", "ask"} -> {}
    [] OTHER -> {"a"}

Started == {"new", "admitted", "ready", "one", "two", "linked", "spawned", "killing"}

FileTypeOK ==
  /\ file \in [Files -> SUBSET Marks]
  /\ plan \in Plans
  /\ at \in [FileCalls -> Started \cup {"done"}]
  /\ seen \in [FileCalls -> [Files -> SUBSET Marks]]
  /\ process \in [FileCalls -> {"none", "alive", "over"}]
  /\ changed \in [FileCalls -> SUBSET Files]
  /\ report \in [FileCalls -> Reports]
  /\ stops \subseteq Tasks2 /\ halted \subseteq FileCalls /\ abandoned \subseteq Tasks2
  /\ foreign \in 0..MaxForeign

(* Every call stands at the same place: before the batch, or when all is    *)
(* done.                                                                    *)
FilesAt(place) ==
  /\ file \in [Files -> {Absent, {Base}}]
  /\ plan \in Plans
  /\ at = [c \in FileCalls |-> place]
  /\ seen = [c \in FileCalls |-> [f \in Files |-> Absent]]
  /\ process = [c \in FileCalls |-> "none"]
  /\ changed = [c \in FileCalls |-> {}]
  /\ report = [c \in FileCalls |-> "none"]
  /\ stops = {} /\ halted = {} /\ abandoned = {} /\ foreign = 0

FileInit == FilesAt("new")

-----------------------------------------------------------------------------
(* run_tool_batch: the order of a batch.                                    *)

IsParallel(c) == plan[c] = "search"
RequiresUserDecision(c) == plan[c] = "ask"

(* _reject_mixed_decision_batch: who needs a decision of the user comes     *)
(* alone, or nothing of the batch is executed.                              *)
Mixed(t) == Len(Batch[t]) > 1 /\ \E c \in CallsOf(t) : RequiresUserDecision(c)

Before(c) ==
  LET calls == Batch[TaskOf(c)] IN
  {calls[i] : i \in {i \in DOMAIN calls : \E j \in DOMAIN calls : j > i /\ calls[j] = c}}

(* Mutant of Turn: the calls of a batch run at once.                        *)
TurnOfAll(c) == TRUE

(* The serial calls run one after the other; the parallel ones after them,  *)
(* together.                                                                *)
Turn(c) ==
  LET mine == CallsOf(TaskOf(c)) IN
  IF IsParallel(c) THEN \A d \in mine : ~IsParallel(d) => at[d] = "done"
  ELSE \A d \in Before(c) : ~IsParallel(d) => at[d] = "done"

Report(c, r) == report' = [report EXCEPT ![c] = r]
Goes(c, where) == at' = [at EXCEPT ![c] = where]
Ends(c, r) == Report(c, r) /\ Goes(c, "done")

RejectMixed(t) ==
  /\ Mixed(t) /\ t \notin abandoned /\ \E c \in CallsOf(t) : at[c] = "new"
  /\ at' = [c \in FileCalls |-> IF c \in CallsOf(t) THEN "done" ELSE at[c]]
  /\ report' = [c \in FileCalls |-> IF c \in CallsOf(t) THEN "denied" ELSE report[c]]
  /\ UNCHANGED <<file, plan, seen, process, changed, stops, halted, abandoned, foreign>>

(* ToolAccessGate.evaluate: an unknown tool, one that is not admitted, an   *)
(* image for a model without eyes, arguments that do not fit, a hook that   *)
(* says no; the hook may change the arguments, and then nothing of the path *)
(* is as the model asked.                                                   *)
Admitted(c) == Goes(c, "admitted") /\ UNCHANGED report
Denied(c)   == Ends(c, "denied")

Gate(c) ==
  /\ at[c] = "new" /\ ~Mixed(TaskOf(c)) /\ Turn(c) /\ TaskOf(c) \notin abandoned
  /\ Admitted(c) \/ Denied(c)
  /\ UNCHANGED <<file, plan, seen, process, changed, stops, halted, abandoned, foreign>>

(* _cancel_sources: both registries, read anew. The signal of a call is     *)
(* released when the call is over.                                          *)
IsCancelled(c) == TaskOf(c) \in stops \/ (c \in halted /\ at[c] # "done")

-----------------------------------------------------------------------------
(* _execute_in_thread: the two signals are read once, before the handler.   *)
Runs(c) ==
  /\ at[c] = "admitted" /\ plan[c] # "job"
  /\ IF IsCancelled(c) THEN Ends(c, "cancelled") ELSE Goes(c, "ready") /\ UNCHANGED report
  /\ UNCHANGED <<file, plan, seen, process, changed, stops, halted, abandoned, foreign>>

(* resolve_within_workspace, resolve_workspace_relative_path and            *)
(* blocked_device_reason: outside of the workspace, in its reserved area, a *)
(* device, a link, or not a path at all.                                    *)
PathRefused(c) == Targets(c) # {} /\ Ends(c, "error")

(* What the tools read and refuse before anything is written: a target that *)
(* is missing or unreadable, a text that is not found or not unique, a move *)
(* onto something. For a patch, every file and every hunk is tried.         *)
ReadsFile(c) ==
  seen' = IF plan[c] = "replace" THEN [seen EXCEPT ![c]["a"] = file["a"]] ELSE seen

ReplaceFits == file["a"] # Absent
DeleteFits  == file["a"] # Absent
PatchFits   == file["a"] # Absent /\ file["b"] # Absent
MoveFits    == file["a"] # Absent /\ file["b"] = Absent

Fits(c) ==
  CASE plan[c] = "replace" -> ReplaceFits
    [] plan[c] = "delete"  -> DeleteFits
    [] plan[c] = "patch"   -> PatchFits
    [] plan[c] = "move"    -> MoveFits
    [] OTHER -> TRUE

(* The handler up to its own look at the signal of the Task.                *)
Validates(c) ==
  /\ at[c] = "ready" /\ plan[c] \notin {"search", "ask"}
  /\ \/ PathRefused(c) /\ UNCHANGED seen
     \/ (Fits(c) => plan[c] \in {"replace", "patch"}) /\ Ends(c, "error") /\ UNCHANGED seen
     \/ Fits(c) /\ TaskOf(c) \in stops /\ Ends(c, "cancelled") /\ UNCHANGED seen
     \/ Fits(c) /\ TaskOf(c) \notin stops /\ Goes(c, "one") /\ ReadsFile(c) /\ UNCHANGED report
  /\ UNCHANGED <<file, plan, process, changed, stops, halted, abandoned, foreign>>

(* A search reads, and a question is put: neither changes a file.           *)
LooksOnly(c) ==
  /\ at[c] = "ready" /\ plan[c] \in {"search", "ask"}
  /\ \E r \in {"success", "error"} : Ends(c, r)
  /\ UNCHANGED <<file, plan, seen, process, changed, stops, halted, abandoned, foreign>>

(* atomic_write_text: a temporary file takes the place of the target at     *)
(* once; when that fails, it is gone and the target is as it was.           *)
AtomicWrite(c, f, content) ==
  /\ file' = [file EXCEPT ![f] = content]
  /\ changed' = [changed EXCEPT ![c] = @ \cup {f}]

Unwritten == UNCHANGED <<file, changed>>

(* write_file.                                                              *)
WritesFile(c) ==
  /\ at[c] = "one" /\ plan[c] = "write"
  /\ \/ AtomicWrite(c, "a", {c}) /\ Ends(c, "success")
     \/ Unwritten /\ Ends(c, "error")
  /\ UNCHANGED <<plan, seen, process, stops, halted, abandoned, foreign>>

(* replace: what was read, with the edit, takes the place of what is there. *)
Replaces(c) ==
  /\ at[c] = "one" /\ plan[c] = "replace"
  /\ \/ AtomicWrite(c, "a", seen[c]["a"] \cup {c}) /\ Ends(c, "success")
     \/ Unwritten /\ Ends(c, "error")
  /\ UNCHANGED <<plan, seen, process, stops, halted, abandoned, foreign>>

(* delete_file: the path is resolved and the target looked at once more.    *)
Deletes(c) ==
  /\ at[c] = "one" /\ plan[c] = "delete"
  /\ \/ file["a"] # Absent /\ AtomicWrite(c, "a", Absent) /\ Ends(c, "success")
     \/ Unwritten /\ Ends(c, "error")
  /\ UNCHANGED <<plan, seen, process, stops, halted, abandoned, foreign>>

(* Mutant of PatchFails: nobody counts what was written before.             *)
PatchFailsCleanly(c) == Ends(c, "error")

(* PatchApplyError.partial_applied.                                         *)
PatchFails(c) == Ends(c, IF changed[c] = {} THEN "error" ELSE "partial")

(* apply_all_with_diff: a file after the other is read again, patched and   *)
(* written; the first failure ends it.                                      *)
PatchReads(c, f) ==
  /\ seen' = [seen EXCEPT ![c][f] = file[f]]
  /\ IF file[f] = Absent THEN PatchFails(c) ELSE Goes(c, "two") /\ UNCHANGED report

Next2(c) == IF "a" \in changed[c] THEN "b" ELSE "a"

Patches(c) ==
  /\ plan[c] = "patch"
  /\ \/ at[c] = "one" /\ Unwritten /\ PatchReads(c, Next2(c))
     \/ /\ at[c] = "two" /\ UNCHANGED seen
        /\ \/ /\ AtomicWrite(c, Next2(c), seen[c][Next2(c)] \cup {c})
              /\ IF Next2(c) = "b" THEN Ends(c, "success") ELSE Goes(c, "one") /\ UNCHANGED report
           \/ Unwritten /\ PatchFails(c)
  /\ UNCHANGED <<plan, process, stops, halted, abandoned, foreign>>

(* os.link: the target gets the content of the source, and must not exist.  *)
Links(c) == file["a"] # Absent /\ file["b"] = Absent

(* _move_without_overwriting: a link, then the source is removed; when that *)
(* fails the link is taken back, unless the target is no longer the source. *)
Moves(c) ==
  /\ plan[c] = "move"
  /\ \/ /\ at[c] = "one" /\ Links(c)
        /\ AtomicWrite(c, "b", file["a"])
        /\ Goes(c, "linked") /\ UNCHANGED report
     \/ at[c] = "one" /\ Unwritten /\ Ends(c, "error")
     \/ /\ at[c] = "linked"
        /\ \/ file["a"] # Absent /\ AtomicWrite(c, "a", Absent) /\ Ends(c, "success")
           \/ file["a"] = file["b"] /\ AtomicWrite(c, "b", Absent) /\ Ends(c, "failed")
           \/ Unwritten /\ Ends(c, "failed")
  /\ UNCHANGED <<plan, seen, process, stops, halted, abandoned, foreign>>

-----------------------------------------------------------------------------
(* _execute_in_process.                                                     *)

Spawns(c) ==
  /\ at[c] = "admitted" /\ plan[c] = "job"
  /\ IF IsCancelled(c) THEN Ends(c, "cancelled") /\ UNCHANGED process
     ELSE \/ /\ Goes(c, "spawned") /\ UNCHANGED report
             /\ process' = [process EXCEPT ![c] = "alive"]
          \/ Ends(c, "error") /\ UNCHANGED process
  /\ UNCHANGED <<file, plan, seen, changed, stops, halted, abandoned, foreign>>

(* _execute_handler, in the child: the tool works while it lives, and then  *)
(* the process is over, with a result, without one, or not at all.          *)
ProcessWorks(c) ==
  /\ process[c] = "alive" /\ changed[c] = {}
  /\ AtomicWrite(c, "a", {c})
  /\ UNCHANGED <<plan, at, seen, process, report, stops, halted, abandoned, foreign>>

ProcessExits(c) ==
  /\ process[c] = "alive"
  /\ process' = [process EXCEPT ![c] = "over"]
  /\ UNCHANGED <<file, plan, at, seen, changed, report, stops, halted, abandoned, foreign>>

(* _wait_for_result: a signal, or the time is over. Time passes.            *)
TimeIsUp(c) == TRUE

(* The process is killed, with all that it started.                         *)
Interrupts(c) ==
  /\ at[c] = "spawned"
  /\ IsCancelled(c) \/ (process[c] = "alive" /\ TimeIsUp(c))
  /\ Goes(c, "killing")
  /\ UNCHANGED <<file, plan, seen, process, changed, report, stops, halted, abandoned, foreign>>

Kills(c) ==
  /\ at[c] = "killing" /\ process[c] = "alive"
  /\ process' = [process EXCEPT ![c] = "over"]
  /\ UNCHANGED <<file, plan, at, seen, changed, report, stops, halted, abandoned, foreign>>

(* The finally of _execute_in_process stands before the return.             *)
MayTell(c) == at[c] \in {"spawned", "killing"} /\ process[c] = "over"

Tells(c) ==
  /\ MayTell(c)
  /\ IF at[c] = "killing" THEN Ends(c, "unknown")
     ELSE IF changed[c] = {} THEN Ends(c, "failed")
          ELSE \E r \in {"success", "failed"} : Ends(c, r)
  /\ UNCHANGED <<file, plan, seen, process, changed, stops, halted, abandoned, foreign>>

-----------------------------------------------------------------------------
(* Around the calls.                                                        *)

Signalled == Cardinality(stops) + Cardinality(halted) + Cardinality(abandoned)

StopTask(t) ==
  /\ t \notin stops /\ Signalled < MaxSignals
  /\ stops' = stops \cup {t}
  /\ UNCHANGED <<file, plan, at, seen, process, changed, report, halted, abandoned, foreign>>

(* The user cancels one call.                                               *)
StopCall(c) ==
  /\ at[c] # "done" /\ c \notin halted /\ Signalled < MaxSignals
  /\ halted' = halted \cup {c}
  /\ UNCHANGED <<file, plan, at, seen, process, changed, report, stops, abandoned, foreign>>

(* The coroutine of the batch is cancelled: what runs in a thread goes on,  *)
(* what has not begun never does.                                           *)
Abandon(t) ==
  /\ t \notin abandoned /\ Signalled < MaxSignals
  /\ abandoned' = abandoned \cup {t}
  /\ UNCHANGED <<file, plan, at, seen, process, changed, report, stops, halted, foreign>>

OthersWrite ==
  /\ foreign < MaxForeign /\ foreign' = foreign + 1
  /\ \E f \in Files : file' \in {[file EXCEPT ![f] = @ \cup {Foreign}], [file EXCEPT ![f] = Absent]}
  /\ UNCHANGED <<plan, at, seen, process, changed, report, stops, halted, abandoned>>

InThread(c) ==
  Runs(c) \/ Validates(c) \/ LooksOnly(c) \/ WritesFile(c) \/ Replaces(c) \/ Deletes(c)
  \/ Patches(c) \/ Moves(c)
InProcess(c) == Spawns(c) \/ Interrupts(c) \/ Kills(c) \/ Tells(c)

FileNext ==
  \/ \E c \in FileCalls : Gate(c) \/ InThread(c) \/ InProcess(c)
                          \/ ProcessWorks(c) \/ ProcessExits(c) \/ StopCall(c)
  \/ \E t \in Tasks2 : RejectMixed(t) \/ StopTask(t) \/ Abandon(t)
  \/ OthersWrite

FileSpec == FileInit /\ [][FileNext]_fileVars

(* The threads of the backend run. A process does what it likes.            *)
FileFairness ==
  \A c \in FileCalls : WF_fileVars(Gate(c)) /\ WF_fileVars(InThread(c)) /\ WF_fileVars(InProcess(c))

-----------------------------------------------------------------------------
(* What a tool tells the model about the files is true: a refusal, a        *)
(* cancellation in the tool and a clean failure changed nothing, a success  *)
(* changed all it was asked to, and a failure on the way says so.           *)
ReportIsTrue ==
  \A c \in FileCalls :
    /\ report[c] \in {"denied", "cancelled", "error"} => changed[c] = {}
    /\ report[c] = "success" => changed[c] = Targets(c)
    /\ report[c] = "partial" => changed[c] # {}

(* A call that puts back what it has read, or moves it.                     *)
PutsBack(c) == plan[c] \in {"replace", "patch", "move"}
OthersPutNothingBack(c) == \A e \in FileCalls : PutsBack(e) => TaskOf(e) = TaskOf(c)

(* An edit never takes back an edit of its own Task that it has not seen:   *)
(* the calls of a step that change files do not overlap. Other Tasks have   *)
(* no such promise: one that puts back or moves what it has read can bring  *)
(* an edit to where its own Task does not expect it.                        *)
OwnEditsSurvive ==
  [][\A c, d \in FileCalls :
       (/\ TaskOf(c) = TaskOf(d) /\ c # d /\ plan[c] \in {"replace", "patch"}
        /\ changed'[c] # changed[c] /\ OthersPutNothingBack(c)) =>
         \A f \in changed'[c] \ changed[c] : d \in file[f] => d \in file'[f]]_fileVars

(* A process is told off in time: a call that waits for one ends.           *)
ProcessCallsEnd ==
  \A c \in FileCalls : (at[c] = "spawned") ~> (at[c] = "done")
=============================================================================
