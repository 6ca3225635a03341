---------------------------- MODULE WorkspaceProofs ---------------------------
(***************************************************************************)
(* What lies in a workspace: the files the tools change, the pages a       *)
(* window shows of them, and the configuration of Agents and Teams.        *)
(***************************************************************************)
EXTENDS FileTools, WorkspaceFiles, Catalog, FiniteSetTheorems, TLAPS

-----------------------------------------------------------------------------
(***************************************************************************)
(* The calls that change files, for any Tasks, batches and plans.          *)
(***************************************************************************)

(* The inductive invariant.                                                 *)

(* Where a call is, what it has changed so far and what it has told.        *)
CallFits(c) ==
  /\ at[c] # "done" => report[c] = "none"
  /\ at[c] \in {"new", "admitted", "ready"} => changed[c] = {} /\ process[c] = "none"
  /\ at[c] \in {"ready", "one", "two", "linked"} => plan[c] # "job"
  /\ at[c] = "one" => plan[c] \notin {"search", "ask"}
  /\ at[c] = "one" /\ plan[c] # "patch" => changed[c] = {}
  /\ at[c] \in {"one", "two"} /\ plan[c] = "patch" => changed[c] \subseteq {"a"}
  /\ at[c] = "two" => plan[c] = "patch"
  /\ at[c] = "linked" => plan[c] = "move" /\ changed[c] = {"b"}
  /\ at[c] \in {"spawned", "killing"} => plan[c] = "job" /\ process[c] # "none"
  /\ process[c] = "alive" => at[c] \in {"spawned", "killing"}
  /\ plan[c] = "job" => changed[c] \subseteq {"a"}

(* A call of a batch that is refused as a whole has not begun.              *)
WaitsIfMixed(c) == Mixed(TaskOf(c)) => changed[c] = {} /\ at[c] \in {"new", "done"}

(* What a call told is true.                                                *)
ToldTrue(c) ==
  /\ report[c] \in {"denied", "cancelled", "error"} => changed[c] = {}
  /\ report[c] = "success" => changed[c] = Targets(c)
  /\ report[c] = "partial" => changed[c] # {}

FileInv ==
  /\ FileTypeOK
  /\ \A c \in FileCalls : CallFits(c) /\ ToldTrue(c) /\ WaitsIfMixed(c)

-----------------------------------------------------------------------------
(* What a step of a call does.                                              *)

(* A step of one call leaves the others alone.                              *)
OthersKept(c) ==
  /\ \A d \in FileCalls \ {c} :
       /\ at'[d] = at[d] /\ seen'[d] = seen[d] /\ process'[d] = process[d]
       /\ changed'[d] = changed[d] /\ report'[d] = report[d]
  /\ UNCHANGED plan

(* What a call may do, by what it is and where it stands.                   *)
StepFits(c) ==
  FileTypeOK' /\ OthersKept(c) /\ CallFits(c)' /\ ToldTrue(c)'
  /\ (changed'[c] # changed[c] => at[c] \notin {"new", "done"})

LEMMA TargetsOf ==
  ASSUME NEW c \in FileCalls
  PROVE  /\ plan[c] \in {"patch", "move"} => Targets(c) = {"a", "b"}
         /\ plan[c] \in {"search", "ask"} => Targets(c) = {}
         /\ plan[c] \notin {"patch", "move", "search", "ask"} => Targets(c) = {"a"}
  BY DEF Targets, Files

LEMMA TargetsKept ==
  ASSUME NEW c \in FileCalls, UNCHANGED plan
  PROVE  Targets(c)' = Targets(c)
  BY DEF Targets

(* A call whose report fits what it has changed ends as it should.          *)
LEMMA EndsFits ==
  ASSUME FileTypeOK', NEW c \in FileCalls, OthersKept(c), at[c] \notin {"new", "done"}, at'[c] = "done",
         process'[c] # "alive", plan[c] = "job" => changed'[c] \subseteq {"a"},
         report'[c] \in {"denied", "cancelled", "error"} => changed'[c] = {},
         report'[c] = "success" => changed'[c] = Targets(c),
         report'[c] = "partial" => changed'[c] # {}
  PROVE  StepFits(c)
  <1>1. UNCHANGED plan
    BY DEF OthersKept
  <1>2. Targets(c)' = Targets(c)
    BY <1>1, TargetsKept
  <1> QED
    BY <1>1, <1>2 DEF CallFits, ToldTrue, StepFits

LEMMA AtomicWriteEffect ==
  ASSUME FileTypeOK, NEW c \in FileCalls, NEW f \in Files, NEW content \in SUBSET Marks,
         AtomicWrite(c, f, content)
  PROVE  /\ file' \in [Files -> SUBSET Marks] /\ changed' \in [FileCalls -> SUBSET Files]
         /\ file'[f] = content /\ \A g \in Files \ {f} : file'[g] = file[g]
         /\ changed'[c] = changed[c] \cup {f} /\ \A d \in FileCalls \ {c} : changed'[d] = changed[d]
  BY DEF FileTypeOK, AtomicWrite

LEMMA EndsEffect ==
  ASSUME FileTypeOK, NEW c \in FileCalls, NEW r \in Reports, Ends(c, r)
  PROVE  /\ at' \in [FileCalls -> Started \cup {"done"}] /\ report' \in [FileCalls -> Reports]
         /\ at'[c] = "done" /\ report'[c] = r
         /\ \A d \in FileCalls \ {c} : at'[d] = at[d] /\ report'[d] = report[d]
  BY DEF FileTypeOK, Ends, Goes, Report

(* A write that succeeds, and one that fails.                               *)
LEMMA WriteEnds ==
  ASSUME FileTypeOK, NEW c \in FileCalls, NEW content \in SUBSET Marks,
         \/ AtomicWrite(c, "a", content) /\ Ends(c, "success")
         \/ Unwritten /\ Ends(c, "error"),
         UNCHANGED <<plan, seen, process, stops, halted, abandoned, foreign>>
  PROVE  /\ FileTypeOK' /\ OthersKept(c)
         /\ at'[c] = "done" /\ process'[c] = process[c]
         /\ \/ changed'[c] = changed[c] \cup {"a"} /\ report'[c] = "success"
            \/ changed'[c] = changed[c] /\ report'[c] = "error"
  <1> "a" \in Files /\ {"success", "error"} \subseteq Reports
    BY DEF Files, Reports
  <1>1. CASE AtomicWrite(c, "a", content) /\ Ends(c, "success")
    BY <1>1, AtomicWriteEffect, EndsEffect DEF FileTypeOK, OthersKept
  <1>2. CASE Unwritten /\ Ends(c, "error")
    BY <1>2, EndsEffect DEF FileTypeOK, Unwritten, OthersKept
  <1> QED
    BY <1>1, <1>2

LEMMA GateFits ==
  ASSUME FileTypeOK, NEW c \in FileCalls, CallFits(c), ToldTrue(c), Gate(c)
  PROVE  StepFits(c)
  BY DEF FileTypeOK, CallFits, ToldTrue, Gate, Admitted, Denied, Goes, Ends, Report, StepFits, OthersKept,
         Started, Reports, Targets

LEMMA RunsFits ==
  ASSUME FileTypeOK, NEW c \in FileCalls, CallFits(c), ToldTrue(c), Runs(c)
  PROVE  StepFits(c)
  BY DEF FileTypeOK, CallFits, ToldTrue, Runs, Goes, Ends, Report, StepFits, OthersKept,
         Started, Reports, Targets

LEMMA ValidatesFits ==
  ASSUME FileTypeOK, NEW c \in FileCalls, CallFits(c), ToldTrue(c), Validates(c)
  PROVE  StepFits(c)
  <1>1. seen' \in [FileCalls -> [Files -> SUBSET Marks]] /\ \A d \in FileCalls \ {c} : seen'[d] = seen[d]
    BY DEF FileTypeOK, Validates, ReadsFile, Files
  <1>2. FileTypeOK' /\ OthersKept(c)
    BY <1>1 DEF FileTypeOK, CallFits, Validates, PathRefused, Goes, Ends, Report, OthersKept, Started, Reports
  <1> QED
    BY <1>2 DEF FileTypeOK, CallFits, ToldTrue, Validates, PathRefused, Goes, Ends, Report, StepFits, Targets

LEMMA LooksOnlyFits ==
  ASSUME FileTypeOK, NEW c \in FileCalls, CallFits(c), ToldTrue(c), LooksOnly(c)
  PROVE  StepFits(c)
  BY DEF FileTypeOK, CallFits, ToldTrue, LooksOnly, Goes, Ends, Report, StepFits, OthersKept, Started, Reports, Targets, Files

LEMMA WritesFileFits ==
  ASSUME FileTypeOK, NEW c \in FileCalls, CallFits(c), ToldTrue(c), WritesFile(c)
  PROVE  StepFits(c)
  <1>1. {c} \in SUBSET Marks
    BY DEF Marks
  <1>2. at[c] = "one" /\ plan[c] = "write"
    BY DEF WritesFile
  <1>3. /\ FileTypeOK' /\ OthersKept(c)
        /\ at'[c] = "done" /\ process'[c] = process[c]
        /\ \/ changed'[c] = changed[c] \cup {"a"} /\ report'[c] = "success"
           \/ changed'[c] = changed[c] /\ report'[c] = "error"
    BY <1>1, WriteEnds DEF WritesFile
  <1> QED
    BY <1>2, <1>3, EndsFits, TargetsOf DEF CallFits

LEMMA ReplacesFits ==
  ASSUME FileTypeOK, NEW c \in FileCalls, CallFits(c), ToldTrue(c), Replaces(c)
  PROVE  StepFits(c)
  <1>1. seen[c]["a"] \cup {c} \in SUBSET Marks
    BY DEF FileTypeOK, Files, Marks
  <1>2. at[c] = "one" /\ plan[c] = "replace"
    BY DEF Replaces
  <1>3. /\ FileTypeOK' /\ OthersKept(c)
        /\ at'[c] = "done" /\ process'[c] = process[c]
        /\ \/ changed'[c] = changed[c] \cup {"a"} /\ report'[c] = "success"
           \/ changed'[c] = changed[c] /\ report'[c] = "error"
    BY <1>1, WriteEnds DEF Replaces
  <1> QED
    BY <1>2, <1>3, EndsFits, TargetsOf DEF CallFits

LEMMA DeletesFits ==
  ASSUME FileTypeOK, NEW c \in FileCalls, CallFits(c), ToldTrue(c), Deletes(c)
  PROVE  StepFits(c)
  <1>1. Absent \in SUBSET Marks
    BY DEF Absent
  <1>2. at[c] = "one" /\ plan[c] = "delete"
    BY DEF Deletes
  <1>3. /\ FileTypeOK' /\ OthersKept(c)
        /\ at'[c] = "done" /\ process'[c] = process[c]
        /\ \/ changed'[c] = changed[c] \cup {"a"} /\ report'[c] = "success"
           \/ changed'[c] = changed[c] /\ report'[c] = "error"
    BY <1>1, WriteEnds DEF Deletes
  <1> QED
    BY <1>2, <1>3, EndsFits, TargetsOf DEF CallFits

LEMMA PatchesFits ==
  ASSUME FileTypeOK, NEW c \in FileCalls, CallFits(c), ToldTrue(c), Patches(c)
  PROVE  StepFits(c)
  <1>1. Next2(c) \in Files /\ seen[c][Next2(c)] \cup {c} \subseteq Marks /\ file[Next2(c)] \subseteq Marks
    BY DEF FileTypeOK, Files, Marks, Next2
  <1>2. CASE at[c] = "one" /\ Unwritten /\ PatchReads(c, Next2(c))
    <2>1. seen' \in [FileCalls -> [Files -> SUBSET Marks]] /\ \A d \in FileCalls \ {c} : seen'[d] = seen[d]
      BY <1>1, <1>2 DEF FileTypeOK, PatchReads
    <2>2. FileTypeOK' /\ OthersKept(c)
      BY <1>2, <2>1
         DEF FileTypeOK, Patches, PatchReads, PatchFails, Unwritten, Goes, Ends, Report, OthersKept, Started, Reports
    <2> QED
      BY <1>2, <2>2
         DEF FileTypeOK, CallFits, ToldTrue, Patches, PatchReads, PatchFails, Unwritten, Goes, Ends, Report, StepFits, Targets, Files
  <1>3. CASE /\ at[c] = "two" /\ UNCHANGED seen /\ AtomicWrite(c, Next2(c), seen[c][Next2(c)] \cup {c})
             /\ IF Next2(c) = "b" THEN Ends(c, "success") ELSE Goes(c, "one") /\ UNCHANGED report
    <2>1. FileTypeOK' /\ OthersKept(c)
      BY <1>1, <1>3 DEF FileTypeOK, Patches, AtomicWrite, Goes, Ends, Report, OthersKept, Started, Reports, Files
    <2>2. changed'[c] = changed[c] \cup {Next2(c)}
      BY <1>3 DEF FileTypeOK, AtomicWrite
    <2> QED
      BY <1>3, <2>1, <2>2
         DEF FileTypeOK, CallFits, ToldTrue, Patches, Next2, Goes, Ends, Report, StepFits, Targets, Files
  <1>4. CASE at[c] = "two" /\ UNCHANGED seen /\ Unwritten /\ PatchFails(c)
    BY <1>4
       DEF FileTypeOK, CallFits, ToldTrue, Patches, PatchFails, Unwritten, Goes, Ends, Report, StepFits,
           OthersKept, Started, Reports, Targets, Files
  <1> QED
    BY <1>2, <1>3, <1>4 DEF Patches

LEMMA MovesFits ==
  ASSUME FileTypeOK, NEW c \in FileCalls, CallFits(c), ToldTrue(c), Moves(c)
  PROVE  StepFits(c)
  <1>1. /\ file["a"] \in SUBSET Marks /\ Absent \in SUBSET Marks /\ {"a", "b"} = Files
        /\ {"success", "error", "failed"} \subseteq Reports /\ "linked" \in Started
    BY DEF FileTypeOK, Files, Absent, Reports, Started
  <1>a. ASSUME at[c] = "one" /\ AtomicWrite(c, "b", file["a"]) /\ Goes(c, "linked") /\ UNCHANGED report
        PROVE  FileTypeOK' /\ OthersKept(c)
    <2>1. at' \in [FileCalls -> Started \cup {"done"}] /\ \A d \in FileCalls \ {c} : at'[d] = at[d]
      BY <1>1, <1>a DEF FileTypeOK, Goes
    <2> QED
      BY <1>1, <1>a, <2>1, AtomicWriteEffect DEF FileTypeOK, OthersKept, Moves
  <1>b. ASSUME Unwritten /\ \E r \in {"error", "failed"} : Ends(c, r)
        PROVE  FileTypeOK' /\ OthersKept(c)
    BY <1>1, <1>b, EndsEffect DEF FileTypeOK, OthersKept, Moves, Unwritten
  <1>c. ASSUME AtomicWrite(c, "a", Absent) /\ Ends(c, "success")
        PROVE  FileTypeOK' /\ OthersKept(c)
    BY <1>1, <1>c, EndsEffect, AtomicWriteEffect DEF FileTypeOK, OthersKept, Moves
  <1>d. ASSUME AtomicWrite(c, "b", Absent) /\ Ends(c, "failed")
        PROVE  FileTypeOK' /\ OthersKept(c)
    <2>1. /\ file' \in [Files -> SUBSET Marks] /\ changed' \in [FileCalls -> SUBSET Files]
          /\ \A d \in FileCalls \ {c} : changed'[d] = changed[d]
      BY <1>1, <1>d, AtomicWriteEffect
    <2>2. /\ at' \in [FileCalls -> Started \cup {"done"}] /\ report' \in [FileCalls -> Reports]
          /\ \A d \in FileCalls \ {c} : at'[d] = at[d] /\ report'[d] = report[d]
      BY <1>1, <1>d, EndsEffect
    <2> QED
      BY <2>1, <2>2 DEF FileTypeOK, OthersKept, Moves
  <1>2. FileTypeOK' /\ OthersKept(c)
    BY <1>a, <1>b, <1>c, <1>d DEF Moves
  <1>3. /\ at[c] \in {"one", "linked"} /\ process'[c] = process[c] /\ plan[c] = "move" /\ UNCHANGED plan
        /\ \/ /\ at[c] = "one" /\ at'[c] = "linked" /\ report'[c] = report[c]
              /\ changed'[c] = changed[c] \cup {"b"}
           \/ at[c] = "one" /\ at'[c] = "done" /\ report'[c] = "error" /\ changed'[c] = changed[c]
           \/ /\ at[c] = "linked" /\ at'[c] = "done" /\ report'[c] = "success"
              /\ changed'[c] = changed[c] \cup {"a"}
           \/ at[c] = "linked" /\ at'[c] = "done" /\ report'[c] = "failed"
    BY DEF FileTypeOK, Moves, AtomicWrite, Unwritten, Goes, Ends, Report
  <1>4. CASE at'[c] = "done"
    BY <1>2, <1>3, <1>4, EndsFits, TargetsOf DEF CallFits
  <1>5. CASE at'[c] = "linked"
    BY <1>2, <1>3, <1>5 DEF CallFits, ToldTrue, StepFits
  <1> QED
    BY <1>3, <1>4, <1>5

LEMMA SpawnsFits ==
  ASSUME FileTypeOK, NEW c \in FileCalls, CallFits(c), ToldTrue(c), Spawns(c)
  PROVE  StepFits(c)
  BY DEF FileTypeOK, CallFits, ToldTrue, Spawns, Goes, Ends, Report, StepFits, OthersKept, Started, Reports

LEMMA InterruptsFits ==
  ASSUME FileTypeOK, NEW c \in FileCalls, CallFits(c), ToldTrue(c), Interrupts(c)
  PROVE  StepFits(c)
  BY DEF FileTypeOK, CallFits, ToldTrue, Interrupts, Goes, StepFits, OthersKept, Started, Targets

LEMMA KillsFits ==
  ASSUME FileTypeOK, NEW c \in FileCalls, CallFits(c), ToldTrue(c), Kills(c)
  PROVE  StepFits(c)
  BY DEF FileTypeOK, CallFits, ToldTrue, Kills, StepFits, OthersKept, Targets

LEMMA TellsFits ==
  ASSUME FileTypeOK, NEW c \in FileCalls, CallFits(c), ToldTrue(c), Tells(c)
  PROVE  StepFits(c)
  <1>1. FileTypeOK' /\ OthersKept(c)
    BY DEF FileTypeOK, Tells, MayTell, Goes, Ends, Report, OthersKept, Started, Reports
  <1>2. /\ at[c] \in {"spawned", "killing"} /\ at'[c] = "done" /\ process'[c] = "over"
        /\ changed'[c] = changed[c]
        /\ report'[c] \in {"unknown", "failed"} \/ (report'[c] = "success" /\ changed[c] # {})
    BY DEF FileTypeOK, Tells, MayTell, Goes, Ends, Report
  <1>3. plan[c] = "job" /\ changed[c] \subseteq {"a"} /\ Targets(c) = {"a"}
    BY <1>2, TargetsOf DEF CallFits
  <1>4. changed[c] # {} => changed'[c] = Targets(c)
    BY <1>2, <1>3
  <1> QED
    BY <1>1, <1>2, <1>3, <1>4, EndsFits

LEMMA ProcessWorksFits ==
  ASSUME FileTypeOK, NEW c \in FileCalls, CallFits(c), ToldTrue(c), ProcessWorks(c)
  PROVE  StepFits(c)
  BY DEF FileTypeOK, CallFits, ToldTrue, ProcessWorks, AtomicWrite, StepFits, OthersKept, Files, Marks

LEMMA ProcessExitsFits ==
  ASSUME FileTypeOK, NEW c \in FileCalls, CallFits(c), ToldTrue(c), ProcessExits(c)
  PROVE  StepFits(c)
  BY DEF FileTypeOK, CallFits, ToldTrue, ProcessExits, StepFits, OthersKept, Targets

LEMMA CallStepFits ==
  ASSUME FileTypeOK, NEW c \in FileCalls, CallFits(c), ToldTrue(c),
         Gate(c) \/ InThread(c) \/ InProcess(c) \/ ProcessWorks(c) \/ ProcessExits(c)
  PROVE  StepFits(c)
  BY GateFits, RunsFits, ValidatesFits, LooksOnlyFits, WritesFileFits, ReplacesFits, DeletesFits, PatchesFits,
     MovesFits, SpawnsFits, InterruptsFits, KillsFits, TellsFits, ProcessWorksFits, ProcessExitsFits
     DEF InThread, InProcess

LEMMA TaskOfACall ==
  ASSUME NEW c \in FileCalls
  PROVE  TaskOf(c) \in Tasks2 /\ c \in CallsOf(TaskOf(c)) /\ \A t \in Tasks2 : c \in CallsOf(t) => t = TaskOf(c)
  BY BatchAssumption DEF TaskOf

LEMMA MixedKept ==
  ASSUME UNCHANGED plan, NEW c \in FileCalls
  PROVE  Mixed(TaskOf(c))' = Mixed(TaskOf(c))
  <1>1. ASSUME NEW t PROVE Mixed(t)' = Mixed(t)
    BY DEF Mixed, RequiresUserDecision, CallsOf
  <1> QED
    BY <1>1 DEF TaskOf, CallsOf

-----------------------------------------------------------------------------
(* The invariant is kept.                                                   *)

(* A mixed batch is refused before any of its calls has begun.              *)
LEMMA RejectMixedFits ==
  ASSUME FileInv, NEW t \in Tasks2, RejectMixed(t)
  PROVE  FileInv'
  <1>1. FileTypeOK'
    BY DEF FileInv, FileTypeOK, RejectMixed, Reports
  <1>2. UNCHANGED <<plan, changed, process>>
    BY DEF RejectMixed
  <1>3. ASSUME NEW c \in FileCalls
        PROVE  CallFits(c)' /\ ToldTrue(c)' /\ WaitsIfMixed(c)'
    <2>1. CallFits(c) /\ ToldTrue(c) /\ WaitsIfMixed(c)
      BY DEF FileInv
    <2>2. Targets(c)' = Targets(c) /\ Mixed(TaskOf(c))' = Mixed(TaskOf(c))
      BY <1>2, TargetsKept, MixedKept
    <2>3. CASE c \in CallsOf(t)
      <3>1. Mixed(TaskOf(c)) /\ at'[c] = "done" /\ report'[c] = "denied"
        BY <2>3, TaskOfACall DEF RejectMixed
      <3> QED
        BY <1>2, <2>1, <2>2, <3>1 DEF CallFits, ToldTrue, WaitsIfMixed
    <2>4. CASE c \notin CallsOf(t)
      <3>1. at'[c] = at[c] /\ report'[c] = report[c]
        BY <2>4 DEF RejectMixed
      <3> QED
        BY <1>2, <2>1, <2>2, <3>1 DEF CallFits, ToldTrue, WaitsIfMixed
    <2> QED
      BY <2>3, <2>4
  <1> QED
    BY <1>1, <1>3 DEF FileInv

LEMMA CallStepKeeps ==
  ASSUME FileInv, NEW c \in FileCalls,
         Gate(c) \/ InThread(c) \/ InProcess(c) \/ ProcessWorks(c) \/ ProcessExits(c)
  PROVE  FileInv' /\ StepFits(c)
  <1>1. StepFits(c)
    BY CallStepFits DEF FileInv
  <1>2. ASSUME NEW d \in FileCalls
        PROVE  CallFits(d)' /\ ToldTrue(d)' /\ WaitsIfMixed(d)'
    <2>1. UNCHANGED plan
      BY <1>1 DEF StepFits, OthersKept
    <2>2. Targets(d)' = Targets(d) /\ Mixed(TaskOf(d))' = Mixed(TaskOf(d))
      BY <2>1, TargetsKept, MixedKept
    <2>3. CallFits(d) /\ ToldTrue(d) /\ WaitsIfMixed(d)
      BY DEF FileInv
    <2>4. CASE d # c
      BY <1>1, <2>1, <2>2, <2>3, <2>4 DEF StepFits, OthersKept, CallFits, ToldTrue, WaitsIfMixed
    <2>5. CASE d = c
      <3>1. WaitsIfMixed(c)'
        <4>1. CASE Gate(c)
          <5>1. ~Mixed(TaskOf(c))
            BY <4>1 DEF Gate
          <5> QED
            BY <2>2, <2>5, <5>1 DEF WaitsIfMixed
        <4>2. CASE ~Gate(c)
          <5>1. at[c] # "new"
            BY <2>3, <2>5, <4>2
               DEF InThread, InProcess, Runs, Validates, LooksOnly, WritesFile, Replaces, Deletes, Patches, Moves,
                   Spawns, Interrupts, Kills, Tells, MayTell, ProcessWorks, ProcessExits, CallFits
          <5>2. at[c] # "done"
            BY <2>3, <2>5, <4>2
               DEF InThread, InProcess, Runs, Validates, LooksOnly, WritesFile, Replaces, Deletes, Patches, Moves,
                   Spawns, Interrupts, Kills, Tells, MayTell, ProcessWorks, ProcessExits, CallFits
          <5> QED
            BY <2>2, <2>3, <2>5, <5>1, <5>2 DEF WaitsIfMixed
        <4> QED
          BY <4>1, <4>2
      <3> QED
        BY <1>1, <2>5, <3>1 DEF StepFits
    <2> QED
      BY <2>4, <2>5
  <1> QED
    BY <1>1, <1>2 DEF FileInv, StepFits

(* Signals and other programs change nothing that a call has done.          *)
LEMMA AroundKeeps ==
  ASSUME FileInv,
         \/ \E c \in FileCalls : StopCall(c)
         \/ \E t \in Tasks2 : StopTask(t) \/ Abandon(t)
         \/ OthersWrite
         \/ UNCHANGED fileVars
  PROVE  FileInv' /\ UNCHANGED <<plan, at, seen, process, changed, report>>
  <1>1. UNCHANGED <<plan, at, seen, process, changed, report>>
    BY DEF StopCall, StopTask, Abandon, OthersWrite, fileVars
  <1>2. file' \in [Files -> SUBSET Marks]
    BY DEF FileInv, FileTypeOK, StopCall, StopTask, Abandon, OthersWrite, fileVars, Marks, Absent
  <1>3. stops' \subseteq Tasks2 /\ halted' \subseteq FileCalls /\ abandoned' \subseteq Tasks2
    BY DEF FileInv, FileTypeOK, StopCall, StopTask, Abandon, OthersWrite, fileVars
  <1>4. foreign' \in 0..MaxForeign
    BY FileAssumption DEF FileInv, FileTypeOK, StopCall, StopTask, Abandon, OthersWrite, fileVars
  <1>5. FileTypeOK'
    BY <1>1, <1>2, <1>3, <1>4 DEF FileInv, FileTypeOK
  <1>6. ASSUME NEW d \in FileCalls
        PROVE  CallFits(d)' /\ ToldTrue(d)' /\ WaitsIfMixed(d)'
    <2>1. Targets(d)' = Targets(d) /\ Mixed(TaskOf(d))' = Mixed(TaskOf(d))
      BY <1>1, TargetsKept, MixedKept
    <2> QED
      BY <1>1, <2>1 DEF FileInv, CallFits, ToldTrue, WaitsIfMixed
  <1> QED
    BY <1>1, <1>5, <1>6 DEF FileInv

LEMMA FileInvInit ==
  ASSUME FileInit
  PROVE  FileInv
  BY FileAssumption
     DEF FileInit, FilesAt, FileInv, FileTypeOK, Files, Marks, Absent, Started, Reports, CallFits, ToldTrue,
         WaitsIfMixed

LEMMA FileInvNext ==
  ASSUME FileInv, [FileNext]_fileVars
  PROVE  FileInv'
  BY CallStepKeeps, RejectMixedFits, AroundKeeps DEF FileNext

(* What a tool tells the model of the files is true.                        *)
THEOREM ReportIsTrueAlways == FileSpec => []ReportIsTrue
  <1>1. FileInv => ReportIsTrue
    BY DEF FileInv, ToldTrue, ReportIsTrue
  <1> QED
    BY <1>1, FileInvInit, FileInvNext, PTL DEF FileSpec

-----------------------------------------------------------------------------
(* The edits of one Task.                                                   *)

InFlight(c) == at[c] \notin {"new", "done"}

(* The calls of a batch that may change files run one after the other.      *)
OneAtATime ==
  \A c, d \in FileCalls :
    c \in Before(d) /\ ~IsParallel(c) /\ ~IsParallel(d) /\ at[d] # "new" => at[c] = "done"

(* Between what an edit reads and what it writes, no edit of its own Task   *)
(* comes to the file.                                                       *)
HasSeen(c, d) ==
  /\ at[c] = "one" /\ plan[c] = "replace" /\ d \in file["a"] => d \in seen[c]["a"]
  /\ at[c] = "two" /\ d \in file[Next2(c)] => d \in seen[c][Next2(c)]

OwnEditsSeen ==
  \A c, d \in FileCalls : TaskOf(c) = TaskOf(d) /\ c # d /\ OthersPutNothingBack(c) => HasSeen(c, d)

EditInv == FileInv /\ OneAtATime /\ OwnEditsSeen

LEMMA OneOfTwoIsBefore ==
  ASSUME NEW c \in FileCalls, NEW d \in FileCalls, TaskOf(c) = TaskOf(d), c # d
  PROVE  c \in Before(d) \/ d \in Before(c)
  <1> DEFINE calls == Batch[TaskOf(c)]
  <1>1. calls \in Seq(FileCalls)
    BY TaskOfACall, FileAssumption
  <1>2. PICK i \in DOMAIN calls : calls[i] = c
    BY TaskOfACall DEF CallsOf
  <1>3. PICK j \in DOMAIN calls : calls[j] = d
    BY TaskOfACall DEF CallsOf
  <1>4. i \in Nat /\ j \in Nat /\ i # j
    BY <1>1, <1>2, <1>3
  <1>5. CASE i < j
    BY <1>2, <1>3, <1>5 DEF Before
  <1>6. CASE j < i
    BY <1>2, <1>3, <1>6 DEF Before
  <1> QED
    BY <1>4, <1>5, <1>6

LEMMA BeforeIsOwn ==
  ASSUME NEW d \in FileCalls, NEW c \in Before(d)
  PROVE  c \in CallsOf(TaskOf(d))
  BY DEF Before, CallsOf

LEMMA OnlyOneInFlight ==
  ASSUME OneAtATime, NEW c \in FileCalls, NEW d \in FileCalls, TaskOf(c) = TaskOf(d), c # d,
         ~IsParallel(c), ~IsParallel(d), InFlight(c)
  PROVE  ~InFlight(d)
  BY OneOfTwoIsBefore DEF OneAtATime, InFlight

(* What a call of a batch does to the files, and when.                      *)
LEMMA CallStepWrites ==
  ASSUME FileInv, NEW c \in FileCalls,
         Gate(c) \/ InThread(c) \/ InProcess(c) \/ ProcessWorks(c) \/ ProcessExits(c)
  PROVE  /\ at[c] # "done"
         /\ at[c] = "new" => Gate(c)
         /\ \/ UNCHANGED file
            \/ /\ InFlight(c) /\ ~IsParallel(c)
               /\ PutsBack(c) \/ \A f \in Files : file'[f] \subseteq file[f] \cup {c}
  <1>1. FileTypeOK /\ CallFits(c)
    BY DEF FileInv
  <1>2. CASE Gate(c)
    BY <1>2 DEF Gate
  <1>3. CASE Runs(c) \/ Validates(c) \/ LooksOnly(c) \/ InProcess(c)
    BY <1>3 DEF Runs, Validates, LooksOnly, InProcess, Spawns, Interrupts, Kills, Tells, MayTell
  <1>4. CASE Replaces(c) \/ Patches(c) \/ Moves(c)
    BY <1>4 DEF Replaces, Patches, Moves, PutsBack, InFlight, IsParallel
  <1>5. CASE WritesFile(c)
    BY <1>1, <1>5 DEF WritesFile, AtomicWrite, Unwritten, InFlight, IsParallel, FileTypeOK
  <1>6. CASE Deletes(c)
    BY <1>1, <1>6 DEF Deletes, AtomicWrite, Unwritten, Absent, InFlight, IsParallel, FileTypeOK
  <1>7. CASE ProcessWorks(c)
    BY <1>1, <1>7 DEF ProcessWorks, AtomicWrite, InFlight, IsParallel, FileTypeOK, CallFits
  <1>8. CASE ProcessExits(c)
    BY <1>1, <1>8 DEF ProcessExits, CallFits
  <1> QED
    BY <1>2, <1>3, <1>4, <1>5, <1>6, <1>7, <1>8 DEF InThread

LEMMA BeforeIsConstant ==
  ASSUME UNCHANGED plan, NEW c \in FileCalls
  PROVE  IsParallel(c)' = IsParallel(c) /\ OthersPutNothingBack(c)' = OthersPutNothingBack(c)
  BY DEF IsParallel, OthersPutNothingBack, PutsBack

LEMMA CallStepOneAtATime ==
  ASSUME FileInv, OneAtATime, NEW e \in FileCalls,
         Gate(e) \/ InThread(e) \/ InProcess(e) \/ ProcessWorks(e) \/ ProcessExits(e)
  PROVE  OneAtATime'
  <1>1. StepFits(e) /\ UNCHANGED plan
    BY CallStepKeeps DEF StepFits, OthersKept
  <1>2. at[e] # "done" /\ (at[e] = "new" => Gate(e))
    BY CallStepWrites
  <1> SUFFICES ASSUME NEW c \in FileCalls, NEW d \in FileCalls,
                      c \in Before(d), ~IsParallel(c), ~IsParallel(d), at'[d] # "new"
               PROVE  at'[c] = "done"
    BY <1>1, BeforeIsConstant DEF OneAtATime, Before, TaskOf, CallsOf
  <1>3. CASE at[d] # "new"
    <2>1. at[c] = "done"
      BY <1>3 DEF OneAtATime
    <2> QED
      BY <1>1, <1>2, <2>1 DEF StepFits, OthersKept
  <1>4. CASE at[d] = "new"
    <2>1. d = e /\ Turn(d)
      BY <1>1, <1>2, <1>4 DEF StepFits, OthersKept, Gate
    <2>2. at[c] = "done"
      BY <2>1 DEF Turn
    <2> QED
      BY <1>1, <1>2, <2>1, <2>2 DEF StepFits, OthersKept
  <1> QED
    BY <1>3, <1>4

LEMMA CallStepSeen ==
  ASSUME EditInv, NEW e \in FileCalls,
         Gate(e) \/ InThread(e) \/ InProcess(e) \/ ProcessWorks(e) \/ ProcessExits(e)
  PROVE  OwnEditsSeen'
  <1>1. StepFits(e) /\ UNCHANGED plan /\ FileInv /\ FileInv'
    BY CallStepKeeps DEF StepFits, OthersKept, EditInv
  <1>2. \/ UNCHANGED file
        \/ /\ InFlight(e) /\ ~IsParallel(e)
           /\ PutsBack(e) \/ \A f \in Files : file'[f] \subseteq file[f] \cup {e}
    BY <1>1, CallStepWrites
  <1> SUFFICES ASSUME NEW c \in FileCalls, NEW d \in FileCalls, TaskOf(c) = TaskOf(d), c # d,
                      OthersPutNothingBack(c)
               PROVE  HasSeen(c, d)'
    BY <1>1, BeforeIsConstant DEF OwnEditsSeen, TaskOf, CallsOf
  <1>3. HasSeen(c, d)
    BY DEF EditInv, OwnEditsSeen
  <1>4. CASE e = c
    <2>1. FileTypeOK /\ CallFits(c)
      BY DEF EditInv, FileInv
    <2>2. ASSUME at'[c] = "one", plan[c] = "replace"
          PROVE  file' = file /\ seen'[c]["a"] = file["a"]
      BY <1>1, <1>4, <2>1, <2>2
         DEF Gate, Admitted, Denied, InThread, InProcess, Runs, Validates, PathRefused, ReadsFile, LooksOnly,
             WritesFile, Replaces, Deletes, Patches, Moves, Spawns, Interrupts, Kills, Tells, MayTell,
             ProcessWorks, ProcessExits, Goes, Ends, FileTypeOK, CallFits, Files
    <2>3. ASSUME at'[c] = "two"
          PROVE  file' = file /\ changed' = changed /\ seen'[c][Next2(c)] = file[Next2(c)]
      BY <1>1, <1>4, <2>1, <2>3
         DEF Gate, Admitted, Denied, InThread, InProcess, Runs, Validates, PathRefused, ReadsFile, LooksOnly,
             WritesFile, Replaces, Deletes, Patches, PatchReads, PatchFails, Unwritten, Next2, Moves, Spawns,
             Interrupts, Kills, Tells, MayTell, ProcessWorks, ProcessExits, Goes, Ends, FileTypeOK, CallFits, Files
    <2> QED
      BY <1>1, <2>2, <2>3 DEF HasSeen, Next2
  <1>5. CASE e # c
    <2>1. at'[c] = at[c] /\ seen'[c] = seen[c] /\ changed'[c] = changed[c]
      BY <1>1, <1>5 DEF StepFits, OthersKept
    <2>2. Next2(c)' = Next2(c) /\ Next2(c) \in Files /\ "a" \in Files
      BY <2>1 DEF Next2, Files
    <2>3. ASSUME at[c] \in {"one", "two"}, plan[c] \in {"replace", "patch"}, NEW f \in Files, d \in file'[f]
          PROVE  d \in file[f]
      <3>1. InFlight(c) /\ ~IsParallel(c)
        BY <2>3 DEF InFlight, IsParallel
      <3>2. CASE TaskOf(e) = TaskOf(c)
        BY <1>2, <1>5, <2>3, <3>1, <3>2, OnlyOneInFlight DEF EditInv
      <3>3. CASE TaskOf(e) # TaskOf(c)
        BY <1>2, <2>3, <3>3 DEF OthersPutNothingBack
      <3> QED
        BY <3>2, <3>3
    <2>4. at[c] = "two" => plan[c] = "patch"
      BY <1>1 DEF FileInv, CallFits
    <2> QED
      BY <1>1, <1>3, <2>1, <2>2, <2>3, <2>4 DEF HasSeen
  <1> QED
    BY <1>4, <1>5

LEMMA EditInvInit ==
  ASSUME FileInit
  PROVE  EditInv
  BY FileInvInit DEF FileInit, FilesAt, EditInv, OneAtATime, OwnEditsSeen, HasSeen

LEMMA RejectMixedEdits ==
  ASSUME EditInv, NEW t \in Tasks2, RejectMixed(t)
  PROVE  EditInv'
  <1>1. FileInv' /\ UNCHANGED <<plan, file, seen, changed>>
    BY RejectMixedFits DEF EditInv, RejectMixed
  <1>2. \A c \in FileCalls : at'[c] = IF c \in CallsOf(t) THEN "done" ELSE at[c]
    BY DEF RejectMixed
  <1>3. OneAtATime'
    <2> SUFFICES ASSUME NEW c \in FileCalls, NEW d \in FileCalls,
                        c \in Before(d), ~IsParallel(c), ~IsParallel(d), at'[d] # "new"
                 PROVE  at'[c] = "done"
      BY <1>1, BeforeIsConstant DEF OneAtATime, Before, TaskOf, CallsOf
    <2>1. CASE d \in CallsOf(t)
      BY <1>2, <2>1, BeforeIsOwn, TaskOfACall
    <2>2. CASE d \notin CallsOf(t)
      BY <1>2, <2>2 DEF EditInv, OneAtATime
    <2> QED
      BY <2>1, <2>2
  <1>4. OwnEditsSeen'
    BY <1>1, <1>2, BeforeIsConstant DEF EditInv, OwnEditsSeen, HasSeen, Next2, TaskOf, CallsOf
  <1> QED
    BY <1>1, <1>3, <1>4 DEF EditInv

LEMMA AroundEdits ==
  ASSUME EditInv,
         \/ \E c \in FileCalls : StopCall(c)
         \/ \E t \in Tasks2 : StopTask(t) \/ Abandon(t)
         \/ OthersWrite
         \/ UNCHANGED fileVars
  PROVE  EditInv'
  <1>1. FileInv' /\ UNCHANGED <<plan, at, seen, process, changed, report>>
    BY AroundKeeps DEF EditInv
  <1>2. ASSUME NEW d \in FileCalls, NEW f \in Files, d \in file'[f]
        PROVE  d \in file[f]
    BY <1>2, FileAssumption
       DEF EditInv, FileInv, FileTypeOK, StopCall, StopTask, Abandon, OthersWrite, fileVars, Absent
  <1>3. OneAtATime'
    BY <1>1, BeforeIsConstant DEF EditInv, OneAtATime, Before, TaskOf, CallsOf
  <1>4. OwnEditsSeen'
    BY <1>1, <1>2, BeforeIsConstant DEF EditInv, OwnEditsSeen, HasSeen, Next2, Files, TaskOf, CallsOf
  <1> QED
    BY <1>1, <1>3, <1>4 DEF EditInv

LEMMA EditInvNext ==
  ASSUME EditInv, [FileNext]_fileVars
  PROVE  EditInv'
  BY CallStepKeeps, CallStepOneAtATime, CallStepSeen, RejectMixedEdits, AroundEdits DEF FileNext, EditInv

(* What a step of an edit that writes finds there, it puts back.            *)
LEMMA EditPutsBack ==
  ASSUME EditInv, [FileNext]_fileVars, NEW c \in FileCalls, NEW d \in FileCalls, TaskOf(c) = TaskOf(d), c # d,
         plan[c] \in {"replace", "patch"}, changed'[c] # changed[c], OthersPutNothingBack(c),
         NEW f \in changed'[c] \ changed[c], d \in file[f]
  PROVE  d \in file'[f]
  <1>1. FileTypeOK /\ CallFits(c) /\ HasSeen(c, d)
    BY DEF EditInv, FileInv, OwnEditsSeen
  <1>2. Replaces(c) \/ Patches(c)
    <2>1. PICK e \in FileCalls : Gate(e) \/ InThread(e) \/ InProcess(e) \/ ProcessWorks(e) \/ ProcessExits(e)
      BY AroundKeeps DEF FileNext, EditInv, RejectMixed
    <2>2. e = c
      BY <2>1, CallStepKeeps DEF EditInv, StepFits, OthersKept
    <2> QED
      BY <1>1, <2>1, <2>2
         DEF Gate, InThread, InProcess, Runs, Validates, LooksOnly, WritesFile, Deletes, Moves, Spawns,
             Interrupts, Kills, Tells, MayTell, ProcessWorks, ProcessExits, CallFits
  <1>3. CASE Replaces(c)
    <2>1. at[c] = "one" /\ plan[c] = "replace" /\ AtomicWrite(c, "a", seen[c]["a"] \cup {c})
      BY <1>3 DEF Replaces, Unwritten
    <2>2. f = "a" /\ file'["a"] = seen[c]["a"] \cup {c}
      BY <1>1, <2>1 DEF AtomicWrite, FileTypeOK, Files
    <2> QED
      BY <1>1, <2>1, <2>2 DEF HasSeen
  <1>4. CASE Patches(c)
    <2>1. at[c] = "two" /\ AtomicWrite(c, Next2(c), seen[c][Next2(c)] \cup {c})
      BY <1>4 DEF Patches, Unwritten
    <2>2. f = Next2(c) /\ file'[Next2(c)] = seen[c][Next2(c)] \cup {c}
      BY <1>1, <2>1 DEF AtomicWrite, FileTypeOK, Files, Next2
    <2> QED
      BY <1>1, <2>1, <2>2 DEF HasSeen
  <1> QED
    BY <1>2, <1>3, <1>4

(* An edit never takes back an edit of its own Task that it has not seen.   *)
THEOREM OwnEditsSurviveAlways == FileSpec => OwnEditsSurvive
  <1> DEFINE Survive ==
        \A c, d \in FileCalls :
          (/\ TaskOf(c) = TaskOf(d) /\ c # d /\ plan[c] \in {"replace", "patch"}
           /\ changed'[c] # changed[c] /\ OthersPutNothingBack(c)) =>
            \A f \in changed'[c] \ changed[c] : d \in file[f] => d \in file'[f]
  <1>1. EditInv /\ [FileNext]_fileVars => [Survive]_fileVars
    BY EditPutsBack
  <1>2. OwnEditsSurvive <=> [][Survive]_fileVars
    BY PTL DEF OwnEditsSurvive
  <1> HIDE DEF Survive
  <1> QED
    BY <1>1, <1>2, EditInvInit, EditInvNext, PTL DEF FileSpec

-----------------------------------------------------------------------------
(***************************************************************************)
(* The file browser, for any directories, entries and windows, any page    *)
(* size and any number of snapshots: what a window has read so far is the  *)
(* beginning of one scan, and the snapshot it goes on with, if there still *)
(* is one, is of that scan.                                                *)
(***************************************************************************)

(* Sorting: a finite set of numbers has its members in order, since the     *)
(* rank of a number is how many are not above it.                           *)
LEMMA ByMemberOrdered ==
  ASSUME NEW names \in SUBSET Names
  PROVE  /\ Cardinality(names) \in Nat
         /\ ByMember(names) \in [1..Cardinality(names) -> names]
         /\ ByMember(names) \in Seq(Names) /\ Len(ByMember(names)) = Cardinality(names)
  <1> DEFINE k == Cardinality(names)
             rank == [n \in names |-> Cardinality({m \in names : m <= n})]
  <1>1. IsFiniteSet(names) /\ k \in Nat /\ names \subseteq Nat
    BY WorkspaceFilesAssumption, FS_Subset, FS_CardinalityType
  <1>2. ASSUME NEW n \in names
        PROVE  rank[n] \in 1..k
    <2>1. n \in {m \in names : m <= n} /\ {m \in names : m <= n} \subseteq names
      BY <1>1
    <2>2. IsFiniteSet({m \in names : m <= n}) /\ Cardinality({m \in names : m <= n}) <= k
      BY <1>1, <2>1, FS_Subset
    <2>3. Cardinality({m \in names : m <= n}) \in Nat /\ Cardinality({m \in names : m <= n}) # 0
      BY <2>1, <2>2, FS_CardinalityType, FS_EmptySet
    <2> QED
      BY <1>1, <2>2, <2>3
  <1>3. ASSUME NEW n \in names, NEW m \in names, n < m
        PROVE  rank[n] < rank[m]
    <2> DEFINE A == {l \in names : l <= n}
               B == {l \in names : l <= m}
    <2>0. n \in Nat /\ m \in Nat /\ \A l \in names : l \in Nat
      BY <1>1
    <2>a. \A l \in names : l <= n => l <= m
      BY <1>3, <2>0
    <2>b. m \in B /\ m \notin A
      BY <1>3, <2>0
    <2>1. A \subseteq B /\ m \in B /\ m \notin A /\ B \subseteq names
      BY <2>a, <2>b
    <2>2. IsFiniteSet(B) /\ IsFiniteSet(A)
      BY <1>1, <2>1, FS_Subset
    <2>3. Cardinality(A) <= Cardinality(B) /\ Cardinality(A) # Cardinality(B)
      BY <2>1, <2>2, FS_Subset
    <2>4. Cardinality(A) \in Nat /\ Cardinality(B) \in Nat
      BY <2>2, FS_CardinalityType
    <2> QED
      BY <2>3, <2>4
  <1>4. rank \in [names -> 1..k] /\ \A n, m \in names : n < m <=> rank[n] < rank[m]
    <2> HIDE DEF rank, k
    <2>1. \A n \in names : rank[n] \in 1..k /\ n \in Nat
      BY <1>1, <1>2
    <2>2. rank \in [names -> 1..k]
      BY <2>1 DEF rank
    <2> QED
      BY <1>1, <1>3, <2>1, <2>2
  <1>5. rank \in Injection(names, 1..k)
    <2> HIDE DEF rank, k
    <2>1. \A n, m \in names : rank[n] \in Nat /\ n \in Nat /\ m \in Nat
      BY <1>1, <1>4
    <2>2. \A n, m \in names : rank[n] = rank[m] => n = m
      BY <1>4, <2>1
    <2> QED
      BY <1>4, <2>2 DEF Injection, IsInjective
  <1>6. rank \in Surjection(names, 1..k)
    <2>1. IsFiniteSet(1..k) /\ Cardinality(1..k) = k
      BY <1>1, FS_Interval
    <2> HIDE DEF rank
    <2> QED
      BY <1>5, <2>1, FS_Injection
  <1> DEFINE s == [i \in 1..k |-> CHOOSE n \in names : rank[n] = i]
  <1>7. s \in [1..k -> names] /\ \A i, j \in DOMAIN s : i < j => s[i] < s[j]
    <2> HIDE DEF rank, k
    <2>1. \A i \in 1..k : s[i] \in names /\ rank[s[i]] = i
      BY <1>6 DEF Surjection
    <2>2. s \in [1..k -> names]
      BY <2>1
    <2> HIDE DEF s
    <2> QED
      BY <1>4, <2>1, <2>2
  <1> HIDE DEF s, rank
  <1>8. ByMember(names) \in [1..k -> names]
    BY <1>7 DEF ByMember
  <1> HIDE DEF k
  <1>9. ASSUME NEW q \in [1..k -> names]
        PROVE  q \in Seq(Names) /\ Len(q) = k
    <2>1. q = [i \in 1..k |-> q[i]] /\ \A i \in 1..k : q[i] \in Names
      OBVIOUS
    <2>2. [i \in 1..k |-> q[i]] \in Seq(Names)
      BY <1>1, <2>1
    <2> QED
      BY <1>1, <2>1, <2>2
  <1> QED
    BY <1>1, <1>8, <1>9 DEF k

(* Pages that are cut one behind the other.                                 *)
LEMMA Joins ==
  ASSUME NEW T, NEW q \in Seq(T), NEW k \in 0..Len(q), NEW m \in k..Len(q)
  PROVE  /\ SubSeq(q, 1, 0) = <<>> /\ SubSeq(q, 1, Len(q)) = q
         /\ SubSeq(q, 1, k) \o SubSeq(q, k + 1, m) = SubSeq(q, 1, m)
  <1>1. Len(q) \in Nat /\ k \in Nat /\ m \in Nat /\ k <= m /\ m <= Len(q)
    OBVIOUS
  <1>2. SubSeq(q, 1, 0) = <<>> /\ SubSeq(q, 1, Len(q)) = q
    OBVIOUS
  <1>3. SubSeq(q, 1, k) \o SubSeq(q, k + 1, m) = SubSeq(q, 1, m)
    BY <1>1
  <1> QED
    BY <1>2, <1>3

-----------------------------------------------------------------------------
(* The inductive invariant.                                                 *)
Phases == {"closed", "idle", "scanning", "scanned", "paging", "more", "whole"}
Views == [at : Phases, dir : Dirs, version : Nat, rules : Rules, found : SUBSET Names, token : Nat,
          offset : Nat, shown : Seq(Names)]
Kept == [token : Nat, dir : Dirs, version : Nat, rules : Rules, entries : Seq(Names), old : BOOLEAN]

OneScan(d, version, rules) == ByMember(Visible(d, past[d][version], rules))

FilesTypes ==
  /\ past \in [Dirs -> Seq(SUBSET Names)] /\ \A d \in Dirs : Latest(d) \in Nat \ {0}
  /\ hidden \in Rules /\ made \in Nat
  /\ snaps \subseteq Kept /\ browser \in [Windows -> Views]

(* A snapshot holds one scan, of a version the directory has had.           *)
SnapshotFits(s) ==
  /\ s.token \in 1..made /\ s.version \in 1..Latest(s.dir)
  /\ s.entries = OneScan(s.dir, s.version, s.rules)
SnapsFit ==
  /\ \A s \in snaps : SnapshotFits(s)
  /\ \A s, t \in snaps : s.token = t.token => s = t

(* What a window has read so far is the beginning of one scan: before the   *)
(* version is looked at again its first half is what the disk held, if the  *)
(* version is still the same; afterwards the snapshot it goes on with, when *)
(* there still is one, is of the scan it began with.                        *)
ViewFits(b) ==
  /\ b.at \in {"idle", "scanning", "scanned"} => b.offset = 0 /\ b.shown = <<>>
  /\ b.at \in {"scanning", "scanned"} => b.version \in 1..Latest(b.dir)
  /\ b.at = "scanned" /\ b.version = Latest(b.dir) =>
       b.found = Visible(b.dir, OnDisk(b.dir) \cap LowNames, b.rules)
  /\ b.at \in {"paging", "more"} =>
       /\ b.version \in 1..Latest(b.dir) /\ b.token \in 1..made
       /\ \A s \in snaps : s.token = b.token => s.dir = b.dir /\ s.version = b.version /\ s.rules = b.rules
       /\ b.offset \in 0..Len(OneScan(b.dir, b.version, b.rules))
       /\ b.shown = SubSeq(OneScan(b.dir, b.version, b.rules), 1, b.offset)
  /\ b.at = "whole" => b.version \in 1..Latest(b.dir) /\ b.shown = OneScan(b.dir, b.version, b.rules)

FilesInv == FilesTypes /\ SnapsFit /\ \A w \in Windows : ViewFits(browser[w])

LEMMA ScanFacts ==
  ASSUME FilesTypes, NEW d \in Dirs, NEW version \in 1..Latest(d), NEW rules
  PROVE  /\ past[d][version] \in SUBSET Names /\ Visible(d, past[d][version], rules) \in SUBSET Names
         /\ OneScan(d, version, rules) \in Seq(Names) /\ Len(OneScan(d, version, rules)) \in Nat
  <1>1. past[d][version] \in SUBSET Names
    BY DEF FilesTypes, Latest
  <1>2. Visible(d, past[d][version], rules) \in SUBSET Names
    BY <1>1 DEF Visible
  <1> QED
    BY <1>1, <1>2, ByMemberOrdered DEF OneScan

(* The contents a directory has had stay what they were, and no snapshot    *)
(* becomes that of another scan.                                            *)
ScansStay ==
  /\ made' \in Nat /\ made <= made'
  /\ \A d \in Dirs : /\ Latest(d)' \in Nat /\ Latest(d) <= Latest(d)'
                     /\ \A version \in 1..Latest(d) : past'[d][version] = past[d][version]
  /\ \A s \in snaps' : \/ s.token > made
                       \/ \E t \in snaps : /\ t.token = s.token /\ t.dir = s.dir /\ t.version = s.version
                                           /\ t.rules = s.rules /\ t.entries = s.entries

LEMMA ViewStays ==
  ASSUME FilesTypes, ScansStay, NEW b \in Views, ViewFits(b)
  PROVE  ViewFits(b)'
  <1>1. /\ Latest(b.dir) \in Nat /\ Latest(b.dir)' \in Nat /\ Latest(b.dir) <= Latest(b.dir)' /\ b.dir \in Dirs
        /\ b.version \in Nat /\ b.token \in Nat /\ made \in Nat /\ made' \in Nat /\ made <= made'
    BY DEF FilesTypes, ScansStay, Views
  <1>2. b.version \in 1..Latest(b.dir) =>
          /\ b.version \in 1..Latest(b.dir)'
          /\ OneScan(b.dir, b.version, b.rules)' = OneScan(b.dir, b.version, b.rules)
    BY <1>1 DEF ScansStay, OneScan
  <1>3. b.version \in 1..Latest(b.dir) /\ b.version = Latest(b.dir)' =>
          b.version = Latest(b.dir) /\ OnDisk(b.dir)' = OnDisk(b.dir)
    BY <1>1 DEF ScansStay, OnDisk
  <1>4. b.token \in 1..made =>
          /\ b.token \in 1..made'
          /\ \A s \in snaps' : s.token = b.token =>
               \E t \in snaps : t.token = b.token /\ t.dir = s.dir /\ t.version = s.version /\ t.rules = s.rules
    BY <1>1 DEF ScansStay
  <1> QED
    BY <1>2, <1>3, <1>4 DEF ViewFits

(* A step of one window, and of none.                                       *)
LEMMA WindowSteps ==
  ASSUME FilesInv, NEW w \in Windows, UNCHANGED <<past, hidden, snaps, made>>,
         NEW b \in Views, browser' = [browser EXCEPT ![w] = b], ViewFits(b)
  PROVE  FilesInv'
  <1>1. FilesTypes'
    BY DEF FilesInv, FilesTypes, Latest
  <1>2. SnapsFit'
    BY DEF FilesInv, SnapsFit, SnapshotFits, Latest, OneScan
  <1>3. ScansStay
    BY DEF ScansStay, FilesInv, FilesTypes, Latest
  <1>4. ASSUME NEW x \in Windows
        PROVE  ViewFits(browser[x])'
    <2>1. browser'[x] = b \/ browser'[x] = browser[x]
      BY DEF FilesInv, FilesTypes
    <2>2. browser[x] \in Views /\ ViewFits(browser[x]) /\ FilesTypes
      BY DEF FilesInv, FilesTypes
    <2>3. PICK c \in Views : c = browser'[x] /\ ViewFits(c)
      BY <2>1, <2>2
    <2>4. ViewFits(c)'
      BY <1>3, <2>2, <2>3, ViewStays
    <2> QED
      BY <2>3, <2>4 DEF ViewFits
  <1> QED
    BY <1>1, <1>2, <1>4 DEF FilesInv

(* The steps that concern no window's reading.                              *)
LEMMA OtherSteps ==
  ASSUME FilesInv, ScansStay, FilesTypes', SnapsFit', browser' = browser
  PROVE  FilesInv'
  <1>1. ASSUME NEW x \in Windows
        PROVE  ViewFits(browser[x])'
    <2>1. browser[x] \in Views /\ ViewFits(browser[x]) /\ FilesTypes
      BY DEF FilesInv, FilesTypes
    <2>2. PICK c \in Views : c = browser[x] /\ ViewFits(c)
      BY <2>1
    <2>3. ViewFits(c)'
      BY <2>1, <2>2, ViewStays
    <2> QED
      BY <2>2, <2>3 DEF ViewFits
  <1> QED
    BY <1>1 DEF FilesInv

(* A window starts again, whatever it had.                                  *)
LEMMA Restarts ==
  ASSUME FilesInv, NEW w \in Windows, UNCHANGED <<past, hidden, snaps, made>>, browser' = Restarted(w)
  PROVE  FilesInv'
  <1> DEFINE b == [BlankView(browser[w].dir) EXCEPT !.at = "idle"]
  <1>1. browser[w].dir \in Dirs
    BY DEF FilesInv, FilesTypes, Views
  <1>2. b \in Views /\ b.at = "idle" /\ b.offset = 0 /\ b.shown = <<>>
    <2>1. {} \in Rules /\ <<>> \in Seq(Names) /\ {} \in SUBSET Names /\ 0 \in Nat
      BY DEF Rules
    <2>2. PICK blank \in Views : blank = BlankView(browser[w].dir) /\ blank.offset = 0 /\ blank.shown = <<>>
      <3> DEFINE blank == [at |-> "closed", dir |-> browser[w].dir, version |-> 0, rules |-> {}, found |-> {},
                           token |-> 0, offset |-> 0, shown |-> <<>>]
      <3>1. BlankView(browser[w].dir) = blank
        BY DEF BlankView
      <3>2. "closed" \in Phases
        BY DEF Phases
      <3>3. blank \in Views /\ blank.offset = 0 /\ blank.shown = <<>>
        BY <1>1, <2>1, <3>2 DEF Views
      <3> HIDE DEF blank
      <3> QED
        BY <3>1, <3>3
    <2>3. "idle" \in Phases
      BY DEF Phases
    <2>4. b = [blank EXCEPT !.at = "idle"]
      BY <2>2
    <2> HIDE DEF b
    <2> QED
      BY <2>2, <2>3, <2>4 DEF Views
  <1>3. browser' = [browser EXCEPT ![w] = b]
    BY DEF Restarted
  <1>4. ViewFits(b)
    BY <1>2 DEF ViewFits
  <1> HIDE DEF b
  <1> QED
    BY <1>2, <1>3, <1>4, WindowSteps

LEMMA ReadSteps ==
  ASSUME FilesInv, NEW w \in Windows, BeginRead(w) \/ ScanFirst(w) \/ CancelRead(w) \/ Follow(w) \/ OpenDirectory(w)
                                      \/ Refresh(w)
  PROVE  FilesInv'
  <1>0. /\ browser \in [Windows -> Views] /\ browser[w] \in Views /\ ViewFits(browser[w]) /\ browser[w].dir \in Dirs
        /\ FilesTypes /\ Latest(browser[w].dir) \in Nat \ {0}
    BY DEF FilesInv, FilesTypes, Views
  <1>1. CASE browser' = Restarted(w) /\ UNCHANGED <<past, hidden, snaps, made>>
    BY <1>1, Restarts
  <1>2. CASE BeginRead(w)
    <2> DEFINE b == [browser[w] EXCEPT !.at = "scanning", !.version = Latest(browser[w].dir), !.rules = hidden]
    <2>1. browser' = [browser EXCEPT ![w] = b] /\ UNCHANGED <<past, hidden, snaps, made>>
      BY <1>0, <1>2 DEF BeginRead
    <2>2. b \in Views
      BY <1>0, <2>1 DEF Views, Phases, FilesTypes
    <2>3. /\ b.at = "scanning" /\ b.version = Latest(b.dir) /\ b.dir = browser[w].dir /\ b.offset = 0 /\ b.shown = <<>>
      BY <1>0, <1>2 DEF BeginRead, Views, ViewFits
    <2> HIDE DEF b
    <2>4. ViewFits(b)
      BY <1>0, <2>3 DEF ViewFits
    <2> QED
      BY <2>1, <2>2, <2>4, WindowSteps
  <1>3. CASE ScanFirst(w)
    <2> DEFINE halfSeen == Visible(browser[w].dir, OnDisk(browser[w].dir) \cap LowNames, browser[w].rules)
               b == [browser[w] EXCEPT !.at = "scanned", !.found = halfSeen]
    <2>1. browser' = [browser EXCEPT ![w] = b] /\ UNCHANGED <<past, hidden, snaps, made>> /\ browser[w].at = "scanning"
      BY <1>0, <1>3 DEF ScanFirst
    <2>2. halfSeen \in SUBSET Names
      BY <1>0 DEF Visible, LowNames
    <2> HIDE DEF halfSeen
    <2>3. b \in Views /\ b.at = "scanned" /\ b.found = halfSeen
          /\ b.dir = browser[w].dir /\ b.version = browser[w].version /\ b.rules = browser[w].rules
          /\ b.offset = browser[w].offset /\ b.shown = browser[w].shown
      BY <1>0, <2>2 DEF Views, Phases
    <2> HIDE DEF b
    <2>4. ViewFits(b)
      BY <1>0, <2>1, <2>3 DEF ViewFits, halfSeen
    <2> QED
      BY <2>1, <2>3, <2>4, WindowSteps
  <1>4. CASE browser[w].at = "more" /\ browser' = [browser EXCEPT ![w].at = "paging"]
             /\ UNCHANGED <<past, hidden, snaps, made>>
    <2> DEFINE b == [browser[w] EXCEPT !.at = "paging"]
    <2>1. browser' = [browser EXCEPT ![w] = b]
      BY <1>0, <1>4
    <2>3. b \in Views /\ b.at = "paging" /\ b.token = browser[w].token
          /\ b.dir = browser[w].dir /\ b.version = browser[w].version /\ b.rules = browser[w].rules
          /\ b.offset = browser[w].offset /\ b.shown = browser[w].shown
      BY <1>0 DEF Views, Phases
    <2> HIDE DEF b
    <2>4. ViewFits(b)
      BY <1>0, <1>4, <2>3 DEF ViewFits
    <2> QED
      BY <1>4, <2>1, <2>3, <2>4, WindowSteps
  <1> QED
    BY <1>1, <1>2, <1>3, <1>4 DEF CancelRead, Again, Follow, OpenDirectory, Refresh

-----------------------------------------------------------------------------
(* A scan that no change of the directory came between is kept.             *)
LEMMA NewSnapshot ==
  ASSUME FilesInv, NEW w \in Windows, NEW d \in Dirs, NEW v \in 1..Latest(d), NEW rules \in Rules,
         NEW s \in Kept, s.token = made + 1, s.dir = d, s.version = v, s.rules = rules, s.entries = OneScan(d, v, rules),
         NEW b \in Views, b.at = "paging", b.token = made + 1, b.dir = d, b.version = v, b.rules = rules,
         b.offset = 0, b.shown = <<>>,
         UNCHANGED <<past, hidden>>, made' = made + 1, snaps' \subseteq snaps \cup {s},
         browser' = [browser EXCEPT ![w] = b]
  PROVE  FilesInv'
  <1>0. /\ browser \in [Windows -> Views] /\ FilesTypes /\ SnapsFit /\ made \in Nat /\ made' \in Nat /\ snaps \subseteq Kept
        /\ \A x \in Kept : x.token \in Nat /\ x.dir \in Dirs /\ x.version \in Nat
        /\ \A x \in Dirs : Latest(x) \in Nat \ {0}
    BY DEF FilesInv, FilesTypes, Kept
  <1>1. /\ \A x \in Dirs : Latest(x)' = Latest(x)
        /\ \A x, y, z : OneScan(x, y, z)' = OneScan(x, y, z)
    BY DEF Latest, OneScan
  <1>2. FilesTypes'
    <2>1. past' \in [Dirs -> Seq(SUBSET Names)] /\ hidden' \in Rules
      BY <1>0 DEF FilesTypes
    <2>2. snaps' \subseteq Kept /\ browser' \in [Windows -> Views]
      BY <1>0
    <2> QED
      BY <1>0, <1>1, <2>1, <2>2 DEF FilesTypes
  <1>3. SnapsFit'
    <2>1. ASSUME NEW x \in snaps
          PROVE  SnapshotFits(x)' /\ x.token # made + 1
      <3>1. SnapshotFits(x) /\ x \in Kept
        BY <1>0 DEF SnapsFit
      <3>2. x.token \in 1..made /\ x.version \in 1..Latest(x.dir) /\ x.entries = OneScan(x.dir, x.version, x.rules)
        BY <3>1 DEF SnapshotFits
      <3>3. x.token \in 1..made' /\ x.version \in 1..Latest(x.dir)' /\ x.token # made + 1
            /\ x.entries = OneScan(x.dir, x.version, x.rules)'
        BY <1>0, <1>1, <3>1, <3>2
      <3> QED
        BY <3>3 DEF SnapshotFits
    <2>2. SnapshotFits(s)'
      <3>1. s.token \in 1..made' /\ s.version \in 1..Latest(s.dir)' /\ s.entries = OneScan(s.dir, s.version, s.rules)'
        BY <1>0, <1>1
      <3> QED
        BY <3>1 DEF SnapshotFits
    <2> QED
      BY <1>0, <2>1, <2>2 DEF SnapsFit
  <1>4. ScansStay
    <2>1. \A x \in snaps' : x.token > made \/ x \in snaps
      BY <1>0
    <2> QED
      BY <1>0, <1>1, <2>1 DEF ScansStay
  <1>5. ViewFits(b)'
    <2>1. OneScan(d, v, rules) \in Seq(Names) /\ Len(OneScan(d, v, rules)) \in Nat
      BY <1>0, ScanFacts
    <2>2. SubSeq(OneScan(d, v, rules), 1, 0) = <<>>
      BY <2>1, Joins
    <2>3. \A x \in snaps' : x.token = b.token => x = s
      BY <1>0 DEF SnapsFit, SnapshotFits
    <2>4. /\ b.version \in 1..Latest(b.dir)' /\ b.token \in 1..made'
          /\ \A x \in snaps' : x.token = b.token => x.dir = b.dir /\ x.version = b.version /\ x.rules = b.rules
      BY <1>0, <1>1, <2>3
    <2>5. /\ b.offset \in 0..Len(OneScan(b.dir, b.version, b.rules)')
          /\ b.shown = SubSeq(OneScan(b.dir, b.version, b.rules)', 1, b.offset)
      BY <1>1, <2>1, <2>2
    <2> QED
      BY <2>4, <2>5 DEF ViewFits
  <1>6. ASSUME NEW x \in Windows
        PROVE  ViewFits(browser[x])'
    <2>1. CASE x = w
      <3>1. browser'[x] = b
        BY <1>0, <2>1
      <3> QED
        BY <1>5, <3>1 DEF ViewFits
    <2>2. CASE x # w
      <3>1. browser'[x] = browser[x] /\ browser[x] \in Views /\ ViewFits(browser[x])
        BY <1>0, <2>2 DEF FilesInv
      <3>2. PICK c \in Views : c = browser[x] /\ ViewFits(c)
        BY <3>1
      <3>3. ViewFits(c)'
        BY <1>0, <1>4, <3>2, ViewStays
      <3> QED
        BY <3>1, <3>2, <3>3 DEF ViewFits
    <2> QED
      BY <2>1, <2>2
  <1> QED
    BY <1>2, <1>3, <1>6 DEF FilesInv

LEMMA StoreSteps ==
  ASSUME FilesInv, NEW w \in Windows, Store(w)
  PROVE  FilesInv'
  <1>0. /\ browser \in [Windows -> Views] /\ browser[w] \in Views /\ ViewFits(browser[w]) /\ browser[w].dir \in Dirs
        /\ FilesTypes /\ Latest(browser[w].dir) \in Nat \ {0} /\ browser[w].at = "scanned" /\ made \in Nat
        /\ browser[w].version \in 1..Latest(browser[w].dir) /\ browser[w].rules \in Rules
    BY DEF FilesInv, FilesTypes, Views, Store, ViewFits
  <1>1. PICK d \in Dirs, v \in Nat, rules \in Rules :
          d = browser[w].dir /\ v = browser[w].version /\ rules = browser[w].rules /\ v \in 1..Latest(d)
    BY <1>0
  <1> DEFINE found == browser[w].found \cup Visible(d, OnDisk(d) \ LowNames, rules)
             s == [token |-> made + 1, dir |-> d, version |-> v, rules |-> rules, entries |-> ByMember(found),
                   old |-> FALSE]
             b == [browser[w] EXCEPT !.at = "paging", !.found = {}, !.token = made + 1]
  <1>2. CASE Again(w) /\ UNCHANGED <<past, hidden, snaps, made>>
    BY <1>2, Restarts DEF Again
  <1>3. CASE /\ Latest(d) = v /\ made' = made + 1 /\ snaps' = Trimmed(snaps \cup {s})
             /\ browser' = [browser EXCEPT ![w].at = "paging", ![w].found = {}, ![w].token = made + 1]
             /\ UNCHANGED <<past, hidden>>
    <2>1. browser' = [browser EXCEPT ![w] = b]
      BY <1>0, <1>3
    <2>2. found = Visible(d, past[d][v], rules)
      <3>1. browser[w].found = Visible(d, OnDisk(d) \cap LowNames, rules) /\ OnDisk(d) = past[d][v]
        BY <1>0, <1>1, <1>3 DEF ViewFits, OnDisk
      <3> QED
        BY <3>1 DEF Visible
    <2>3. ByMember(found) = OneScan(d, v, rules) /\ ByMember(found) \in Seq(Names)
      <3> HIDE DEF found
      <3>1. ByMember(found) = OneScan(d, v, rules)
        BY <2>2 DEF OneScan
      <3> QED
        BY <1>0, <1>1, <3>1, ScanFacts
    <2>4. s \in Kept /\ s.token = made + 1 /\ s.dir = d /\ s.version = v /\ s.rules = rules
          /\ s.entries = OneScan(d, v, rules)
      <3>1. FALSE \in BOOLEAN /\ made + 1 \in Nat /\ v \in Nat
        BY <1>0
      <3> HIDE DEF found
      <3> QED
        BY <1>0, <2>3, <3>1 DEF Kept
    <2>5. b \in Views /\ b.at = "paging" /\ b.token = made + 1 /\ b.dir = d /\ b.version = v /\ b.rules = rules
          /\ b.offset = 0 /\ b.shown = <<>>
      <3>1. "paging" \in Phases /\ {} \in SUBSET Names /\ made + 1 \in Nat
        BY <1>0 DEF Phases
      <3>2. browser[w].offset = 0 /\ browser[w].shown = <<>>
        BY <1>0 DEF ViewFits
      <3> QED
        BY <1>0, <1>1, <3>1, <3>2 DEF Views
    <2> HIDE DEF s, b, found
    <2>6. snaps' \subseteq snaps \cup {s}
      BY <1>3 DEF Trimmed
    <2>7. PICK s0 \in Kept, b0 \in Views : s0 = s /\ b0 = b
      BY <2>4, <2>5
    <2>8. /\ s0.token = made + 1 /\ s0.dir = d /\ s0.version = v /\ s0.rules = rules /\ s0.entries = OneScan(d, v, rules)
          /\ b0.at = "paging" /\ b0.token = made + 1 /\ b0.dir = d /\ b0.version = v /\ b0.rules = rules
          /\ b0.offset = 0 /\ b0.shown = <<>>
          /\ snaps' \subseteq snaps \cup {s0} /\ browser' = [browser EXCEPT ![w] = b0]
          /\ UNCHANGED <<past, hidden>> /\ made' = made + 1 /\ v \in 1..Latest(d)
      BY <1>1, <1>3, <2>1, <2>4, <2>5, <2>6, <2>7
    <2> QED
      BY <2>8, NewSnapshot
  <1> QED
    BY <1>1, <1>2, <1>3 DEF Store, IsUnchanged
(* A page is cut from the scan the first one was cut from, where that ended. *)
LEMMA PageSteps ==
  ASSUME FilesInv, NEW w \in Windows, Page(w)
  PROVE  FilesInv'
  <1>0. /\ browser \in [Windows -> Views] /\ browser[w] \in Views /\ ViewFits(browser[w]) /\ browser[w].dir \in Dirs
        /\ FilesTypes /\ SnapsFit /\ snaps \subseteq Kept /\ browser[w].at = "paging"
        /\ browser[w].offset \in Nat /\ PageSize \in Nat \ {0}
    BY WorkspaceFilesAssumption DEF FilesInv, FilesTypes, Views, Page
  <1>1. CASE Again(w) /\ UNCHANGED <<past, hidden, snaps, made>>
    BY <1>1, Restarts DEF Again
  <1>2. CASE IsHeld(browser[w].token)
    <2> DEFINE d == browser[w].dir
               v == browser[w].version
               rules == browser[w].rules
               token == browser[w].token
               offset == browser[w].offset
               end == offset + PageSize
               all == OneScan(d, v, rules)
               last == IF end < Len(all) THEN end ELSE Len(all)
               b == [browser[w] EXCEPT !.shown = SubSeq(all, 1, last), !.offset = IF end < Len(all) THEN end ELSE 0,
                                       !.token = IF end < Len(all) THEN token ELSE 0,
                                       !.at = IF end < Len(all) THEN "more" ELSE "whole"]
    <2>1. PICK s \in snaps : s.token = token
      BY <1>2 DEF IsHeld, Snapshots
    <2>2. Snapshots(token) = {s}
      BY <1>0, <2>1 DEF SnapsFit, Snapshots
    <2>3. (CHOOSE t \in Snapshots(token) : TRUE) = s
      BY <2>2
    <2>4. s.dir = d /\ s.version = v /\ s.rules = rules
      BY <1>0, <2>1 DEF ViewFits
    <2>5. s.entries = all
      BY <1>0, <2>1, <2>4 DEF SnapsFit, SnapshotFits
    <2>6. /\ v \in 1..Latest(d) /\ token \in 1..made /\ offset \in 0..Len(all)
          /\ browser[w].shown = SubSeq(all, 1, offset)
      BY <1>0 DEF ViewFits
    <2>7. all \in Seq(Names) /\ Len(all) \in Nat
      BY <1>0, <2>6, ScanFacts
    <2> HIDE DEF all, d, v, rules, token
    <2>8. Total(token) = Len(all) /\ Cut(token, offset) = SubSeq(all, offset + 1, last)
      BY <2>2, <2>3, <2>5 DEF Total, Cut
    <2>9. last \in offset..Len(all) /\ last \in Nat /\ end \in Nat
      BY <1>0, <2>6, <2>7
    <2>10. browser[w].shown \o Cut(token, offset) = SubSeq(all, 1, last) /\ SubSeq(all, 1, last) \in Seq(Names)
           /\ SubSeq(all, 1, Len(all)) = all
      <3>1. offset \in 0..Len(all) /\ last \in offset..Len(all)
        BY <2>6, <2>9
      <3> HIDE DEF offset, last
      <3>2. SubSeq(all, 1, offset) \o SubSeq(all, offset + 1, last) = SubSeq(all, 1, last)
            /\ SubSeq(all, 1, Len(all)) = all
        BY <2>7, <3>1, Joins
      <3>3. \A i \in 1..last : all[i] \in Names
        BY <2>7, <2>9
      <3>4. SubSeq(all, 1, last) \in Seq(Names)
        BY <2>7, <2>9, <3>3
      <3> QED
        BY <2>6, <2>8, <3>2, <3>4
    <2> HIDE DEF last
    <2>11. browser' = [browser EXCEPT ![w] = b] /\ UNCHANGED <<past, hidden, snaps, made>>
      <3> DEFINE c == [browser[w] EXCEPT !.shown = browser[w].shown \o Cut(token, offset),
                                         !.offset = IF end < Total(token) THEN end ELSE 0,
                                         !.token = IF end < Total(token) THEN token ELSE 0,
                                         !.at = IF end < Total(token) THEN "more" ELSE "whole"]
      <3>1. browser' = [browser EXCEPT ![w] = c]
        BY <1>0, <1>2 DEF Page, token
      <3>2. c = b
        BY <2>8, <2>10
      <3>3. UNCHANGED <<past, hidden, snaps, made>>
        BY DEF Page
      <3> HIDE DEF b, c
      <3> QED
        BY <3>1, <3>2, <3>3
    <2>12. /\ b \in Views /\ b.dir = d /\ b.version = v /\ b.rules = rules
           /\ b.shown = SubSeq(all, 1, last)
           /\ b.at = IF end < Len(all) THEN "more" ELSE "whole"
           /\ b.offset = IF end < Len(all) THEN end ELSE 0
           /\ b.token = IF end < Len(all) THEN token ELSE 0
      <3>1. {"more", "whole"} \subseteq Phases /\ SubSeq(all, 1, last) \in Seq(Names) /\ end \in Nat /\ 0 \in Nat
        BY <2>9, <2>10 DEF Phases
      <3>2. token \in Nat
        BY <1>0 DEF token, Views
      <3> HIDE DEF end, offset
      <3>3. (IF end < Len(all) THEN end ELSE 0) \in Nat /\ (IF end < Len(all) THEN token ELSE 0) \in Nat
            /\ (IF end < Len(all) THEN "more" ELSE "whole") \in Phases
        BY <3>1, <3>2
      <3> QED
        BY <1>0, <3>1, <3>3 DEF Views, d, v, rules
    <2> HIDE DEF b
    <2>13. ViewFits(b)
      <3>1. \A t \in snaps : t.token = token => t.dir = d /\ t.version = v /\ t.rules = rules
        BY <1>0 DEF ViewFits, d, v, rules, token
      <3>2. CASE end < Len(all)
        <4>1. b.at = "more" /\ b.token = token /\ b.offset = end /\ last = end /\ end \in 0..Len(all)
          BY <2>7, <2>9, <2>12, <3>2 DEF last
        <4> HIDE DEF end
        <4> QED
          BY <2>6, <2>12, <3>1, <4>1 DEF ViewFits, all
      <3>3. CASE ~(end < Len(all))
        <4>1. b.at = "whole" /\ last = Len(all)
          BY <2>12, <3>3 DEF last
        <4> QED
          BY <2>6, <2>10, <2>12, <4>1 DEF ViewFits, all
      <3> QED
        BY <3>2, <3>3
    <2> QED
      BY <2>11, <2>12, <2>13, WindowSteps
  <1> QED
    BY <1>1, <1>2 DEF Page

-----------------------------------------------------------------------------
(* The steps that concern no window's reading.                              *)
LEMMA DiskSteps ==
  ASSUME FilesInv, NEW d \in Dirs, NEW n \in Names, NEW lost \in BOOLEAN, Touch(d, n, lost)
  PROVE  FilesInv'
  <1>1. /\ past \in [Dirs -> Seq(SUBSET Names)] /\ \A x \in Dirs : Latest(x) \in Nat \ {0}
        /\ FilesTypes /\ SnapsFit /\ made \in Nat /\ snaps \subseteq Kept
    BY DEF FilesInv, FilesTypes
  <1> DEFINE new == IF n \in OnDisk(d) THEN OnDisk(d) \ {n} ELSE OnDisk(d) \cup {n}
  <1>2. OnDisk(d) \in SUBSET Names
    BY <1>1 DEF OnDisk, Latest
  <1>3. new \in SUBSET Names
    BY <1>2
  <1>4. past' = [past EXCEPT ![d] = Append(past[d], new)] /\ UNCHANGED <<hidden, snaps, made, browser>>
    BY DEF Touch
  <1> HIDE DEF new
  <1>5. ASSUME NEW x \in Dirs
        PROVE  /\ past'[x] \in Seq(SUBSET Names) /\ Latest(x)' \in Nat \ {0} /\ Latest(x) <= Latest(x)'
               /\ \A version \in 1..Latest(x) : past'[x][version] = past[x][version]
    <2>1. past[x] \in Seq(SUBSET Names) /\ Latest(x) \in Nat \ {0}
      BY <1>1
    <2>2. CASE x = d
      BY <1>1, <1>3, <1>4, <2>1, <2>2 DEF Latest
    <2>3. CASE x # d
      BY <1>1, <1>4, <2>1, <2>3 DEF Latest
    <2> QED
      BY <2>2, <2>3
  <1>6. ScansStay
    <2>1. made' \in Nat /\ made <= made'
      BY <1>1, <1>4
    <2>2. ASSUME NEW x \in Dirs
          PROVE  /\ Latest(x)' \in Nat /\ Latest(x) <= Latest(x)'
                 /\ \A version \in 1..Latest(x) : past'[x][version] = past[x][version]
      BY <1>5
    <2>3. \A s \in snaps' : s \in snaps
      BY <1>4
    <2> QED
      BY <2>1, <2>2, <2>3 DEF ScansStay
  <1>7. FilesTypes'
    BY <1>1, <1>4, <1>5 DEF FilesTypes
  <1>8. SnapsFit'
    <2>1. ASSUME NEW s \in snaps
          PROVE  SnapshotFits(s)'
      <3>1. s.dir \in Dirs /\ s.token \in 1..made /\ s.version \in 1..Latest(s.dir)
            /\ s.entries = OneScan(s.dir, s.version, s.rules)
        BY <1>1 DEF SnapsFit, SnapshotFits, Kept
      <3>2. s.version \in 1..Latest(s.dir)' /\ s.entries = OneScan(s.dir, s.version, s.rules)'
        BY <1>1, <1>5, <3>1 DEF OneScan
      <3> QED
        BY <1>4, <3>1, <3>2 DEF SnapshotFits
    <2> QED
      BY <1>1, <1>4, <2>1 DEF SnapsFit
  <1> QED
    BY <1>4, <1>6, <1>7, <1>8, OtherSteps

LEMMA SnapshotSteps ==
  ASSUME FilesInv, UNCHANGED <<past, made, browser>>, hidden' \in Rules,
         \/ snaps' \subseteq snaps
         \/ snaps' = {[s EXCEPT !.old = TRUE] : s \in snaps}
  PROVE  FilesInv'
  <1>1. FilesTypes /\ SnapsFit /\ made \in Nat /\ snaps \subseteq Kept /\ (\A x \in Dirs : Latest(x) \in Nat \ {0})
    BY DEF FilesInv, FilesTypes
  <1>2. ASSUME NEW s \in snaps'
        PROVE  s \in Kept /\ \E t \in snaps : /\ t.token = s.token /\ t.dir = s.dir /\ t.version = s.version
                                              /\ t.rules = s.rules /\ t.entries = s.entries
    <2>1. CASE s \in snaps
      BY <1>1, <2>1
    <2>2. CASE \E t \in snaps : s = [t EXCEPT !.old = TRUE]
      <3>1. PICK t \in snaps : s = [t EXCEPT !.old = TRUE]
        BY <2>2
      <3>2. t \in Kept
        BY <1>1
      <3> QED
        BY <3>1, <3>2 DEF Kept
    <2> QED
      BY <2>1, <2>2
  <1>3. \A s, t \in snaps' : s.token = t.token => s = t
    <2>1. CASE snaps' \subseteq snaps
      BY <1>1, <2>1 DEF SnapsFit
    <2>2. CASE snaps' = {[s EXCEPT !.old = TRUE] : s \in snaps}
      <3>1. ASSUME NEW s \in snaps', NEW t \in snaps', s.token = t.token
            PROVE  s = t
        <4>1. PICK p \in snaps, q \in snaps : s = [p EXCEPT !.old = TRUE] /\ t = [q EXCEPT !.old = TRUE]
          BY <2>2
        <4>2. p \in Kept /\ q \in Kept
          BY <1>1
        <4>3. s.token = p.token /\ t.token = q.token
          BY <4>1, <4>2 DEF Kept
        <4> QED
          BY <1>1, <3>1, <4>1, <4>3 DEF SnapsFit
      <3> QED
        BY <3>1
    <2> QED
      BY <2>1, <2>2
  <1>4. (\A x \in Dirs : Latest(x)' = Latest(x)) /\ \A x, y, z : OneScan(x, y, z)' = OneScan(x, y, z)
    BY DEF Latest, OneScan
  <1>5. FilesTypes'
    BY <1>1, <1>2, <1>4 DEF FilesTypes
  <1>6. SnapsFit'
    <2>1. ASSUME NEW s \in snaps'
          PROVE  SnapshotFits(s)'
      <3>1. PICK t \in snaps : /\ t.token = s.token /\ t.dir = s.dir /\ t.version = s.version
                               /\ t.rules = s.rules /\ t.entries = s.entries
        BY <1>2
      <3>2. SnapshotFits(t) /\ t.dir \in Dirs
        BY <1>1 DEF SnapsFit, Kept
      <3> QED
        BY <1>4, <3>1, <3>2 DEF SnapshotFits
    <2> QED
      BY <1>3, <2>1 DEF SnapsFit
  <1>7. ScansStay
    BY <1>1, <1>2, <1>4 DEF ScansStay
  <1> QED
    BY <1>5, <1>6, <1>7, OtherSteps
-----------------------------------------------------------------------------
(* Every step keeps the invariant.                                          *)
LEMMA FilesStart ==
  ASSUME FilesInit
  PROVE  FilesInv
  <1>1. \A d \in Dirs : past[d] \in {<<{}>>, <<Names>>} /\ past[d] \in Seq(SUBSET Names) /\ Len(past[d]) = 1
    <2>1. ASSUME NEW d \in Dirs
          PROVE  past[d] \in {<<{}>>, <<Names>>} /\ past[d] \in Seq(SUBSET Names) /\ Len(past[d]) = 1
      <3>1. past[d] \in {<<{}>>, <<Names>>}
        BY DEF FilesInit
      <3>2. ASSUME NEW T, NEW x \in T
            PROVE  <<x>> \in Seq(T) /\ Len(<<x>>) = 1
        OBVIOUS
      <3>3. {} \in SUBSET Names /\ Names \in SUBSET Names
        OBVIOUS
      <3>4. CASE past[d] = <<{}>>
        BY <3>2, <3>3, <3>4
      <3>5. CASE past[d] = <<Names>>
        BY <3>2, <3>3, <3>5
      <3> QED
        BY <3>1, <3>4, <3>5
    <2> QED
      BY <2>1
  <1>2. PICK where \in [Windows -> Dirs] : browser = [w \in Windows |-> BlankView(where[w])]
    BY DEF FilesInit
  <1>3. ASSUME NEW d \in Dirs
        PROVE  BlankView(d) \in Views /\ BlankView(d).at = "closed"
    <2>1. {} \in Rules /\ <<>> \in Seq(Names) /\ {} \in SUBSET Names /\ 0 \in Nat /\ "closed" \in Phases
      BY DEF Rules, Phases
    <2> QED
      BY <2>1 DEF BlankView, Views
  <1>4. \A w \in Windows : browser[w] \in Views /\ browser[w].at = "closed"
    <2>1. \A w \in Windows : where[w] \in Dirs /\ browser[w] = BlankView(where[w])
      BY <1>2
    <2> QED
      BY <1>3, <2>1
  <1>5. FilesTypes
    <2>1. browser \in [Windows -> Views]
      BY <1>2, <1>4
    <2>2. {} \in Rules
      BY DEF Rules
    <2>3. past \in [Dirs -> Seq(SUBSET Names)]
      BY <1>1 DEF FilesInit
    <2>4. \A d \in Dirs : Latest(d) \in Nat \ {0}
      BY <1>1 DEF Latest
    <2>5. hidden = {} /\ made = 0 /\ snaps = {}
      BY DEF FilesInit
    <2> QED
      BY <2>1, <2>2, <2>3, <2>4, <2>5 DEF FilesTypes
  <1>6. SnapsFit
    BY DEF FilesInit, SnapsFit
  <1>7. \A w \in Windows : ViewFits(browser[w])
    BY <1>4 DEF ViewFits
  <1> QED
    BY <1>5, <1>6, <1>7 DEF FilesInv

LEMMA FilesStep ==
  ASSUME FilesInv, [FilesNext]_filesVars
  PROVE  FilesInv'
  <1>0. hidden \in Rules
    BY DEF FilesInv, FilesTypes
  <1>1. CASE UNCHANGED filesVars
    BY <1>0, <1>1, SnapshotSteps DEF filesVars
  <1>2. ASSUME NEW w \in Windows, BeginRead(w) \/ ScanFirst(w) \/ CancelRead(w) \/ Follow(w) \/ OpenDirectory(w)
                                  \/ Refresh(w)
        PROVE  FilesInv'
    BY <1>2, ReadSteps
  <1>3. ASSUME NEW w \in Windows, Store(w)
        PROVE  FilesInv'
    BY <1>3, StoreSteps
  <1>4. ASSUME NEW w \in Windows, Page(w)
        PROVE  FilesInv'
    BY <1>4, PageSteps
  <1>5. ASSUME NEW w \in Windows, TellsChange(w) \/ Ticks(w)
        PROVE  FilesInv'
    <2>1. UNCHANGED <<past, made, browser, hidden, snaps>>
      BY <1>5 DEF TellsChange, Ticks
    <2> QED
      BY <1>0, <2>1, SnapshotSteps
  <1>6. ASSUME NEW d \in Dirs, NEW n \in Names, NEW lost \in BOOLEAN, Touch(d, n, lost)
        PROVE  FilesInv'
    BY <1>6, DiskSteps
  <1>7. ASSUME NEW paths \in {{<<d, n>>} : d \in Dirs, n \in Names \cup {0}}, NEW ignored \in BOOLEAN,
               ChangeRules(paths, ignored)
        PROVE  FilesInv'
    <2>1. paths \subseteq Dirs \X (Names \cup {0})
      OBVIOUS
    <2>2. UNCHANGED <<past, made, browser, snaps>> /\ hidden' \in Rules
      BY <1>0, <1>7, <2>1 DEF ChangeRules, Rules
    <2> QED
      BY <2>2, SnapshotSteps
  <1>8. CASE Invalidate \/ Age \/ Crowd
    <2>1. UNCHANGED <<past, made, browser, hidden>>
      BY <1>8 DEF Invalidate, Age, Crowd
    <2>2. snaps' \subseteq snaps \/ snaps' = {[s EXCEPT !.old = TRUE] : s \in snaps}
      BY <1>8 DEF Invalidate, Age, Crowd
    <2> QED
      BY <1>0, <2>1, <2>2, SnapshotSteps
  <1> QED
    BY <1>1, <1>2, <1>3, <1>4, <1>5, <1>6, <1>7, <1>8 DEF FilesNext

(* A window that followed the cursors to the end shows one scan of the      *)
(* directory, whole and in order, whatever was evicted, invalidated or      *)
(* changed between two of its requests (service/workspace_files): for any   *)
(* number of windows, directories, entries and snapshots and any page size. *)
THEOREM PagesAreOneScanAlways == FilesSpec => []PagesAreOneScan
  <1>1. FilesInv => PagesAreOneScan
    BY DEF FilesInv, ViewFits, PagesAreOneScan, OneScan
  <1> QED
    BY <1>1, FilesStart, FilesStep, PTL DEF FilesSpec

-----------------------------------------------------------------------------
(***************************************************************************)
(* The configuration of Agents and Teams, for any number of versions. Two  *)
(* histories say what has happened, and exclude nothing of it. strayed: a  *)
(* workspace was dropped while a configuration of it was edited, a scope   *)
(* was read while a Team of it was edited, a directory could not be read,  *)
(* or a deletion failed after the file was gone. missed: an Agent changed  *)
(* while the Task had a stored prompt and nothing ran on it.               *)
(***************************************************************************)
VARIABLES strayed, missed

BeginsOn(kind, s) == edit.at = "over" /\ edit'.at # "over" /\ edit'.kind = kind /\ edit'.of = s

Strays ==
  \/ DropsScope /\ \E kind \in DocKinds : Editing(kind, "workspace")
  \/ \E s \in Scopes : Reads("team", s) /\ Editing("team", s)
  \/ \E s \in Scopes : BeginsOn("team", s) /\ loading["team"].of = s
  \/ \E kind \in DocKinds : \E s \in Scopes : Reads(kind, s) /\ loading'[kind].found # files[kind][s]
  \/ FileDeleted /\ edit' = NoEdit

Misses == ~manager /\ prompt # NoPrompt /\ \E s \in Scopes : BeginsOn("agent", s)

CatalogNotes == strayed' = (strayed \/ Strays) /\ missed' = (missed \/ Misses)
notedVars == <<catalogVars, strayed, missed>>
CatalogWatch == (strayed = FALSE /\ missed = FALSE) /\ [][CatalogNotes]_notedVars

Types ==
  /\ {files, index} \subseteq [DocKinds -> [Scopes -> Nat]]
  /\ loaded \in [DocKinds -> SUBSET Scopes]
  /\ loading \in [DocKinds -> [of : Scopes \cup {"none"}, found : Nat]]
  /\ edit \in [kind : DocKinds, of : Scopes, new : Nat,
               at : {"over", "create", "replace", "delete", "register", "swap", "unregister"}]
  /\ versions \in Nat /\ versions # 0 /\ drops \in Nat
  /\ manager \in BOOLEAN /\ prompt \in [Scopes -> Int] /\ told \in BOOLEAN

(* What is being read is not loaded, not edited, and was read as it is.     *)
LoadFits(kind) ==
  \/ loading[kind] = Unread
  \/ \E s \in Scopes :
       /\ loading[kind] = [of |-> s, found |-> files[kind][s]]
       /\ s \notin loaded[kind] /\ ~Editing(kind, s)
       /\ kind = "agent" /\ s = "workspace" => "system" \in loaded["agent"]

(* The index and the files of a scope that is not edited.                   *)
AgentsAgree(s) ==
  IF s \in loaded["agent"]
  THEN index["agent"][s] = files["agent"][s] \/ (s = "workspace" /\ index["agent"][s] = Nowhere)
  ELSE index["agent"][s] = Nowhere

TeamsAgree(s) ==
  index["team"][s] = files["team"][s] \/ (s \notin loaded["team"] /\ index["team"][s] = Nowhere)

EditFits(s) ==
  /\ edit.at \in {"create", "replace", "register", "swap"} => edit.new # Nowhere
  /\ Editing("agent", s) =>
       /\ {s, "system"} \subseteq loaded["agent"]
       /\ edit.at = "create" => index["agent"][s] = edit.new /\ files["agent"][s] = Nowhere
       /\ edit.at = "swap" => index["agent"][s] = edit.new /\ files["agent"][s] = edit.new
       /\ edit.at \in {"replace", "delete"} =>
            index["agent"][s] # Nowhere /\ index["agent"][s] = files["agent"][s]
       /\ edit.at = "register" => index["agent"][s] # Nowhere /\ files["agent"][s] = edit.new
       /\ edit.at = "unregister" => index["agent"][s] # Nowhere /\ files["agent"][s] = Nowhere
  /\ Editing("team", s) =>
       /\ edit.at # "swap"
       /\ edit.at \in {"create", "replace", "delete"} => TeamsAgree(s)
       /\ edit.at \in {"delete", "unregister"} => s \in loaded["team"]
       /\ edit.at = "register" => files["team"][s] = edit.new
       /\ edit.at = "unregister" => files["team"][s] = Nowhere

ScopeFits(s) ==
  /\ EditFits(s)
  /\ ~Editing("agent", s) => AgentsAgree(s)
  /\ ~Editing("team", s) => TeamsAgree(s)

PromptIsIndex ==
  /\ edit.at # "over" /\ edit.kind = "agent" => manager \/ prompt = NoPrompt
  /\ prompt # NoPrompt => \A s \in Scopes :
       prompt[s] = IF Editing("agent", s) /\ edit.at \in {"create", "swap"} THEN Nowhere ELSE index["agent"][s]

PromptFits ==
  /\ manager => prompt # NoPrompt
  /\ prompt # NoPrompt => loaded["agent"] = Scopes
  /\ missed \/ PromptIsIndex

CatalogInv ==
  /\ Types
  /\ \A kind \in DocKinds : LoadFits(kind)
  /\ "workspace" \in loaded["agent"] => "system" \in loaded["agent"]
  /\ \A s \in Scopes : ScopeFits(s)
  /\ PromptFits

-----------------------------------------------------------------------------
LEMMA PutEffect ==
  ASSUME NEW f \in [DocKinds -> [Scopes -> Nat]], NEW k \in DocKinds, NEW s \in Scopes, NEW v \in Nat
  PROVE  /\ [f EXCEPT ![k][s] = v] \in [DocKinds -> [Scopes -> Nat]]
         /\ \A j \in DocKinds : \A t \in Scopes :
              [f EXCEPT ![k][s] = v][j][t] = IF j = k /\ t = s THEN v ELSE f[j][t]
  OBVIOUS

(* Nothing but what is read changes.                                        *)
LEMMA ReadsKeeps ==
  ASSUME CatalogInv, missed => missed', ~Strays, NEW kind \in DocKinds, NEW s \in Scopes, Reads(kind, s), ~Editing(kind, s),
         kind = "agent" /\ s = "workspace" => "system" \in loaded["agent"]
  PROVE  CatalogInv'
  <1>1. files[kind][s] \in Nat /\ UNCHANGED <<files, index, loaded, edit, versions, drops, manager, prompt, told>>
    BY DEF CatalogInv, Types, Reads, taskVars
  <1>2. loading' = [loading EXCEPT ![kind] = [of |-> s, found |-> files[kind][s]]] /\ s \notin loaded[kind]
    <2>1. PICK found \in FoundIn(kind, s) : loading' = [loading EXCEPT ![kind] = [of |-> s, found |-> found]]
      BY DEF Reads
    <2>2. loading'[kind].found = found
      BY <2>1 DEF CatalogInv, Types
    <2>3. found = files[kind][s]
      BY <2>2 DEF Strays
    <2> QED
      BY <2>1, <2>3 DEF Reads
  <1>3. /\ loading' \in [DocKinds -> [of : Scopes \cup {"none"}, found : Nat]]
        /\ loading'[kind] = [of |-> s, found |-> files[kind][s]]
        /\ \A j \in DocKinds \ {kind} : loading'[j] = loading[j]
    BY <1>1, <1>2 DEF CatalogInv, Types
  <1>4. Types'
    BY <1>1, <1>3 DEF CatalogInv, Types
  <1>5. \A j \in DocKinds : LoadFits(j)'
    BY <1>1, <1>2, <1>3 DEF CatalogInv, LoadFits, Editing
  <1>6. (\A t \in Scopes : ScopeFits(t))' /\ PromptFits'
    BY <1>1 DEF CatalogInv, ScopeFits, EditFits, Editing, AgentsAgree, TeamsAgree, PromptFits, PromptIsIndex
  <1> QED
    BY <1>1, <1>4, <1>5, <1>6 DEF CatalogInv

(* What is being read is of a scope, and is what its file says.             *)
LEMMA WhatIsRead ==
  ASSUME CatalogInv, NEW kind \in DocKinds, loading[kind] # Unread
  PROVE  LET s == loading[kind].of
         IN /\ s \in Scopes /\ loading[kind].found = files[kind][s] /\ s \notin loaded[kind] /\ ~Editing(kind, s)
            /\ kind = "agent" /\ s = "workspace" => "system" \in loaded["agent"]
  <1> DEFINE s == loading[kind].of
  <1>1. PICK t \in Scopes :
          /\ loading[kind] = [of |-> t, found |-> files[kind][t]]
          /\ t \notin loaded[kind] /\ ~Editing(kind, t)
          /\ kind = "agent" /\ t = "workspace" => "system" \in loaded["agent"]
    BY DEF CatalogInv, LoadFits
  <1>2. s = t /\ loading[kind].found = files[kind][t]
    BY <1>1
  <1> QED
    BY <1>1, <1>2

(* The index of the scope that was read follows its files.                  *)
LEMMA MergesEffect ==
  ASSUME CatalogInv, NEW kind \in DocKinds, NEW merged \in Nat, loading[kind] # Unread, Merges(kind, merged)
  PROVE  LET s == loading[kind].of
         IN /\ s \in Scopes /\ loading[kind].found = files[kind][s] /\ s \notin loaded[kind] /\ ~Editing(kind, s)
            /\ kind = "agent" /\ s = "workspace" => "system" \in loaded["agent"]
            /\ Types'
            /\ \A j \in DocKinds : \A t \in Scopes :
                 index'[j][t] = IF j = kind /\ t = s THEN merged ELSE index[j][t]
            /\ \A j \in DocKinds : /\ loaded'[j] = IF j = kind THEN loaded[j] \cup {s} ELSE loaded[j]
                                   /\ loading'[j] = IF j = kind THEN Unread ELSE loading[j]
            /\ UNCHANGED <<files, edit, versions, drops, manager, prompt, told>>
  <1> DEFINE s == loading[kind].of
  <1>1. /\ s \in Scopes /\ loading[kind].found = files[kind][s] /\ s \notin loaded[kind] /\ ~Editing(kind, s)
        /\ kind = "agent" /\ s = "workspace" => "system" \in loaded["agent"]
    BY WhatIsRead
  <1>2. /\ index' = [index EXCEPT ![kind][s] = merged] /\ loaded' = [loaded EXCEPT ![kind] = @ \cup {s}]
        /\ loading' = [loading EXCEPT ![kind] = Unread]
        /\ UNCHANGED <<files, edit, versions, drops, manager, prompt, told>>
    BY DEF Merges, taskVars
  <1> HIDE DEF s
  <1>3. /\ index' \in [DocKinds -> [Scopes -> Nat]]
        /\ \A j \in DocKinds : \A t \in Scopes :
             index'[j][t] = IF j = kind /\ t = s THEN merged ELSE index[j][t]
    BY <1>1, <1>2, PutEffect DEF CatalogInv, Types
  <1>4. /\ loaded' \in [DocKinds -> SUBSET Scopes]
        /\ loading' \in [DocKinds -> [of : Scopes \cup {"none"}, found : Nat]]
        /\ \A j \in DocKinds : /\ loaded'[j] = IF j = kind THEN loaded[j] \cup {s} ELSE loaded[j]
                               /\ loading'[j] = IF j = kind THEN Unread ELSE loading[j]
    BY <1>1, <1>2 DEF CatalogInv, Types, Unread, Nowhere
  <1>5. Types'
    BY <1>2, <1>3, <1>4 DEF CatalogInv, Types
  <1> QED
    BY <1>1, <1>2, <1>3, <1>4, <1>5 DEF s

LEMMA MergesAgentsKeeps ==
  ASSUME CatalogInv, missed => missed', MergesAgents
  PROVE  CatalogInv'
  <1> DEFINE s == loading["agent"].of
             merged == MergedAgent(s, loading["agent"].found)
  <1>1. "agent" \in DocKinds /\ loading["agent"] # Unread /\ Merges("agent", merged)
    BY DEF MergesAgents, DocKinds
  <1>2. s \in Scopes /\ loading["agent"].found = files["agent"][s]
    BY <1>1, WhatIsRead
  <1>3. merged \in Nat /\ files["agent"][s] \in Nat /\ index["agent"][s] \in Nat
    BY <1>1, <1>2 DEF CatalogInv, Types, MergedAgent
  <1>4. /\ s \notin loaded["agent"] /\ ~Editing("agent", s) /\ (s = "workspace" => "system" \in loaded["agent"])
        /\ Types'
        /\ \A j \in DocKinds : \A t \in Scopes :
             index'[j][t] = IF j = "agent" /\ t = s THEN merged ELSE index[j][t]
        /\ \A j \in DocKinds : /\ loaded'[j] = IF j = "agent" THEN loaded[j] \cup {s} ELSE loaded[j]
                               /\ loading'[j] = IF j = "agent" THEN Unread ELSE loading[j]
        /\ UNCHANGED <<files, edit, versions, drops, manager, prompt, told>>
    BY <1>1, <1>3, MergesEffect
  <1>5. index["agent"][s] = Nowhere /\ AgentsAgree(s)
    BY <1>2, <1>4 DEF CatalogInv, ScopeFits, AgentsAgree
  <1>6. merged = files["agent"][s] \/ (s = "workspace" /\ merged = Nowhere)
    <2>1. CASE s = "workspace"
      BY <1>2, <1>5, <2>1 DEF MergedAgent
    <2>2. CASE s = "system"
      <3>1. "workspace" \notin loaded["agent"]
        BY <1>4, <2>2 DEF CatalogInv
      <3>2. ~Editing("agent", "workspace") /\ "workspace" \in Scopes
        BY <3>1 DEF CatalogInv, ScopeFits, EditFits, Scopes
      <3>3. index["agent"]["workspace"] = Nowhere
        BY <3>1, <3>2 DEF CatalogInv, ScopeFits, AgentsAgree
      <3> QED
        BY <1>2, <1>5, <2>2, <3>3 DEF MergedAgent, MayRegister, Scopes
    <2> QED
      BY <1>2, <2>1, <2>2 DEF Scopes
  <1> HIDE DEF s, merged
  <1>7. \A j \in DocKinds : LoadFits(j)'
    BY <1>4 DEF CatalogInv, LoadFits, Editing, DocKinds
  <1>8. \A t \in Scopes : ScopeFits(t)'
    BY <1>2, <1>4, <1>6, <1>1
       DEF CatalogInv, ScopeFits, EditFits, Editing, AgentsAgree, TeamsAgree, DocKinds
  <1>9. PromptFits'
    BY <1>2, <1>4, <1>1 DEF CatalogInv, PromptFits, PromptIsIndex
  <1> QED
    BY <1>1, <1>2, <1>4, <1>7, <1>8, <1>9 DEF CatalogInv, Scopes

LEMMA MergesTeamsKeeps ==
  ASSUME CatalogInv, missed => missed', MergesTeams
  PROVE  CatalogInv'
  <1> DEFINE s == loading["team"].of
             merged == MergedTeam(s, loading["team"].found)
  <1>1. "team" \in DocKinds /\ "agent" \in DocKinds /\ loading["team"] # Unread /\ Merges("team", merged)
    BY DEF MergesTeams, DocKinds
  <1>2. s \in Scopes /\ loading["team"].found = files["team"][s]
    BY <1>1, WhatIsRead
  <1>3. merged \in Nat /\ files["team"][s] \in Nat /\ index["team"][s] \in Nat
    BY <1>1, <1>2 DEF CatalogInv, Types, MergedTeam
  <1>4. /\ s \notin loaded["team"] /\ ~Editing("team", s)
        /\ Types'
        /\ \A j \in DocKinds : \A t \in Scopes :
             index'[j][t] = IF j = "team" /\ t = s THEN merged ELSE index[j][t]
        /\ \A j \in DocKinds : /\ loaded'[j] = IF j = "team" THEN loaded[j] \cup {s} ELSE loaded[j]
                               /\ loading'[j] = IF j = "team" THEN Unread ELSE loading[j]
        /\ UNCHANGED <<files, edit, versions, drops, manager, prompt, told>>
    BY <1>1, <1>2, <1>3, MergesEffect
  <1>5. merged = files["team"][s]
    BY <1>2, <1>4 DEF CatalogInv, ScopeFits, TeamsAgree, MergedTeam
  <1> HIDE DEF s, merged
  <1>6. index'["agent"] = index["agent"] /\ loaded'["agent"] = loaded["agent"]
    BY <1>1, <1>4 DEF CatalogInv, Types
  <1>7. \A j \in DocKinds : LoadFits(j)'
    BY <1>1, <1>4 DEF CatalogInv, LoadFits, Editing, DocKinds
  <1>8. \A t \in Scopes : ScopeFits(t)'
    BY <1>1, <1>2, <1>4, <1>5, <1>6
       DEF CatalogInv, ScopeFits, EditFits, Editing, AgentsAgree, TeamsAgree, DocKinds
  <1>9. PromptFits'
    BY <1>4, <1>6 DEF CatalogInv, PromptFits, PromptIsIndex, Editing
  <1> QED
    BY <1>1, <1>4, <1>6, <1>7, <1>8, <1>9 DEF CatalogInv

LEMMA DropsScopeKeeps ==
  ASSUME CatalogInv, missed => missed', ~Strays, DropsScope
  PROVE  CatalogInv'
  <1>0. {"agent", "team"} = DocKinds /\ {"system", "workspace"} = Scopes
    BY DEF DocKinds, Scopes
  <1>1. /\ \A kind \in DocKinds : loading[kind] = Unread /\ ~Editing(kind, "workspace")
        /\ manager' = FALSE /\ prompt' = NoPrompt /\ told' = FALSE /\ drops' = drops + 1
        /\ UNCHANGED <<files, loading, edit, versions>>
    BY DEF DropsScope, Strays
  <1>2. /\ index' \in [DocKinds -> [Scopes -> Nat]] /\ loaded' \in [DocKinds -> SUBSET Scopes]
        /\ \A kind \in DocKinds : \A s \in Scopes : index'[kind][s] = IF s = "workspace" THEN Nowhere ELSE index[kind][s]
        /\ \A kind \in DocKinds : loaded'[kind] = loaded[kind] \ {"workspace"}
    <2>1. /\ index' = [kind \in DocKinds |-> IF kind = "agent" THEN AgentsDropped ELSE TeamsDropped]
          /\ loaded' = [kind \in DocKinds |-> loaded[kind] \ {"workspace"}]
      BY DEF DropsScope
    <2>2. ASSUME NEW kind \in DocKinds
          PROVE  /\ index'[kind] \in [Scopes -> Nat] /\ loaded[kind] \in SUBSET Scopes
                 /\ \A s \in Scopes : index'[kind][s] = IF s = "workspace" THEN Nowhere ELSE index[kind][s]
      BY <1>0, <2>1 DEF CatalogInv, Types, AgentsDropped, TeamsDropped, Nowhere
    <2> QED
      BY <2>1, <2>2
  <1>3. Types'
    <2>1. prompt' \in [Scopes -> Int] /\ drops' \in Nat
      BY <1>1 DEF CatalogInv, Types, NoPrompt
    <2> QED
      BY <1>1, <1>2, <2>1 DEF CatalogInv, Types
  <1>4. \A kind \in DocKinds : LoadFits(kind)'
    BY <1>1 DEF LoadFits, Unread
  <1>5. \A s \in Scopes : ScopeFits(s)'
    BY <1>0, <1>1, <1>2 DEF CatalogInv, ScopeFits, EditFits, Editing, AgentsAgree, TeamsAgree
  <1>6. PromptFits'
    <2>1. edit.at # "over" /\ edit.kind = "agent" => manager' \/ prompt' = NoPrompt
      BY <1>1
    <2> QED
      BY <1>1, <2>1 DEF PromptFits, PromptIsIndex
  <1> QED
    BY <1>0, <1>2, <1>3, <1>4, <1>5, <1>6 DEF CatalogInv

-----------------------------------------------------------------------------
(* The requests.                                                            *)

EditType ==
  [kind : DocKinds, of : Scopes, new : Nat,
   at : {"over", "create", "replace", "delete", "register", "swap", "unregister"}]

LEMMA BeginsEffect ==
  ASSUME CatalogInv, missed => missed', ~Strays, Misses => missed', NEW kind \in DocKinds, NEW s \in Scopes,
         NEW step \in {"create", "replace", "delete"}, Begins(kind, s, step), WithNew \/ UNCHANGED versions
  PROVE  /\ edit.at = "over" /\ (\A k \in DocKinds : \A t \in Scopes : ~Editing(k, t))
         /\ versions' \in Nat \ {0}
         /\ edit' \in EditType /\ edit'.kind = kind /\ edit'.of = s /\ edit'.new = versions' /\ edit'.at = step
         /\ \A k \in DocKinds : \A t \in Scopes : Editing(k, t)' <=> k = kind /\ t = s
         /\ kind = "team" => loading["team"].of # s
         /\ kind = "agent" => missed' \/ manager \/ prompt = NoPrompt
  <1>1. versions' \in Nat \ {0}
    BY DEF CatalogInv, Types, WithNew
  <1>2. edit.at = "over" /\ edit' = [kind |-> kind, of |-> s, new |-> versions', at |-> step]
    BY DEF Begins
  <1>3. edit' \in EditType /\ edit'.kind = kind /\ edit'.of = s /\ edit'.new = versions' /\ edit'.at = step
    BY <1>1, <1>2 DEF EditType
  <1>4. BeginsOn(kind, s)
    BY <1>2, <1>3 DEF BeginsOn
  <1>5. kind = "team" => loading["team"].of # s
    BY <1>4 DEF Strays
  <1>6. kind = "agent" => missed' \/ manager \/ prompt = NoPrompt
    BY <1>4 DEF Misses
  <1> QED
    BY <1>1, <1>2, <1>3, <1>5, <1>6 DEF Editing

(* A request that begins on a loaded scope, or creates a Team.              *)
LEMMA LoadsGoOn ==
  ASSUME CatalogInv, UNCHANGED <<files, loaded, loading>>, NEW kind \in DocKinds, NEW s \in Scopes,
         kind = "agent" => s \in loaded["agent"], kind = "team" => loading["team"].of # s,
         \A k \in DocKinds : \A t \in Scopes : Editing(k, t)' => k = kind /\ t = s
  PROVE  \A j \in DocKinds : LoadFits(j)'
  <1> SUFFICES ASSUME NEW j \in DocKinds PROVE LoadFits(j)'
    OBVIOUS
  <1>1. CASE loading[j] = Unread
    BY <1>1 DEF LoadFits
  <1>2. CASE loading[j] # Unread
    <2>1. PICK t \in Scopes :
            /\ loading[j] = [of |-> t, found |-> files[j][t]]
            /\ t \notin loaded[j]
            /\ j = "agent" /\ t = "workspace" => "system" \in loaded["agent"]
      BY <1>2 DEF CatalogInv, LoadFits
    <2>2. loading[j].of = t
      BY <2>1
    <2>3. ~Editing(j, t)'
      BY <2>1, <2>2 DEF DocKinds
    <2> QED
      BY <2>1, <2>3 DEF LoadFits
  <1> QED
    BY <1>1, <1>2

(* A request that has begun, and changed nothing so far.                    *)
LEMMA QuietBeginKeeps ==
  ASSUME CatalogInv, missed => missed', ~Strays, Misses => missed', NEW kind \in DocKinds, NEW s \in Scopes,
         NEW step \in {"create", "replace", "delete"}, Begins(kind, s, step), WithNew \/ UNCHANGED versions,
         UNCHANGED <<files, index, loaded, loading, drops, taskVars>>,
         kind = "agent" => /\ step # "create" /\ AgentsLoaded(s)
                           /\ index["agent"][s] # Nowhere /\ index["agent"][s] = files["agent"][s],
         kind = "team" /\ step = "delete" => s \in loaded["team"]
  PROVE  CatalogInv'
  <1>1. /\ edit.at = "over" /\ (\A k \in DocKinds : \A t \in Scopes : ~Editing(k, t))
        /\ versions' \in Nat \ {0}
        /\ edit' \in EditType /\ edit'.kind = kind /\ edit'.of = s /\ edit'.new = versions' /\ edit'.at = step
        /\ \A k \in DocKinds : \A t \in Scopes : Editing(k, t)' <=> k = kind /\ t = s
        /\ kind = "team" => loading["team"].of # s
        /\ kind = "agent" => missed' \/ manager \/ prompt = NoPrompt
    BY BeginsEffect
  <1>2. Types'
    BY <1>1 DEF CatalogInv, Types, EditType, taskVars
  <1>3. \A j \in DocKinds : LoadFits(j)'
    BY <1>1, LoadsGoOn DEF AgentsLoaded
  <1>4. "agent" \in DocKinds /\ "team" \in DocKinds
    BY DEF DocKinds
  <1>5. ASSUME NEW t \in Scopes PROVE ScopeFits(t)'
    <2>1. AgentsAgree(t)' = AgentsAgree(t) /\ TeamsAgree(t)' = TeamsAgree(t) /\ AgentsAgree(t) /\ TeamsAgree(t)
      BY <1>1, <1>4 DEF AgentsAgree, TeamsAgree, CatalogInv, ScopeFits
    <2>2. EditFits(t)'
      BY <1>1, <1>4, <2>1 DEF EditFits, AgentsLoaded, Nowhere
    <2> QED
      BY <2>1, <2>2 DEF ScopeFits
  <1>6. PromptFits'
    BY <1>1, <1>4 DEF CatalogInv, PromptFits, PromptIsIndex, taskVars
  <1> QED
    BY <1>2, <1>3, <1>5, <1>6 DEF CatalogInv

LEMMA CreatesAgentKeeps ==
  ASSUME CatalogInv, missed => missed', ~Strays, Misses => missed', NEW s \in Scopes, CreatesAgent(s)
  PROVE  CatalogInv'
  <1>0. "agent" \in DocKinds /\ "team" \in DocKinds
    BY DEF DocKinds
  <1>1. /\ edit.at = "over" /\ (\A k \in DocKinds : \A t \in Scopes : ~Editing(k, t))
        /\ versions' \in Nat \ {0}
        /\ edit' \in EditType /\ edit'.kind = "agent" /\ edit'.of = s /\ edit'.new = versions' /\ edit'.at = "create"
        /\ \A k \in DocKinds : \A t \in Scopes : Editing(k, t)' <=> k = "agent" /\ t = s
        /\ missed' \/ manager \/ prompt = NoPrompt
    BY <1>0, BeginsEffect DEF CreatesAgent
  <1>2. /\ {s, "system"} \subseteq loaded["agent"] /\ files["agent"][s] = Nowhere /\ index["agent"][s] = Nowhere
        /\ index' = [index EXCEPT !["agent"][s] = versions']
        /\ UNCHANGED <<files, loaded, loading, drops, manager, prompt, told>>
    BY DEF CreatesAgent, AgentsLoaded, AgentRegistered, MayRegister, taskVars
  <1>3. /\ index' \in [DocKinds -> [Scopes -> Nat]]
        /\ \A j \in DocKinds : \A t \in Scopes :
             index'[j][t] = IF j = "agent" /\ t = s THEN versions' ELSE index[j][t]
    BY <1>0, <1>1, <1>2, PutEffect DEF CatalogInv, Types
  <1>4. Types'
    BY <1>1, <1>2, <1>3 DEF CatalogInv, Types, EditType
  <1>5. \A j \in DocKinds : LoadFits(j)'
    BY <1>0, <1>1, <1>2, LoadsGoOn
  <1>6. ASSUME NEW t \in Scopes PROVE ScopeFits(t)'
    <2>1. AgentsAgree(t) /\ TeamsAgree(t) /\ TeamsAgree(t)'
      BY <1>0, <1>1, <1>2, <1>3 DEF AgentsAgree, TeamsAgree, CatalogInv, ScopeFits
    <2>2. t # s => AgentsAgree(t)'
      BY <1>0, <1>1, <1>2, <1>3, <2>1 DEF AgentsAgree
    <2>3. EditFits(t)'
      BY <1>0, <1>1, <1>2, <1>3 DEF EditFits, Nowhere
    <2> QED
      BY <1>0, <1>1, <2>1, <2>2, <2>3 DEF ScopeFits
  <1>7. PromptFits'
    BY <1>0, <1>1, <1>2, <1>3 DEF CatalogInv, PromptFits, PromptIsIndex
  <1> QED
    BY <1>2, <1>4, <1>5, <1>6, <1>7 DEF CatalogInv

LEMMA RequestKeeps ==
  ASSUME CatalogInv, missed => missed', ~Strays, Misses => missed', AgentRequests \/ TeamRequests
  PROVE  CatalogInv'
  <1>0. "agent" \in DocKinds /\ "team" \in DocKinds /\ edit.at = "over"
    BY DEF DocKinds, AgentRequests, TeamRequests, CreatesAgent, UpdatesAgent, DeletesAgent, SavesTeam, UpdatesTeam,
           DeletesTeam, Begins
  <1>1. ASSUME NEW s \in Scopes, AgentsLoaded(s), HasAgent(s)
        PROVE  index["agent"][s] # Nowhere /\ index["agent"][s] = files["agent"][s]
    BY <1>0, <1>1 DEF CatalogInv, ScopeFits, Editing, AgentsAgree, AgentsLoaded, HasAgent
  <1>2. PICK s \in Scopes : \/ CreatesAgent(s) \/ UpdatesAgent(s) \/ DeletesAgent(s)
                            \/ SavesTeam(s) \/ UpdatesTeam(s) \/ DeletesTeam(s)
    BY DEF AgentRequests, TeamRequests
  <1>3. CASE CreatesAgent(s)
    BY <1>3, CreatesAgentKeeps
  <1>4. CASE UpdatesAgent(s)
    BY <1>0, <1>1, <1>4, QuietBeginKeeps DEF UpdatesAgent
  <1>5. CASE DeletesAgent(s)
    BY <1>0, <1>1, <1>5, QuietBeginKeeps DEF DeletesAgent
  <1>6. CASE SavesTeam(s)
    BY <1>0, <1>6, QuietBeginKeeps DEF SavesTeam
  <1>7. CASE UpdatesTeam(s)
    BY <1>0, <1>7, QuietBeginKeeps DEF UpdatesTeam
  <1>8. CASE DeletesTeam(s)
    BY <1>0, <1>8, QuietBeginKeeps DEF DeletesTeam, TeamIsListed
  <1> QED
    BY <1>2, <1>3, <1>4, <1>5, <1>6, <1>7, <1>8

-----------------------------------------------------------------------------
(* The steps of a request.                                                  *)

LEMMA EditFields ==
  ASSUME CatalogInv
  PROVE  /\ edit.kind \in DocKinds /\ edit.of \in Scopes /\ edit.new \in Nat /\ edit \in EditType
         /\ \A k \in DocKinds : \A t \in Scopes : Editing(k, t) <=> edit.at # "over" /\ k = edit.kind /\ t = edit.of
         /\ "agent" \in DocKinds /\ "team" \in DocKinds
  BY DEF CatalogInv, Types, EditType, Editing, DocKinds

(* What is being read is not what is edited.                                *)
LEMMA EditLeavesLoads ==
  ASSUME CatalogInv, edit.at # "over", UNCHANGED <<loaded, loading>>,
         \A k \in DocKinds : \A t \in Scopes : k # edit.kind \/ t # edit.of => files'[k][t] = files[k][t],
         \A k \in DocKinds : \A t \in Scopes : Editing(k, t)' => Editing(k, t)
  PROVE  \A j \in DocKinds : LoadFits(j)'
  <1> SUFFICES ASSUME NEW j \in DocKinds PROVE LoadFits(j)'
    OBVIOUS
  <1>1. CASE loading[j] = Unread
    BY <1>1 DEF LoadFits
  <1>2. CASE loading[j] # Unread
    <2>1. PICK t \in Scopes :
            /\ loading[j] = [of |-> t, found |-> files[j][t]]
            /\ t \notin loaded[j] /\ ~Editing(j, t)
            /\ j = "agent" /\ t = "workspace" => "system" \in loaded["agent"]
      BY <1>2 DEF CatalogInv, LoadFits
    <2>2. files'[j][t] = files[j][t] /\ ~Editing(j, t)'
      BY <2>1 DEF Editing
    <2> QED
      BY <2>1, <2>2 DEF LoadFits
  <1> QED
    BY <1>1, <1>2

LEMMA FileWrittenKeeps ==
  ASSUME CatalogInv, missed => missed', FileWritten
  PROVE  CatalogInv'
  <1> DEFINE kind == edit.kind
             s == edit.of
  <1>0. /\ kind \in DocKinds /\ s \in Scopes /\ edit.new \in Nat /\ edit \in EditType
        /\ \A k \in DocKinds : \A t \in Scopes : Editing(k, t) <=> edit.at # "over" /\ k = kind /\ t = s
        /\ "agent" \in DocKinds /\ "team" \in DocKinds
    BY EditFields
  <1>1. /\ edit.at \in {"create", "replace"}
        /\ files' = [files EXCEPT ![kind][s] = edit.new]
        /\ edit' = [edit EXCEPT !.at = IF @ = "create" /\ kind = "agent" THEN "swap" ELSE "register"]
        /\ UNCHANGED <<index, loaded, loading, versions, drops, manager, prompt, told>>
    BY DEF FileWritten, taskVars
  <1>2. /\ edit' \in EditType /\ edit'.kind = kind /\ edit'.of = s /\ edit'.new = edit.new
        /\ edit'.at = IF edit.at = "create" /\ kind = "agent" THEN "swap" ELSE "register"
        /\ \A k \in DocKinds : \A t \in Scopes : Editing(k, t)' = Editing(k, t)
    BY <1>0, <1>1 DEF EditType, Editing
  <1> HIDE DEF kind, s
  <1>3. /\ files' \in [DocKinds -> [Scopes -> Nat]]
        /\ \A j \in DocKinds : \A t \in Scopes : files'[j][t] = IF j = kind /\ t = s THEN edit.new ELSE files[j][t]
    BY <1>0, <1>1, PutEffect DEF CatalogInv, Types
  <1>4. Types'
    BY <1>1, <1>2, <1>3 DEF CatalogInv, Types, EditType
  <1>5. \A j \in DocKinds : LoadFits(j)'
    BY <1>0, <1>1, <1>2, <1>3, EditLeavesLoads DEF kind, s
  <1>6. ASSUME NEW t \in Scopes PROVE ScopeFits(t)'
    <2>1. /\ ~Editing("agent", t) => AgentsAgree(t) /\ AgentsAgree(t)'
          /\ ~Editing("team", t) => TeamsAgree(t) /\ TeamsAgree(t)'
      BY <1>0, <1>1, <1>2, <1>3 DEF AgentsAgree, TeamsAgree, CatalogInv, ScopeFits
    <2>2. EditFits(t)
      BY DEF CatalogInv, ScopeFits
    <2>3. EditFits(t)'
      BY <1>0, <1>1, <1>2, <1>3, <2>2 DEF EditFits
    <2> QED
      BY <1>0, <1>2, <2>1, <2>3 DEF ScopeFits
  <1>7. PromptFits'
    BY <1>0, <1>1, <1>2 DEF CatalogInv, PromptFits, PromptIsIndex, kind, s
  <1> QED
    BY <1>1, <1>4, <1>5, <1>6, <1>7 DEF CatalogInv

(* A request that is over leaves the scope as it should be.                 *)
LEMMA EndsKeeps ==
  ASSUME CatalogInv, missed => missed', edit.at # "over", edit' = NoEdit, UNCHANGED <<files, loaded, loading, versions, drops>>,
         index' \in [DocKinds -> [Scopes -> Nat]], manager' = manager, told' \in BOOLEAN,
         prompt' \in [Scopes -> Int],
         \A k \in DocKinds : \A t \in Scopes : k # edit.kind \/ t # edit.of => index'[k][t] = index[k][t],
         index'[edit.kind][edit.of] = files[edit.kind][edit.of],
         edit.kind = "team" \/ prompt = NoPrompt => UNCHANGED prompt,
         prompt # NoPrompt => prompt' # NoPrompt,
         edit.kind = "agent" /\ prompt # NoPrompt => missed \/ \A t \in Scopes : prompt'[t] = index'["agent"][t]
  PROVE  CatalogInv'
  <1>0. /\ edit.kind \in DocKinds /\ edit.of \in Scopes
        /\ \A k \in DocKinds : \A t \in Scopes : Editing(k, t) <=> edit.at # "over" /\ k = edit.kind /\ t = edit.of
        /\ "agent" \in DocKinds /\ "team" \in DocKinds
    BY EditFields
  <1>1. NoEdit \in EditType /\ NoEdit.at = "over" /\ \A k \in DocKinds : \A t \in Scopes : ~Editing(k, t)'
    BY DEF NoEdit, EditType, DocKinds, Scopes, Nowhere, Editing
  <1>2. Types'
    BY <1>1 DEF CatalogInv, Types, EditType
  <1>3. \A j \in DocKinds : LoadFits(j)'
    BY <1>0, <1>1, EditLeavesLoads
  <1>4. ASSUME NEW t \in Scopes PROVE ScopeFits(t)'
    <2>1. AgentsAgree(t)'
      <3>1. CASE edit.kind = "agent" /\ edit.of = t
        <4>1. t \in loaded["agent"]
          BY <1>0, <3>1 DEF CatalogInv, ScopeFits, EditFits
        <4> QED
          BY <3>1, <4>1 DEF AgentsAgree
      <3>2. CASE edit.kind # "agent" \/ edit.of # t
        BY <1>0, <3>2 DEF AgentsAgree, CatalogInv, ScopeFits
      <3> QED
        BY <3>1, <3>2
    <2>2. TeamsAgree(t)'
      BY <1>0 DEF TeamsAgree, CatalogInv, ScopeFits
    <2>3. EditFits(t)'
      BY <1>0, <1>1 DEF EditFits
    <2> QED
      BY <2>1, <2>2, <2>3 DEF ScopeFits
  <1>5. PromptFits'
    <2>1. /\ manager' => prompt' # NoPrompt
          /\ prompt' # NoPrompt => loaded'["agent"] = Scopes
      BY DEF CatalogInv, PromptFits
    <2>2. CASE missed
      BY <2>1, <2>2 DEF PromptFits
    <2>3. CASE ~missed
      <3>1. prompt' # NoPrompt => \A t \in Scopes : prompt'[t] = index'["agent"][t]
        <4>1. CASE edit.kind = "agent"
          BY <2>3, <4>1
        <4>2. CASE edit.kind = "team"
          BY <1>0, <2>3, <4>2 DEF CatalogInv, PromptFits, PromptIsIndex
        <4> QED
          BY <1>0, <4>1, <4>2 DEF DocKinds
      <3> QED
        BY <1>0, <1>1, <2>1, <3>1 DEF PromptFits, PromptIsIndex
    <2> QED
      BY <2>2, <2>3
  <1> QED
    BY <1>2, <1>3, <1>4, <1>5 DEF CatalogInv

LEMMA FileDeletedKeeps ==
  ASSUME CatalogInv, missed => missed', ~Strays, FileDeleted
  PROVE  CatalogInv'
  <1> DEFINE kind == edit.kind
             s == edit.of
  <1>0. /\ kind \in DocKinds /\ s \in Scopes /\ edit.new \in Nat /\ edit \in EditType
        /\ \A k \in DocKinds : \A t \in Scopes : Editing(k, t) <=> edit.at # "over" /\ k = kind /\ t = s
        /\ "agent" \in DocKinds /\ "team" \in DocKinds
    BY EditFields
  <1>1. /\ edit.at = "delete"
        /\ files' = [files EXCEPT ![kind][s] = Nowhere]
        /\ edit' = [edit EXCEPT !.at = "unregister"]
        /\ UNCHANGED <<index, loaded, loading, versions, drops, manager, prompt, told>>
    BY DEF FileDeleted, Strays, taskVars
  <1>2. /\ edit' \in EditType /\ edit'.kind = kind /\ edit'.of = s /\ edit'.new = edit.new
        /\ edit'.at = "unregister"
        /\ \A k \in DocKinds : \A t \in Scopes : Editing(k, t)' = Editing(k, t)
    BY <1>0, <1>1 DEF EditType, Editing
  <1> HIDE DEF kind, s
  <1>3. /\ files' \in [DocKinds -> [Scopes -> Nat]]
        /\ \A j \in DocKinds : \A t \in Scopes : files'[j][t] = IF j = kind /\ t = s THEN Nowhere ELSE files[j][t]
    BY <1>0, <1>1, PutEffect DEF CatalogInv, Types, Nowhere
  <1>4. Types'
    BY <1>1, <1>2, <1>3 DEF CatalogInv, Types, EditType
  <1>5. \A j \in DocKinds : LoadFits(j)'
    BY <1>0, <1>1, <1>2, <1>3, EditLeavesLoads DEF kind, s
  <1>6. ASSUME NEW t \in Scopes PROVE ScopeFits(t)'
    <2>1. /\ ~Editing("agent", t) => AgentsAgree(t) /\ AgentsAgree(t)'
          /\ ~Editing("team", t) => TeamsAgree(t) /\ TeamsAgree(t)'
      BY <1>0, <1>1, <1>2, <1>3 DEF AgentsAgree, TeamsAgree, CatalogInv, ScopeFits
    <2>2. EditFits(t)
      BY DEF CatalogInv, ScopeFits
    <2>3. EditFits(t)'
      BY <1>0, <1>1, <1>2, <1>3, <2>2 DEF EditFits
    <2> QED
      BY <1>0, <1>2, <2>1, <2>3 DEF ScopeFits
  <1>7. PromptFits'
    BY <1>0, <1>1, <1>2 DEF CatalogInv, PromptFits, PromptIsIndex, kind, s
  <1> QED
    BY <1>1, <1>4, <1>5, <1>6, <1>7 DEF CatalogInv

(* What a Task that runs knows of an Agent that is edited.                  *)
LEMMA PromptOf ==
  ASSUME CatalogInv, prompt # NoPrompt, ~missed
  PROVE  \A t \in Scopes :
           prompt[t] = IF Editing("agent", t) /\ edit.at \in {"create", "swap"} THEN Nowhere ELSE index["agent"][t]
  BY DEF CatalogInv, PromptFits, PromptIsIndex

LEMMA IndexIsNoPrompt ==
  ASSUME NEW f \in [DocKinds -> [Scopes -> Nat]], NEW p \in [Scopes -> Int],
         \A t \in Scopes : p[t] = f["agent"][t]
  PROVE  p # NoPrompt
  BY DEF NoPrompt, Scopes, DocKinds

LEMMA WriteFailsKeeps ==
  ASSUME CatalogInv, missed => missed', WriteFails
  PROVE  CatalogInv'
  <1>0. /\ edit.kind \in DocKinds /\ edit.of \in Scopes
        /\ \A k \in DocKinds : \A t \in Scopes : Editing(k, t) <=> edit.at # "over" /\ k = edit.kind /\ t = edit.of
        /\ "agent" \in DocKinds /\ "team" \in DocKinds
    BY EditFields
  <1>1. /\ edit.at \in {"create", "replace", "delete"} /\ edit' = NoEdit
        /\ index' = TakenBack
        /\ UNCHANGED <<files, loaded, loading, versions, drops, manager, prompt, told>>
    BY DEF WriteFails, taskVars
  <1>2. CASE edit.at = "create" /\ edit.kind = "agent"
    <2>1. /\ index' \in [DocKinds -> [Scopes -> Nat]]
          /\ \A j \in DocKinds : \A t \in Scopes :
               index'[j][t] = IF j = "agent" /\ t = edit.of THEN Nowhere ELSE index[j][t]
      BY <1>0, <1>1, <1>2, PutEffect DEF CatalogInv, Types, TakenBack, Nowhere
    <2>2. files["agent"][edit.of] = Nowhere
      BY <1>0, <1>2 DEF CatalogInv, ScopeFits, EditFits
    <2>3. prompt # NoPrompt => missed \/ \A t \in Scopes : prompt[t] = index'["agent"][t]
      BY <1>0, <1>2, <2>1, PromptOf
    <2> QED
      BY <1>0, <1>1, <1>2, <2>1, <2>2, <2>3, EndsKeeps DEF CatalogInv, Types
  <1>3. CASE ~(edit.at = "create" /\ edit.kind = "agent") /\ edit.kind = "agent"
    <2>1. index' = index /\ index["agent"][edit.of] = files["agent"][edit.of]
      BY <1>0, <1>1, <1>3 DEF CatalogInv, ScopeFits, EditFits, TakenBack
    <2>2. prompt # NoPrompt => missed \/ \A t \in Scopes : prompt[t] = index["agent"][t]
      BY <1>0, <1>1, <1>3, PromptOf
    <2> QED
      BY <1>0, <1>1, <1>3, <2>1, <2>2, EndsKeeps DEF CatalogInv, Types
  <1>4. CASE edit.kind = "team"
    <2>1. index' = index /\ TeamsAgree(edit.of)
      BY <1>0, <1>1, <1>4 DEF CatalogInv, ScopeFits, EditFits, TakenBack
    <2> QED
      <3>1. NoEdit \in EditType /\ NoEdit.at = "over" /\ \A k \in DocKinds : \A t \in Scopes : ~Editing(k, t)'
        BY <1>1 DEF NoEdit, EditType, DocKinds, Scopes, Nowhere, Editing
      <3>2. Types'
        BY <1>1, <2>1, <3>1 DEF CatalogInv, Types, EditType
      <3>3. \A j \in DocKinds : LoadFits(j)'
        BY <1>0, <1>1, <3>1, EditLeavesLoads
      <3>4. ASSUME NEW t \in Scopes PROVE ScopeFits(t)'
        BY <1>0, <1>1, <1>4, <2>1, <3>1 DEF CatalogInv, ScopeFits, EditFits, AgentsAgree, TeamsAgree
      <3>5. PromptFits'
        BY <1>0, <1>1, <1>4, <2>1, <3>1 DEF CatalogInv, PromptFits, PromptIsIndex
      <3> QED
        BY <1>1, <3>2, <3>3, <3>4, <3>5 DEF CatalogInv
  <1> QED
    BY <1>0, <1>2, <1>3, <1>4 DEF DocKinds

LEMMA TeamFollowsKeeps ==
  ASSUME CatalogInv, missed => missed', TeamFollows
  PROVE  CatalogInv'
  <1>0. /\ edit.kind \in DocKinds /\ edit.of \in Scopes /\ edit.new \in Nat
        /\ \A k \in DocKinds : \A t \in Scopes : Editing(k, t) <=> edit.at # "over" /\ k = edit.kind /\ t = edit.of
        /\ "agent" \in DocKinds /\ "team" \in DocKinds
    BY EditFields
  <1> DEFINE v == IF edit.at = "register" THEN edit.new ELSE Nowhere
  <1>1. /\ edit.kind = "team" /\ edit.at \in {"register", "unregister"} /\ edit' = NoEdit
        /\ index' = [index EXCEPT !["team"][edit.of] = v]
        /\ UNCHANGED <<files, loaded, loading, versions, drops, manager, prompt, told>>
    BY DEF TeamFollows, TeamRegistered, TeamUnregistered, taskVars
  <1>2. v \in Nat /\ files["team"][edit.of] = v
    BY <1>0, <1>1 DEF CatalogInv, ScopeFits, EditFits, Nowhere
  <1> HIDE DEF v
  <1>3. /\ index' \in [DocKinds -> [Scopes -> Nat]]
        /\ \A j \in DocKinds : \A t \in Scopes :
             index'[j][t] = IF j = "team" /\ t = edit.of THEN v ELSE index[j][t]
    BY <1>0, <1>1, <1>2, PutEffect DEF CatalogInv, Types
  <1> QED
    BY <1>0, <1>1, <1>2, <1>3, EndsKeeps DEF CatalogInv, Types

LEMMA AgentFollowsKeeps ==
  ASSUME CatalogInv, missed => missed', AgentFollows
  PROVE  CatalogInv'
  <1>0. /\ edit.kind \in DocKinds /\ edit.of \in Scopes /\ edit.new \in Nat
        /\ \A k \in DocKinds : \A t \in Scopes : Editing(k, t) <=> edit.at # "over" /\ k = edit.kind /\ t = edit.of
        /\ "agent" \in DocKinds /\ "team" \in DocKinds
    BY EditFields
  <1> DEFINE v == IF edit.at = "unregister" THEN Nowhere ELSE edit.new
  <1>1. /\ edit.kind = "agent" /\ edit.at \in {"register", "swap", "unregister"} /\ edit' = NoEdit
        /\ UNCHANGED <<files, loaded, loading, versions, drops>>
    BY DEF AgentFollows
  <1>2. /\ files["agent"][edit.of] = v /\ index["agent"][edit.of] # Nowhere
        /\ edit.at = "swap" => index["agent"][edit.of] = v
    BY <1>0, <1>1 DEF CatalogInv, ScopeFits, EditFits
  <1>3. /\ TellsTask(edit.of, v)
        /\ index' = IF edit.at = "swap" THEN index ELSE [index EXCEPT !["agent"][edit.of] = v]
    BY <1>1, <1>2 DEF AgentFollows, AgentReplaced, AgentUnregistered
  <1>4. v \in Nat
    BY <1>0 DEF Nowhere
  <1> HIDE DEF v
  <1>5. /\ index' \in [DocKinds -> [Scopes -> Nat]]
        /\ \A j \in DocKinds : \A t \in Scopes :
             index'[j][t] = IF j = "agent" /\ t = edit.of THEN v ELSE index[j][t]
    <2>1. CASE edit.at = "swap"
      BY <1>0, <1>2, <1>3, <2>1 DEF CatalogInv, Types
    <2>2. CASE edit.at # "swap"
      BY <1>0, <1>3, <1>4, <2>2, PutEffect DEF CatalogInv, Types
    <2> QED
      BY <2>1, <2>2
  <1>6. manager' = manager /\ told' \in BOOLEAN /\ prompt' \in [Scopes -> Int]
    <2>1. CASE IsNotified
      <3>1. prompt' = [prompt EXCEPT ![edit.of] = v] /\ told' = TRUE /\ manager' = manager
        BY <1>3, <2>1 DEF TellsTask
      <3>2. prompt \in [Scopes -> Int] /\ v \in Int
        BY <1>4 DEF CatalogInv, Types
      <3> QED
        BY <1>0, <3>1, <3>2
    <2>2. CASE ~IsNotified
      BY <1>3, <2>2 DEF CatalogInv, Types, TellsTask, taskVars
    <2> QED
      BY <2>1, <2>2
  <1>7. prompt = NoPrompt => UNCHANGED prompt
    BY <1>3 DEF CatalogInv, PromptFits, PromptIsIndex, TellsTask, IsNotified, taskVars
  <1>8. prompt # NoPrompt => prompt' # NoPrompt
    <2>1. CASE IsNotified
      <3>1. prompt' = [prompt EXCEPT ![edit.of] = v]
        BY <1>3, <2>1 DEF TellsTask
      <3>2. prompt'[edit.of] = v
        BY <1>0, <3>1 DEF CatalogInv, Types
      <3>3. NoPrompt[edit.of] = -1
        BY <1>0 DEF NoPrompt
      <3> QED
        BY <1>4, <3>2, <3>3
    <2>2. CASE ~IsNotified
      BY <1>3, <2>2 DEF TellsTask, taskVars
    <2> QED
      BY <2>1, <2>2
  <1>9. ASSUME prompt # NoPrompt, ~missed
        PROVE  \A t \in Scopes : prompt'[t] = index'["agent"][t]
    <2>1. manager
      BY <1>1, <1>9 DEF CatalogInv, PromptFits, PromptIsIndex
    <2>2. prompt' = [prompt EXCEPT ![edit.of] = v]
      BY <1>1, <1>3, <2>1 DEF TellsTask, IsNotified
    <2> QED
      BY <1>0, <1>5, <1>9, <2>2, PromptOf DEF CatalogInv, Types
  <1> QED
    BY <1>0, <1>1, <1>2, <1>5, <1>6, <1>7, <1>8, <1>9, EndsKeeps

-----------------------------------------------------------------------------
(* The Runs of the Task.                                                    *)

LEMMA RunStepsKeep ==
  ASSUME CatalogInv, missed => missed', RunBegins \/ RunEnds
  PROVE  CatalogInv'
  <1>0. /\ "agent" \in DocKinds
        /\ \A k \in DocKinds : \A t \in Scopes : ~Editing(k, t)
    BY DEF RunBegins, RunEnds, Editing, DocKinds
  <1>1. UNCHANGED <<files, index, loaded, loading, edit, versions, drops, told>> /\ manager' \in BOOLEAN
    BY DEF RunBegins, RunEnds
  <1>2. \/ UNCHANGED prompt /\ (manager' => prompt # NoPrompt)
        \/ loaded["agent"] = Scopes /\ prompt' = index["agent"]
    BY DEF RunBegins, RunEnds, PromptStored, Advertised
  <1>3. prompt' \in [Scopes -> Int]
    BY <1>0, <1>2 DEF CatalogInv, Types
  <1>4. Types'
    BY <1>1, <1>3 DEF CatalogInv, Types
  <1>5. (\A j \in DocKinds : LoadFits(j)') /\ (\A t \in Scopes : ScopeFits(t)')
    BY <1>1 DEF CatalogInv, LoadFits, ScopeFits, EditFits, Editing, AgentsAgree, TeamsAgree
  <1>6. PromptFits'
    <2>1. CASE UNCHANGED prompt /\ (manager' => prompt # NoPrompt)
      BY <1>0, <1>1, <2>1 DEF CatalogInv, PromptFits, PromptIsIndex, Editing, RunBegins, RunEnds
    <2>2. CASE loaded["agent"] = Scopes /\ prompt' = index["agent"]
      <3>1. prompt' # NoPrompt
        BY <1>3, <2>2, IndexIsNoPrompt DEF CatalogInv, Types
      <3> QED
        BY <1>0, <1>1, <2>2, <3>1 DEF PromptFits, PromptIsIndex, Editing, RunBegins, RunEnds
    <2> QED
      BY <1>2, <2>1, <2>2
  <1> QED
    BY <1>1, <1>4, <1>5, <1>6 DEF CatalogInv

LEMMA CatalogInvInit ==
  ASSUME CatalogInit
  PROVE  CatalogInv
  <1>0. {"agent", "team"} = DocKinds /\ {"system", "workspace"} = Scopes
    BY DEF DocKinds, Scopes
  <1>1. files \in [DocKinds -> [Scopes -> Nat]] /\ index \in [DocKinds -> [Scopes -> Nat]]
    BY DEF CatalogInit, Nowhere
  <1>2. edit \in EditType /\ Unread \in [of : Scopes \cup {"none"}, found : Nat] /\ edit.at = "over"
    BY <1>0 DEF CatalogInit, NoEdit, EditType, Unread, Nowhere
  <1>3. prompt \in [Scopes -> Int]
    BY DEF CatalogInit, NoPrompt
  <1>4. Types
    <2>1. loaded \in [DocKinds -> SUBSET Scopes] /\ loading \in [DocKinds -> [of : Scopes \cup {"none"}, found : Nat]]
      BY <1>2 DEF CatalogInit
    <2>2. versions \in Nat \ {0} /\ drops \in Nat
      BY DEF CatalogInit
    <2>3. manager \in BOOLEAN /\ told \in BOOLEAN
      BY DEF CatalogInit
    <2> QED
      BY <1>1, <1>2, <1>3, <2>1, <2>2, <2>3 DEF Types, EditType
  <1>5. /\ \A j \in DocKinds : loading[j] = Unread /\ loaded[j] = {}
        /\ \A j \in DocKinds : \A t \in Scopes : index[j][t] = Nowhere /\ ~Editing(j, t)
    BY <1>2 DEF CatalogInit, Editing
  <1> QED
    BY <1>0, <1>2, <1>4, <1>5
       DEF CatalogInit, CatalogInv, LoadFits, ScopeFits, EditFits, AgentsAgree, TeamsAgree, PromptFits, PromptIsIndex

LEMMA CatalogInvNext ==
  ASSUME CatalogInv, missed => missed', ~Strays, Misses => missed', [CatalogNext]_catalogVars
  PROVE  CatalogInv'
  <1>1. CASE UNCHANGED catalogVars
    BY <1>1
       DEF catalogVars, CatalogInv, Types, LoadFits, ScopeFits, EditFits, Editing, AgentsAgree, TeamsAgree, PromptFits, PromptIsIndex
  <1>2. ASSUME NEW s \in Scopes, ReadsAgents(s) \/ ReadsTeams(s)
        PROVE  CatalogInv'
    <2>1. CASE ReadsAgents(s)
      <3>1. "agent" \in DocKinds /\ Reads("agent", s) /\ (s = "workspace" => "system" \in loaded["agent"])
        BY <2>1 DEF ReadsAgents, DocKinds
      <3>2. ~Editing("agent", s)
        BY <3>1 DEF Reads, CatalogInv, ScopeFits, EditFits
      <3> QED
        BY <3>1, <3>2, ReadsKeeps
    <2>2. CASE ReadsTeams(s)
      <3>1. "team" \in DocKinds /\ Reads("team", s) /\ ~Editing("team", s)
        BY <2>2 DEF ReadsTeams, DocKinds, Strays
      <3> QED
        BY <3>1, ReadsKeeps
    <2> QED
      BY <1>2, <2>1, <2>2
  <1> QED
    BY <1>1, <1>2, MergesAgentsKeeps, MergesTeamsKeeps, RequestKeeps, FileWrittenKeeps, WriteFailsKeeps,
       FileDeletedKeeps, AgentFollowsKeeps, TeamFollowsKeeps, DropsScopeKeeps, RunStepsKeep
       DEF CatalogNext

(* What strays changes the registries, a file or the request.               *)
LEMMA StrayingIsSeen ==
  ASSUME CatalogInv, Strays, [CatalogNotes]_notedVars
  PROVE  strayed'
  <1>1. CASE DropsScope
    <2>1. drops' # drops
      BY <1>1 DEF DropsScope, CatalogInv, Types
    <2> QED
      BY <2>1 DEF CatalogNotes, notedVars, catalogVars
  <1>2. ASSUME NEW kind \in DocKinds, NEW s \in Scopes, Reads(kind, s) PROVE strayed'
    <2>1. PICK found : loading' = [loading EXCEPT ![kind] = [of |-> s, found |-> found]]
      BY <1>2 DEF Reads
    <2>2. loading'[kind].of = s /\ loading[kind].of = "none"
      BY <1>2, <2>1 DEF CatalogInv, Types, Reads, Unread
    <2>3. loading' # loading
      BY <2>2 DEF Scopes
    <2> QED
      BY <2>3 DEF CatalogNotes, notedVars, catalogVars
  <1>3. ASSUME NEW s \in Scopes, BeginsOn("team", s) PROVE strayed'
    BY <1>3 DEF BeginsOn, CatalogNotes, notedVars, catalogVars
  <1>4. CASE FileDeleted /\ edit' = NoEdit
    <2>1. edit' # edit
      BY <1>4 DEF FileDeleted, NoEdit
    <2> QED
      BY <2>1 DEF CatalogNotes, notedVars, catalogVars
  <1> QED
    BY <1>1, <1>2, <1>3, <1>4 DEF Strays, DocKinds

LEMMA MissingIsSeen ==
  ASSUME Misses, [CatalogNotes]_notedVars
  PROVE  missed'
  BY DEF Misses, BeginsOn, CatalogNotes, notedVars, catalogVars

CatalogFits == strayed \/ CatalogInv

LEMMA CatalogFitsNext ==
  ASSUME CatalogFits, [CatalogNext]_catalogVars, [CatalogNotes]_notedVars
  PROVE  CatalogFits'
  <1>1. (strayed => strayed') /\ (missed => missed')
    <2>1. CASE CatalogNotes
      BY <2>1, Zenon DEF CatalogNotes
    <2>2. CASE UNCHANGED notedVars
      BY <2>2 DEF notedVars
    <2> QED
      BY <2>1, <2>2
  <1>2. CASE CatalogInv /\ Strays
    BY <1>2, StrayingIsSeen DEF CatalogFits
  <1>3. CASE CatalogInv /\ ~Strays
    BY <1>1, <1>3, MissingIsSeen, CatalogInvNext DEF CatalogFits
  <1> QED
    BY <1>1, <1>2, <1>3 DEF CatalogFits

(***************************************************************************)
(* The configurations in memory are those in the files in every state that  *)
(* none of what strays (above) has led to, and a Task that runs knows them  *)
(* as long as, besides, no Agent changed while it was idle with a stored    *)
(* prompt (AgentProfileRegistry, AgentTeamConfigurationRegistry,            *)
(* _notify_catalog_change).                                                 *)
(***************************************************************************)
THEOREM CatalogIsTrueAlways ==
  CatalogSpec /\ CatalogWatch =>
    [](/\ ~strayed => IndexIsFiles
       /\ ~strayed /\ ~missed => CatalogIsTrue)
  <1>1. CatalogInv => IndexIsFiles
    <2> SUFFICES ASSUME CatalogInv, Quiet, NEW kind \in DocKinds, NEW s \in loaded[kind]
                 PROVE  \/ index[kind][s] = files[kind][s]
                        \/ kind = "agent" /\ s = "workspace" /\ index[kind][s] = Nowhere
      BY DEF IndexIsFiles
    <2>1. s \in Scopes /\ ~Editing(kind, s)
      BY DEF CatalogInv, Types, Quiet, Editing
    <2> QED
      BY <2>1 DEF CatalogInv, ScopeFits, AgentsAgree, TeamsAgree, DocKinds
  <1>2. CatalogInv /\ ~missed => TaskKnowsCatalog
    <2> SUFFICES ASSUME CatalogInv, ~missed, Quiet, manager
                 PROVE  prompt = index["agent"]
      BY DEF TaskKnowsCatalog, Advertised
    <2>1. \A t \in Scopes : prompt[t] = index["agent"][t]
      BY DEF CatalogInv, PromptFits, PromptIsIndex, Quiet, Editing
    <2>2. prompt \in [Scopes -> Int] /\ index["agent"] \in [Scopes -> Nat]
      BY DEF CatalogInv, Types, DocKinds
    <2> QED
      BY <2>1, <2>2
  <1>3. CatalogFits => (~strayed => IndexIsFiles) /\ (~strayed /\ ~missed => CatalogIsTrue)
    BY <1>1, <1>2 DEF CatalogFits, CatalogIsTrue
  <1>4. CatalogInit => CatalogFits
    BY CatalogInvInit DEF CatalogFits
  <1>5. CatalogFits /\ [CatalogNext]_catalogVars /\ [CatalogNotes]_notedVars => CatalogFits'
    BY CatalogFitsNext
  <1> QED
    BY <1>3, <1>4, <1>5, PTL DEF CatalogSpec, CatalogWatch
=============================================================================
