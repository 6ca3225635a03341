---------------------------- MODULE TaskActorProofs ----------------------------
(***************************************************************************)
(* Proofs about the scheduler of a Task, for any number of Runs, messages, *)
(* executions and outside events.                                          *)
(***************************************************************************)
EXTENDS TaskActorProps, TLAPS

-----------------------------------------------------------------------------
(* The types, one lemma per process.                                       *)

LEMMA ProcessNames ==
  /\ Execs \subseteq Advancers /\ "loop" \in Advancers
  /\ Advancers \subseteq Procs /\ Commands \subseteq Procs
  /\ Reasons \subseteq Commands /\ "resume" \in Commands
  /\ Execs \cap (Commands \cup {"loop", "stop", Free, NoExec}) = {}
  BY ActorAssumption DEF Advancers, Commands, Procs

(* The status set by a transition is a status.                             *)
LEMMA AfterStatus ==
  ASSUME NEW t \in Transitions, NEW st \in Statuses \cup {"none"}
  PROVE  After(t, st) \in Statuses \cup {"none"}
  BY DEF After, RunTransition, Transitions, Statuses

LEMMA TransitTyped ==
  ASSUME NEW t \in Transitions, NEW run, status \in [Runs -> Statuses \cup {"none"}],
         Transit(run, t)
  PROVE  status' \in [Runs -> Statuses \cup {"none"}]
  BY AfterStatus DEF Transit

(* The mailbox of a new execution only gets rows that were pending.        *)
LEMMA InitialPending ==
  ASSUME NEW pending, NEW freshRun
  PROVE  InitialMessages(pending, freshRun) \subseteq pending
  BY DEF InitialMessages, NextInput, Earliest, Inputs, Immediate

LEMMA StatusOfTyped ==
  ASSUME status \in [Runs -> Statuses \cup {"none"}], NEW run \in 0..MaxRun
  PROVE  StatusOf(run) \in Statuses \cup {"none"}
  BY DEF StatusOf, Runs, NoRun

LEMMA TypeInit == Init => TypeOK
  <1> SUFFICES ASSUME Init PROVE TypeOK
    OBVIOUS
  <1> USE ActorAssumption, ProcessNames DEF ActorAssumption, Init
  <1>1. RowTypes
    BY DEF RowTypes
  <1>2. RunTypes
    BY DEF RunTypes, Runs, NoRun, NoSnap
  <1>3. BoxTypes
    BY DEF BoxTypes
  <1>4. ExecTypes
    BY DEF ExecTypes, NoRun, Signals
  <1>5. AdvanceTypes
    BY DEF AdvanceTypes, RowTypes
  <1>6. CommandTypes
    BY DEF CommandTypes
  <1>7. FlagTypes
    BY Zenon DEF FlagTypes
  <1> QED
    BY <1>1, <1>2, <1>3, <1>4, <1>5, <1>6, <1>7 DEF TypeOK

-----------------------------------------------------------------------------
(* What is typed stays typed when it is left alone.                        *)

LEMMA RowFrame == ASSUME RowTypes, UNCHANGED rowVars PROVE RowTypes' /\ Rows' = Rows
  BY DEF RowTypes, rowVars, Rows

LEMMA RunFrame == ASSUME RunTypes, UNCHANGED <<runVars, snap>> PROVE RunTypes'
  BY DEF RunTypes, runVars

LEMMA BoxFrame == ASSUME BoxTypes, UNCHANGED <<rowVars, boxVars>> PROVE BoxTypes'
  BY DEF BoxTypes, rowVars, boxVars, Rows

LEMMA ExecFrame ==
  ASSUME ExecTypes, UNCHANGED <<exec, runOf, epc, taken, signal, awaited>> PROVE ExecTypes'
  BY DEF ExecTypes

LEMMA AdvanceFrame ==
  ASSUME AdvanceTypes, UNCHANGED <<issued, loopVars, advVars>>, gate' \in {gate, Free}
  PROVE  AdvanceTypes'
  BY DEF AdvanceTypes, loopVars, advVars, Rows

LEMMA CommandFrame ==
  ASSUME CommandTypes, UNCHANGED <<cpc, spc, budget>> PROVE CommandTypes'
  BY DEF CommandTypes

LEMMA FlagFrame ==
  ASSUME FlagTypes, UNCHANGED <<waitFlag, stopping, stopped>> PROVE FlagTypes'
  BY Zenon DEF FlagTypes

(* Pieces shared by the actions.                                           *)

LEMMA SnapTyped ==
  ASSUME RunTypes, NEW p \in Procs, Read(p) \/ Settle(p) \/ Forget(p)
  PROVE  snap' \in [Procs -> [run : 0..MaxRun, st : Statuses \cup {"none"}]]
  <1> USE DEF RunTypes
  <1>1. CASE Read(p)
    <2>1. CurrentStatus \in Statuses \cup {"none"}
      BY StatusOfTyped DEF CurrentStatus
    <2>2. (IF StaleReads THEN CurrentStatus ELSE "none") \in Statuses \cup {"none"}
      BY <2>1
    <2> QED
      BY <1>1, <2>2 DEF Read
  <1>2. CASE Settle(p)
    BY <1>2 DEF Settle
  <1>3. CASE Forget(p)
    BY <1>3, ActorAssumption DEF Forget, NoSnap, NoRun, ActorAssumption
  <1> QED
    BY <1>1, <1>2, <1>3

LEMMA EndTyped ==
  ASSUME ExecTypes, NEW a \in Advancers
  PROVE  /\ EpcEnd(a) \in [Execs -> Drives \cup Tails \cup {"off"}]
         /\ RunOfEnd(a) \in [Execs -> 0..MaxRun]
         /\ TakenEnd(a) \in [Execs -> Signals]
         /\ AwaitedEnd(a) \in [Waiters -> Execs \cup {NoExec}]
  BY ActorAssumption
  DEF ExecTypes, EpcEnd, RunOfEnd, TakenEnd, AwaitedEnd, Signals, NoRun, ActorAssumption

LEMMA EndAdvanceTyped ==
  ASSUME TypeOK, NEW a \in Advancers, NEW ok, EndAdvance(a, ok), UNCHANGED issued
  PROVE  /\ AdvanceTypes'
         /\ snap' \in [Procs -> [run : 0..MaxRun, st : Statuses \cup {"none"}]]
         /\ awaited' \in [Waiters -> Execs \cup {NoExec}]
  <1>1. a \in Procs
    BY ProcessNames
  <1>2. Rows' = Rows
    BY DEF Rows
  <1>3. lpc' \in {"wait", "drain", "advance", "halted"} /\ handled' \in 0..issued
    BY DEF EndAdvance, TypeOK, AdvanceTypes
  <1>4. apending' \in [Advancers -> SUBSET Rows] /\ afresh' \in [Advancers -> SUBSET Rows]
    BY DEF EndAdvance, TypeOK, AdvanceTypes
  <1>5. AdvanceTypes'
    BY <1>2, <1>3, <1>4 DEF EndAdvance, TypeOK, AdvanceTypes
  <1> QED
    BY <1>1, <1>5, SnapTyped, EndTyped DEF EndAdvance, TypeOK

LEMMA PostTyped ==
  ASSUME RowTypes, BoxTypes, NEW S \in SUBSET Rows, Post(S), UNCHANGED issued
  PROVE  BoxTypes'
  <1>1. Rows' = Rows
    BY DEF Rows
  <1> DEFINE new == {m \in S : m.id \notin seen}
  <1>2. new \subseteq Rows
    OBVIOUS
  <1>3. /\ mailbox' = mailbox \cup {[msg |-> m, round |-> posts] : m \in new}
        /\ seen' = seen \cup Ids(new)
        /\ posts' = IF new = {} THEN posts ELSE posts + 1
    BY DEF Post
  <1> HIDE DEF new
  <1>4. Ids(new) \subseteq 1..issued
    BY <1>2 DEF Ids, Rows
  <1>5. {[msg |-> m, round |-> posts] : m \in new} \subseteq [msg : Rows, round : Nat]
    BY <1>2 DEF BoxTypes
  <1>6. mailbox' \subseteq [msg : Rows', round : Nat]
    BY <1>1, <1>3, <1>5 DEF BoxTypes
  <1>7. posts' \in Nat
    BY <1>3 DEF BoxTypes
  <1>8. seen' \subseteq 1..issued'
    BY <1>3, <1>4 DEF BoxTypes
  <1> QED
    BY <1>6, <1>7, <1>8 DEF BoxTypes

LEMMA StartTyped ==
  ASSUME TypeOK, NEW a \in Advancers \cup {"resume"}, NEW run \in 0..MaxRun,
         NEW pending \in SUBSET Rows, NEW freshRun, StartExecution(a, run, pending, freshRun),
         UNCHANGED <<issued, signal>>, awaited' \in [Waiters -> Execs \cup {NoExec}]
  PROVE  BoxTypes' /\ ExecTypes'
  <1> DEFINE initial == InitialMessages(pending, freshRun)
  <1>1. Rows' = Rows
    BY DEF Rows
  <1>2. initial \subseteq Rows
    BY InitialPending
  <1>3. mailbox' = {[msg |-> m, round |-> 0] : m \in initial} /\ seen' = Ids(initial) /\ posts' = 1
    BY DEF StartExecution
  <1>4. BoxTypes'
    <2> HIDE DEF initial
    <2> QED
      BY <1>1, <1>2, <1>3 DEF BoxTypes, Ids, Rows
  <1>5. /\ EpcEnd(a) \in [Execs -> Drives \cup Tails \cup {"off"}]
        /\ RunOfEnd(a) \in [Execs -> 0..MaxRun]
        /\ TakenEnd(a) \in [Execs -> Signals]
    BY EndTyped, ProcessNames DEF TypeOK, EpcEnd, RunOfEnd, TakenEnd, ExecTypes
  <1>6. PICK e \in Execs : /\ exec' = e
                            /\ epc' = [EpcEnd(a) EXCEPT ![e] = "prepare"]
                            /\ runOf' = [RunOfEnd(a) EXCEPT ![e] = run]
    BY DEF StartExecution
  <1>7. taken' = TakenEnd(a)
    BY DEF StartExecution
  <1>8. ExecTypes'
    BY <1>5, <1>6, <1>7 DEF TypeOK, ExecTypes, Drives, Signals
  <1> QED
    BY <1>4, <1>8

LEMMA EnqueueTyped ==
  ASSUME RowTypes, NEW kind \in Kinds, NEW delivery \in Deliveries, NEW owner \in 0..MaxRun,
         Enqueue(kind, delivery, owner)
  PROVE  RowTypes' /\ Rows \subseteq Rows' /\ issued' \in Nat /\ issued <= issued'
  <1>1. Rows \subseteq Rows' /\ issued' \in Nat /\ issued <= issued'
    BY DEF RowTypes, Enqueue, Rows
  <1>2. Row(issued + 1, kind, delivery, owner) \in Rows'
    BY DEF RowTypes, Enqueue, Rows, Row
  <1>3. context' \in Seq([msg : Rows', run : 0..MaxRun])
    <2>1. [msg : Rows, run : 0..MaxRun] \subseteq [msg : Rows', run : 0..MaxRun]
      BY <1>1
    <2>2. \A S, T : S \subseteq T => Seq(S) \subseteq Seq(T)
      OBVIOUS
    <2> QED
      BY <2>1, <2>2 DEF RowTypes, Enqueue
  <1> QED
    BY <1>1, <1>2, <1>3 DEF RowTypes, Enqueue

(* More rows: what is typed stays typed.                                   *)
LEMMA MoreRows ==
  ASSUME TypeOK, Rows \subseteq Rows', issued' \in Nat, issued <= issued',
         UNCHANGED <<boxVars, loopVars, advVars>>, gate' \in {gate, Free}
  PROVE  BoxTypes' /\ AdvanceTypes'
  <1>1. BoxTypes'
    BY DEF TypeOK, RowTypes, BoxTypes, boxVars
  <1>2. apending' \in [Advancers -> SUBSET Rows'] /\ afresh' \in [Advancers -> SUBSET Rows']
    BY DEF TypeOK, AdvanceTypes, advVars
  <1>3. watermark' \in 0..issued' /\ handled' \in 0..issued'
    BY DEF TypeOK, RowTypes, AdvanceTypes, loopVars
  <1> QED
    BY <1>1, <1>2, <1>3 DEF TypeOK, AdvanceTypes, loopVars, advVars

-----------------------------------------------------------------------------
(* _advance                                                                *)

LEMMA TypeAdvance ==
  ASSUME TypeOK, NEW a \in Advancers, AdvanceStep(a)
  PROVE  TypeOK'
  <1> USE ProcessNames DEF TypeOK, rowVars, runVars, boxVars, execVars, loopVars, advVars,
       stopVars
  <1>t. \A b \in Advancers : b \in Procs
    OBVIOUS
  <1>1. ASSUME AdvanceTakesGate(a) \/ AdvanceClaims(a) \/ AdvanceWakes(a) \/ AdvanceCreates(a)
        PROVE  TypeOK'
    <2>1. /\ UNCHANGED <<rowVars, boxVars, execVars, signal, awaited, loopVars, apending, afresh,
                         cpc, stopVars, budget>>
          /\ gate' \in {gate, a}
          /\ \E to \in Critical : apc' = [apc EXCEPT ![a] = to]
      BY <1>1 DEF AdvanceTakesGate, AdvanceClaims, AdvanceWakes, AdvanceCreates, OpenRun, Critical
    <2>2. Rows' = Rows
      BY <2>1, RowFrame
    <2>3. AdvanceTypes'
      BY <2>1, <2>2, <1>t DEF AdvanceTypes
    <2>4. RunTypes'
      <3>1. CASE AdvanceTakesGate(a) \/ AdvanceClaims(a)
        BY <1>t, <3>1, SnapTyped DEF AdvanceTakesGate, AdvanceClaims, RunTypes
      <3>2. CASE AdvanceWakes(a)
        BY <3>2, TransitTyped DEF AdvanceWakes, RunTypes, Transitions
      <3>3. CASE AdvanceCreates(a)
        <4>1. /\ current' \in 0..MaxRun /\ UNCHANGED propagated
              /\ status' = [status EXCEPT ![current + 1] = "running"]
              /\ snap' = [snap EXCEPT ![a].run = current']
          BY <3>3, ActorAssumption DEF AdvanceCreates, OpenRun, RunTypes, ActorAssumption
        <4>2. status' \in [Runs -> Statuses \cup {"none"}]
          BY <4>1 DEF RunTypes, Statuses
        <4>3. snap' \in [Procs -> [run : 0..MaxRun, st : Statuses \cup {"none"}]]
          BY <4>1, <1>t DEF RunTypes
        <4> QED
          BY <4>1, <4>2, <4>3 DEF RunTypes
      <3> QED
        BY <1>1, <3>1, <3>2, <3>3
    <2> QED
      BY <2>1, <2>3, <2>4, RowFrame, BoxFrame, ExecFrame, CommandFrame, FlagFrame
  <1>2. ASSUME AdvanceDelivers(a) \/ AdvanceStays(a) \/ AdvanceWakeMisses(a)
        PROVE  TypeOK'
    <2>1. /\ EndAdvance(a, TRUE)
          /\ UNCHANGED <<rowVars, runVars, exec, waitFlag, signal, cpc, stopVars, budget>>
          /\ epc' = EpcEnd(a) /\ runOf' = RunOfEnd(a) /\ taken' = TakenEnd(a)
          /\ UNCHANGED boxVars \/ Post(Immediate(apending[a]))
      BY <1>2 DEF AdvanceDelivers, AdvanceStays, AdvanceWakeMisses
    <2>2. /\ AdvanceTypes'
          /\ snap' \in [Procs -> [run : 0..MaxRun, st : Statuses \cup {"none"}]]
          /\ awaited' \in [Waiters -> Execs \cup {NoExec}]
      BY <2>1, EndAdvanceTyped
    <2>3. RunTypes'
      BY <2>1, <2>2 DEF RunTypes
    <2>4. ExecTypes'
      BY <2>1, <2>2, EndTyped DEF ExecTypes
    <2>5. BoxTypes'
      <3>1. Immediate(apending[a]) \in SUBSET Rows
        BY DEF Immediate, AdvanceTypes
      <3> QED
        BY <2>1, <3>1, PostTyped, BoxFrame
    <2> QED
      BY <2>1, <2>2, <2>3, <2>4, <2>5, RowFrame, CommandFrame, FlagFrame
  <1>3. ASSUME AdvanceStarts(a) PROVE TypeOK'
    <2>1. /\ EndAdvance(a, TRUE)
          /\ StartExecution(a, snap[a].run, apending[a], apc[a] = "startNew")
          /\ UNCHANGED <<rowVars, runVars, signal, cpc, stopVars, budget>>
      BY <1>3 DEF AdvanceStarts
    <2>2. /\ AdvanceTypes'
          /\ snap' \in [Procs -> [run : 0..MaxRun, st : Statuses \cup {"none"}]]
          /\ awaited' \in [Waiters -> Execs \cup {NoExec}]
      BY <2>1, EndAdvanceTyped
    <2>3. snap[a].run \in 0..MaxRun /\ apending[a] \in SUBSET Rows
      BY <1>t DEF RunTypes, AdvanceTypes
    <2>4. BoxTypes' /\ ExecTypes'
      BY <2>1, <2>2, <2>3, StartTyped
    <2>5. RunTypes'
      BY <2>1, <2>2 DEF RunTypes
    <2>6. FlagTypes'
      BY <2>1, Zenon DEF StartExecution, FlagTypes
    <2> QED
      BY <2>1, <2>2, <2>4, <2>5, <2>6, RowFrame, CommandFrame
  <1> QED
    BY <1>1, <1>2, <1>3 DEF AdvanceStep

-----------------------------------------------------------------------------
(* The execution that drives a Run.                                        *)

LEMMA ConfirmTyped ==
  ASSUME TypeOK, NEW e \in Execs, NEW x \in mailbox, Confirm(e, x),
         UNCHANGED <<issued, withdrawn, seen, posts>>
  PROVE  RowTypes' /\ BoxTypes' /\ Rows' = Rows
  <1>1. Rows' = Rows
    BY DEF Rows
  <1>2. x.msg \in Rows /\ runOf[e] \in 0..MaxRun
    BY DEF TypeOK, BoxTypes, ExecTypes
  <1>3. context' \in Seq([msg : Rows, run : 0..MaxRun])
    <2>1. [msg |-> x.msg, run |-> runOf[e]] \in [msg : Rows, run : 0..MaxRun]
      BY <1>2
    <2>2. context \in Seq([msg : Rows, run : 0..MaxRun])
      BY DEF TypeOK, RowTypes
    <2>3. Append(context, [msg |-> x.msg, run |-> runOf[e]])
            \in Seq([msg : Rows, run : 0..MaxRun])
      BY <2>1, <2>2
    <2>4. \/ context' = context
          \/ context' = Append(context, [msg |-> x.msg, run |-> runOf[e]])
      BY DEF Confirm
    <2> QED
      BY <2>2, <2>3, <2>4
  <1>4. queue' \subseteq queue /\ mailbox' \subseteq mailbox
    BY DEF Confirm
  <1> QED
    BY <1>1, <1>3, <1>4 DEF TypeOK, RowTypes, BoxTypes

LEMMA ReleaseTyped ==
  ASSUME TypeOK, NEW e \in Execs, Release(e), CommandTypes'
  PROVE  TypeOK'
  <1> USE DEF TypeOK, rowVars, runVars, boxVars, loopVars, advVars, stopVars
  <1>1. /\ exec' = NoExec /\ signal' = "none"
        /\ UNCHANGED <<rowVars, runVars, boxVars, waitFlag, gate, snap, loopVars, advVars, cpc,
                       stopVars>>
    BY DEF Release
  <1>2. CASE stopping
    <2>1. /\ epc' = EpcEnd(e) /\ runOf' = RunOfEnd(e)
          /\ taken' = TakenEnd(e) /\ awaited' = AwaitedEnd(e)
      BY <1>2 DEF Release, Finish
    <2> QED
      BY <1>1, <2>1, ProcessNames, EndTyped, RowFrame, RunFrame, BoxFrame, AdvanceFrame, FlagFrame
      DEF ExecTypes, Signals
  <1>3. CASE ~stopping
    <2>1. /\ epc' = [epc EXCEPT ![e] = "tail"]
          /\ taken' = [taken EXCEPT ![e] = signal]
          /\ UNCHANGED <<runOf, awaited>>
      BY <1>3 DEF Release
    <2> QED
      BY <1>1, <2>1, RowFrame, RunFrame, BoxFrame, AdvanceFrame, FlagFrame
      DEF ExecTypes, Signals, Tails
  <1> QED
    BY <1>2, <1>3

LEMMA TypeDrive ==
  ASSUME TypeOK, NEW e \in Execs, DriveStep(e)
  PROVE  TypeOK'
  <1> USE DEF TypeOK, rowVars, runVars, boxVars, execVars, loopVars, advVars, stopVars, driveFrame
  <1>1. ASSUME DriveReturns(e) \/ DriveDropped(e) PROVE TypeOK'
    <2>1. CommandTypes'
      BY <1>1, CommandFrame DEF DriveReturns, DriveDropped, Release
    <2> QED
      BY <1>1, <2>1, ReleaseTyped DEF DriveReturns, DriveDropped
  <1>2. ASSUME RunConsumes(e) \/ RunClaimsDecision(e) PROVE TypeOK'
    <2>1. PICK x \in mailbox : Confirm(e, x)
      BY <1>2 DEF RunConsumes, RunClaimsDecision
    <2>2. /\ UNCHANGED <<issued, withdrawn, runVars, seen, posts, exec, runOf, taken, driveFrame, budget>>
          /\ \/ epc' = epc \/ epc' = [epc EXCEPT ![e] = "consume"]
             \/ epc' = [epc EXCEPT ![e] = "tools"]
      BY <1>2 DEF RunConsumes, RunClaimsDecision
    <2>3. RowTypes' /\ BoxTypes' /\ Rows' = Rows
      BY <2>1, <2>2, ConfirmTyped
    <2>4. FlagTypes'
      BY <1>2, Zenon DEF RunConsumes, RunClaimsDecision, FlagTypes
    <2>5. ExecTypes'
      BY <2>2 DEF ExecTypes, Drives
    <2>6. AdvanceTypes'
      BY <2>2, AdvanceFrame
    <2> QED
      BY <2>2, <2>3, <2>4, <2>5, <2>6, RunFrame, CommandFrame
  <1>3. ASSUME \/ RunStops(e) \/ RunSuspends(e) \/ RunTakesInput(e) \/ RunAsksModel(e)
               \/ RunContinues(e) \/ RunAnswers(e) \/ RunCompletes(e) \/ DriveDrops(e)
        PROVE  TypeOK'
    <2>1. /\ UNCHANGED <<rowVars, current, propagated, boxVars, exec, runOf, taken, driveFrame, budget>>
          /\ \E to \in Drives : epc' = [epc EXCEPT ![e] = to]
      BY <1>3 DEF RunStops, RunSuspends, RunTakesInput, RunAsksModel, RunContinues, RunAnswers,
         RunCompletes, DriveDrops, Drives
    <2>2. status' = status \/ \E t \in Transitions : Transit(runOf[e], t)
      BY <1>3 DEF RunStops, RunSuspends, RunTakesInput, RunAsksModel, RunContinues, RunAnswers,
         RunCompletes, DriveDrops, Transitions
    <2>3. RunTypes'
      BY <2>1, <2>2, TransitTyped DEF RunTypes
    <2>4. FlagTypes'
      <3>1. waitFlag' = waitFlag \/ waitFlag' \in BOOLEAN
        BY <1>3 DEF RunStops, RunSuspends, RunTakesInput, RunAsksModel, RunContinues, RunAnswers,
           RunCompletes, DriveDrops
      <3>2. stopping' = stopping /\ stopped' = stopped
        BY <2>1
      <3> QED
        BY <3>1, <3>2, Zenon DEF FlagTypes
    <2>5. ExecTypes'
      BY <2>1 DEF ExecTypes
    <2> QED
      BY <2>1, <2>3, <2>4, <2>5, RowFrame, BoxFrame, AdvanceFrame, CommandFrame
  <1> QED
    BY <1>1, <1>2, <1>3 DEF DriveStep

-----------------------------------------------------------------------------
(* The callback of an execution.                                           *)

(* AfterCancelled may add a row: every group that knows rows.              *)
LEMMA AfterCancelledTyped ==
  ASSUME TypeOK, NEW run \in 0..MaxRun, NEW reason, AfterCancelled(run, reason),
         UNCHANGED <<boxVars, loopVars, advVars>>, gate' \in {gate, Free}
  PROVE  /\ RowTypes' /\ BoxTypes' /\ AdvanceTypes'
         /\ propagated' \subseteq 0..MaxRun
  <1> USE DEF TypeOK, rowVars, runVars, boxVars, loopVars, advVars
  <1>1. propagated' \subseteq 0..MaxRun
    BY DEF AfterCancelled, RunTypes
  <1>2. CASE UNCHANGED rowVars
    BY <1>1, <1>2, RowFrame, BoxFrame, AdvanceFrame
  <1>3. CASE Enqueue("system_notice", "next_run", NoRun)
    <2>1. "system_notice" \in Kinds /\ "next_run" \in Deliveries /\ NoRun \in 0..MaxRun
      BY ActorAssumption DEF Kinds, Deliveries, NoRun, ActorAssumption
    <2>2. RowTypes' /\ Rows \subseteq Rows' /\ issued' \in Nat /\ issued <= issued'
      BY <1>3, <2>1, EnqueueTyped
    <2>3. BoxTypes' /\ AdvanceTypes'
      BY <2>2, MoreRows
    <2> QED
      BY <1>1, <2>2, <2>3
  <1> QED
    BY <1>2, <1>3 DEF AfterCancelled

LEMMA TypeTail ==
  ASSUME TypeOK, NEW e \in Execs, TailStep(e)
  PROVE  TypeOK'
  <1> USE DEF TypeOK, rowVars, runVars, boxVars, execVars, loopVars, advVars, stopVars, tailFrame
  <1>1. /\ UNCHANGED <<boxVars, exec, waitFlag, signal, gate, snap, loopVars, cpc, stopVars, budget>>
        /\ \/ Finish(e)
           \/ \E to \in Tails : TailMoves(e, to)
    BY DEF TailStep, TailReads, TailCancels, TailNotifies, TailContinues, Tails
  <1>2. ExecTypes'
    <2>1. CASE Finish(e)
      BY <1>1, <2>1, EndTyped, ProcessNames DEF Finish, ExecTypes
    <2>2. CASE \E to \in Tails : TailMoves(e, to)
      BY <1>1, <2>2 DEF TailMoves, ExecTypes
    <2> QED
      BY <1>1, <2>1, <2>2
  <1>3. CommandTypes' /\ FlagTypes'
    BY <1>1, CommandFrame, FlagFrame
  <1>4. CASE TailReads(e) \/ TailCancels(e)
    <2>1. UNCHANGED <<rowVars, current, propagated, snap, advVars>>
      BY <1>4 DEF TailReads, TailCancels
    <2>2. status' = status \/ Transit(runOf[e], "CANCEL")
      BY <1>4 DEF TailReads, TailCancels
    <2>3. RunTypes'
      BY <2>1, <2>2, TransitTyped DEF RunTypes, Transitions
    <2> QED
      BY <1>1, <1>2, <1>3, <2>1, <2>3, RowFrame, BoxFrame, AdvanceFrame
  <1>5. CASE TailNotifies(e)
    <2>1. /\ AfterCancelled(runOf[e], IF taken[e] = "none" THEN "user" ELSE taken[e])
          /\ UNCHANGED <<status, current, snap, advVars>>
      BY <1>5 DEF TailNotifies
    <2>2. runOf[e] \in 0..MaxRun
      BY DEF ExecTypes
    <2>3. RowTypes' /\ BoxTypes' /\ AdvanceTypes' /\ propagated' \subseteq 0..MaxRun
      BY <1>1, <2>1, <2>2, AfterCancelledTyped
    <2> QED
      BY <1>2, <1>3, <2>1, <2>3 DEF RunTypes
  <1>6. CASE TailContinues(e)
    <2>1. UNCHANGED <<rowVars, runVars, snap>>
      BY <1>6 DEF TailContinues
    <2>2. Rows' = Rows
      BY <2>1, RowFrame
    <2>3. AdvanceTypes'
      <3>1. CASE UNCHANGED advVars
        BY <1>1, <2>1, <3>1, AdvanceFrame
      <3>2. CASE /\ apc' = [apc EXCEPT ![e] = "gate"]
                 /\ apending' = [apending EXCEPT ![e] = queue]
                 /\ afresh' = [afresh EXCEPT ![e] = queue]
        BY <1>1, <2>1, <2>2, <3>2, ProcessNames DEF AdvanceTypes, RowTypes
      <3> QED
        BY <1>6, <3>1, <3>2 DEF TailContinues
    <2> QED
      BY <1>1, <1>2, <1>3, <2>1, <2>3, RowFrame, RunFrame, BoxFrame
  <1> QED
    BY <1>4, <1>5, <1>6 DEF TailStep

-----------------------------------------------------------------------------
(* The loop, the commands and stop.                                        *)

LEMMA SpendTyped ==
  ASSUME TypeOK, NEW event, Spend(event)
  PROVE  budget' \in [Events -> Nat]
  <1>1. CASE event \in Events
    BY <1>1 DEF TypeOK, CommandTypes, Spend
  <1>2. CASE event \notin Events
    BY <1>2 DEF TypeOK, CommandTypes, Spend
  <1> QED
    BY <1>1, <1>2

LEMMA LoopAdvancesTyped ==
  ASSUME TypeOK, NEW pending \in SUBSET Rows, NEW fresh \in SUBSET Rows,
         LoopAdvances(pending, fresh), watermark' \in 0..issued,
         UNCHANGED <<rowVars, gate>>
  PROVE  AdvanceTypes'
  <1>1. Rows' = Rows
    BY RowFrame DEF TypeOK
  <1> QED
    BY <1>1, ProcessNames DEF TypeOK, RowTypes, AdvanceTypes, LoopAdvances, rowVars

LEMMA TypeLoop ==
  ASSUME TypeOK, LoopWakes \/ LoopDrained \/ LoopHalts
  PROVE  TypeOK'
  <1> USE DEF TypeOK, rowVars, runVars, boxVars, execVars, loopVars, advVars, stopVars
  <1>0. Rows' = Rows
    BY RowFrame DEF LoopWakes, LoopDrained, LoopHalts
  <1>1. CASE LoopWakes
    <2>1. /\ UNCHANGED <<rowVars, runVars, boxVars, execVars, signal, gate, snap, cpc, stopVars, budget>>
          /\ watermark' \in 0..issued
      BY <1>1 DEF LoopWakes, Fresh, RowTypes, Rows
    <2>2. queue \in SUBSET Rows /\ Fresh \in SUBSET Rows
      BY DEF RowTypes, Fresh
    <2>3. CASE Driving /\ signal # "none"
      <3>1. /\ lpc' = "drain" /\ handled' = handled /\ apc' = apc
            /\ awaited' = [awaited EXCEPT !["loop"] = exec]
            /\ apending' = [apending EXCEPT !["loop"] = queue]
            /\ afresh' = [afresh EXCEPT !["loop"] = Fresh]
        BY <1>1, <2>3 DEF LoopWakes
      <3>2. AdvanceTypes'
        BY <1>0, <2>1, <2>2, <3>1 DEF AdvanceTypes
      <3>3. ExecTypes'
        BY <2>1, <3>1 DEF ExecTypes
      <3> QED
        BY <2>1, <3>2, <3>3, RowFrame, RunFrame, BoxFrame, CommandFrame, FlagFrame
    <2>4. CASE ~(Driving /\ signal # "none")
      <3>1. LoopAdvances(queue, Fresh) /\ UNCHANGED awaited
        BY <1>1, <2>4 DEF LoopWakes
      <3>2. AdvanceTypes'
        BY <2>1, <2>2, <3>1, LoopAdvancesTyped
      <3> QED
        BY <2>1, <3>1, <3>2, RowFrame, RunFrame, BoxFrame, ExecFrame, CommandFrame, FlagFrame
    <2> QED
      BY <2>3, <2>4
  <1>2. CASE LoopDrained
    <2>1. /\ UNCHANGED <<rowVars, runVars, boxVars, execVars, signal, gate, snap, awaited, cpc,
                         stopVars, budget>>
          /\ watermark' \in 0..issued
          /\ LoopAdvances(apending["loop"], afresh["loop"])
      BY <1>2 DEF LoopDrained, AdvanceTypes
    <2>2. apending["loop"] \in SUBSET Rows /\ afresh["loop"] \in SUBSET Rows
      BY ProcessNames DEF AdvanceTypes
    <2>3. AdvanceTypes'
      BY <2>1, <2>2, LoopAdvancesTyped
    <2> QED
      BY <2>1, <2>3, RowFrame, RunFrame, BoxFrame, ExecFrame, CommandFrame, FlagFrame
  <1>3. CASE LoopHalts
    <2>1. /\ UNCHANGED <<rowVars, runVars, boxVars, execVars, signal, gate, snap, watermark,
                         handled, awaited, advVars, cpc, stopping, spc>>
          /\ lpc' = "halted" /\ stopped' = TRUE /\ Spend("queue")
      BY <1>3 DEF LoopHalts
    <2>2. AdvanceTypes'
      BY <1>0, <2>1 DEF AdvanceTypes
    <2>4. CommandTypes'
      BY <2>1, SpendTyped DEF CommandTypes
    <2>3. FlagTypes'
      BY <2>1, Zenon DEF FlagTypes
    <2> QED
      BY <2>1, <2>2, <2>3, <2>4, RowFrame, RunFrame, BoxFrame, ExecFrame
  <1> QED
    BY <1>1, <1>2, <1>3

LEMMA CommandTyped ==
  ASSUME TypeOK, NEW c \in Commands,
         \/ cpc' = cpc
         \/ \E to \in {"off", "gate", "decide", "transit", "notify", "start"} :
              cpc' = [cpc EXCEPT ![c] = to],
         UNCHANGED <<spc, budget>>
  PROVE  CommandTypes'
  BY DEF TypeOK, CommandTypes

LEMMA TypeCancel ==
  ASSUME TypeOK, NEW c \in Reasons, CancelStep(c)
  PROVE  TypeOK'
  <1> USE DEF TypeOK, rowVars, runVars, boxVars, execVars, loopVars, advVars, stopVars, cmdFrame
  <1>1. c \in Commands /\ c \in Procs /\ Rows = Rows
    BY ProcessNames
  <1>2. /\ UNCHANGED <<execVars, boxVars, loopVars, awaited, advVars, stopVars, budget, current>>
        /\ gate' \in {gate, c, Free}
        /\ signal' \in {signal, c}
        /\ snap' = snap \/ Read(c) \/ Settle(c) \/ Forget(c)
        /\ status' = status \/ Transit(snap[c].run, "CANCEL")
        /\ \/ cpc' = cpc
           \/ \E to \in {"off", "gate", "decide", "transit", "notify", "start"} :
                cpc' = [cpc EXCEPT ![c] = to]
    BY DEF CancelStep, CancelTakesGate, CancelDecides, CancelSuspended, CancelNotifies,
       RequestCancel, CommandEnds, CommandMoves
  <1>3. CommandTypes' /\ FlagTypes'
    BY <1>1, <1>2, CommandTyped, FlagFrame
  <1>4. ExecTypes'
    BY <1>2 DEF ExecTypes, Signals
  <1>5. snap' \in [Procs -> [run : 0..MaxRun, st : Statuses \cup {"none"}]]
    BY <1>1, <1>2, SnapTyped DEF RunTypes
  <1>6. status' \in [Runs -> Statuses \cup {"none"}]
    BY <1>2, TransitTyped DEF RunTypes, Transitions
  <1>7. CASE CancelNotifies(c)
    <2>1. snap[c].run \in 0..MaxRun
      BY <1>1 DEF RunTypes
    <2>2. AfterCancelled(snap[c].run, c) /\ gate' = Free
      BY <1>7 DEF CancelNotifies, CommandEnds
    <2>3. propagated' \subseteq 0..MaxRun
      BY <2>1, <2>2 DEF AfterCancelled, RunTypes
    <2>4. RowTypes' /\ BoxTypes' /\ AdvanceTypes'
      BY <1>2, <2>1, <2>2, AfterCancelledTyped DEF AdvanceTypes
    <2> QED
      BY <1>2, <1>3, <1>4, <1>5, <1>6, <2>3, <2>4 DEF RunTypes
  <1>8. CASE CancelTakesGate(c) \/ CancelDecides(c) \/ CancelSuspended(c)
    <2>1. UNCHANGED <<rowVars, propagated>>
      BY <1>8 DEF CancelTakesGate, CancelDecides, CancelSuspended
    <2>2. RunTypes'
      BY <1>2, <1>5, <1>6, <2>1 DEF RunTypes
    <2>3. AdvanceTypes'
      <3>1. Rows' = Rows
        BY <2>1, RowFrame
      <3>2. gate' \in Procs \cup {Free}
        BY <1>1, <1>2 DEF AdvanceTypes
      <3>3. UNCHANGED <<issued, lpc, watermark, handled, apc, apending, afresh>>
        BY <1>2, <2>1
      <3> QED
        BY <3>1, <3>2, <3>3 DEF AdvanceTypes
    <2> QED
      BY <1>2, <1>3, <1>4, <2>1, <2>2, <2>3, RowFrame, BoxFrame
  <1> QED
    BY <1>7, <1>8 DEF CancelStep

LEMMA TypeResume ==
  ASSUME TypeOK, ResumeStep
  PROVE  TypeOK'
  <1> USE DEF TypeOK, rowVars, runVars, boxVars, execVars, loopVars, advVars, stopVars, cmdFrame
  <1>1. "resume" \in Commands /\ "resume" \in Procs
    BY ProcessNames
  <1>2. /\ UNCHANGED <<rowVars, loopVars, awaited, advVars, stopVars, budget, current, signal>>
        /\ gate' \in {gate, "resume", Free}
        /\ snap' = snap \/ Read("resume") \/ Settle("resume") \/ Forget("resume")
        /\ status' = status \/ Transit(snap["resume"].run, "RESUME")
        /\ propagated' \subseteq propagated
        /\ \/ cpc' = cpc
           \/ \E to \in {"off", "gate", "decide", "transit", "notify", "start"} :
                cpc' = [cpc EXCEPT !["resume"] = to]
    BY DEF ResumeStep, ResumeTakesGate, ResumeDecides, ResumeTransits, ResumeStarts,
       CommandEnds, CommandMoves
  <1>3. CommandTypes'
    BY <1>1, <1>2, CommandTyped
  <1>4. snap' \in [Procs -> [run : 0..MaxRun, st : Statuses \cup {"none"}]]
    BY <1>1, <1>2, SnapTyped DEF RunTypes
  <1>5. status' \in [Runs -> Statuses \cup {"none"}]
    BY <1>2, TransitTyped DEF RunTypes, Transitions
  <1>6. RunTypes'
    BY <1>2, <1>4, <1>5 DEF RunTypes
  <1>7. AdvanceTypes'
    <2>1. Rows' = Rows
      BY <1>2, RowFrame
    <2>2. gate' \in Procs \cup {Free}
      BY <1>1, <1>2 DEF AdvanceTypes
    <2>3. UNCHANGED <<issued, lpc, watermark, handled, apc, apending, afresh>>
      BY <1>2
    <2> QED
      BY <2>1, <2>2, <2>3 DEF AdvanceTypes
  <1>8. CASE ResumeStarts
    <2>1. StartExecution("resume", snap["resume"].run, queue, FALSE)
      BY <1>8 DEF ResumeStarts
    <2>2. snap["resume"].run \in 0..MaxRun /\ queue \in SUBSET Rows
      BY <1>1 DEF RunTypes, RowTypes
    <2>3. awaited' \in [Waiters -> Execs \cup {NoExec}]
      BY <1>2 DEF ExecTypes
    <2>4. BoxTypes' /\ ExecTypes'
      BY <1>2, <2>1, <2>2, <2>3, StartTyped
    <2>5. FlagTypes'
      <3>1. waitFlag' = FALSE
        BY <2>1 DEF StartExecution
      <3>2. stopping' = stopping /\ stopped' = stopped
        BY <1>2
      <3> QED
        BY <3>1, <3>2, Zenon DEF FlagTypes
    <2> QED
      BY <1>2, <1>3, <1>6, <1>7, <2>4, <2>5, RowFrame
  <1>9. CASE ResumeTakesGate \/ ResumeDecides \/ ResumeTransits
    <2>1. UNCHANGED <<boxVars, execVars>>
      BY <1>9 DEF ResumeTakesGate, ResumeDecides, ResumeTransits
    <2> QED
      BY <1>2, <1>3, <1>6, <1>7, <2>1, RowFrame, BoxFrame, ExecFrame, FlagFrame
  <1> QED
    BY <1>8, <1>9 DEF ResumeStep

LEMMA HaltTyped ==
  ASSUME TypeOK, HaltLoop, UNCHANGED <<rowVars, watermark, handled>>
  PROVE  /\ AdvanceTypes' /\ spc' = "done"
         /\ stopped' = TRUE
         /\ snap' \in [Procs -> [run : 0..MaxRun, st : Statuses \cup {"none"}]]
         /\ awaited' \in [Waiters -> Execs \cup {NoExec}]
  <1> USE DEF TypeOK
  <1>1. Rows' = Rows /\ issued' = issued
    BY RowFrame DEF rowVars
  <1>2. snap' \in [Procs -> [run : 0..MaxRun, st : Statuses \cup {"none"}]]
    BY ProcessNames, SnapTyped DEF HaltLoop, RunTypes
  <1>3. awaited' \in [Waiters -> Execs \cup {NoExec}]
    BY DEF HaltLoop, ExecTypes
  <1>4. apc' \in [Advancers -> Critical \cup {"off", "gate", "strayWake", "strayCreate"}]
    BY DEF HaltLoop, AdvanceTypes
  <1>5. apending' \in [Advancers -> SUBSET Rows] /\ afresh' \in [Advancers -> SUBSET Rows]
    BY DEF HaltLoop, AdvanceTypes
  <1>6. gate' \in Procs \cup {Free} /\ lpc' = "halted"
    BY DEF HaltLoop, AdvanceTypes
  <1>7. AdvanceTypes'
    BY <1>1, <1>4, <1>5, <1>6 DEF AdvanceTypes
  <1> QED
    BY <1>2, <1>3, <1>7 DEF HaltLoop

LEMMA TypeStop ==
  ASSUME TypeOK, StopBegins \/ StopStep
  PROVE  TypeOK'
  <1> USE DEF TypeOK, rowVars, runVars, boxVars, execVars, loopVars, advVars, stopVars, stopFrame
  <1>1. UNCHANGED <<rowVars, boxVars, execVars, watermark, handled, cpc>>
    BY DEF StopBegins, StopStep, StopWaits, StopHalts, StrayCommit
  <1>2. Rows' = Rows
    BY <1>1, RowFrame
  <1>3. CASE StopBegins
    <2>1. /\ stopping' = TRUE /\ UNCHANGED runVars
          /\ budget' \in [Events -> Nat]
      BY <1>3, SpendTyped DEF StopBegins
    <2>2. CASE Driving
      <3>1. /\ signal' \in {signal, "parent"} /\ spc' = "teams"
            /\ UNCHANGED <<stopped, lpc, advVars, awaited, snap, gate>>
        BY <1>3, <2>2 DEF StopBegins, RequestCancel
      <3>2. CommandTypes'
        BY <1>1, <2>1, <3>1 DEF CommandTypes
      <3>3. ExecTypes'
        BY <1>1, <3>1 DEF ExecTypes, Signals, Reasons
      <3>4. FlagTypes'
        BY <1>1, <2>1, <3>1, Zenon DEF FlagTypes
      <3> QED
        BY <1>1, <2>1, <3>1, <3>2, <3>3, <3>4, RowFrame, RunFrame, BoxFrame, AdvanceFrame
    <2>3. CASE ~Driving
      <3>1. HaltLoop /\ UNCHANGED signal
        BY <1>3, <2>3 DEF StopBegins
      <3>2. /\ AdvanceTypes' /\ spc' = "done" /\ stopped' = TRUE
            /\ snap' \in [Procs -> [run : 0..MaxRun, st : Statuses \cup {"none"}]]
            /\ awaited' \in [Waiters -> Execs \cup {NoExec}]
        BY <1>1, <3>1, HaltTyped
      <3>3. CommandTypes'
        BY <1>1, <2>1, <3>2 DEF CommandTypes
      <3>4. ExecTypes' /\ RunTypes'
        BY <1>1, <2>1, <3>1, <3>2 DEF ExecTypes, RunTypes
      <3>5. FlagTypes'
        BY <1>1, <2>1, <3>2, Zenon DEF FlagTypes
      <3> QED
        BY <1>1, <3>2, <3>3, <3>4, <3>5, RowFrame, BoxFrame
    <2> QED
      BY <2>2, <2>3
  <1>4. CASE StopWaits
    <2>1. /\ UNCHANGED <<runVars, signal, gate, snap, lpc, advVars, stopping, stopped, budget>>
          /\ spc' = "wait" /\ awaited' = [awaited EXCEPT !["stop"] = exec]
      BY <1>4 DEF StopWaits
    <2>2. CommandTypes' /\ ExecTypes'
      BY <1>1, <2>1 DEF CommandTypes, ExecTypes
    <2> QED
      BY <1>1, <2>1, <2>2, RowFrame, RunFrame, BoxFrame, AdvanceFrame, FlagFrame
  <1>5. CASE StopHalts
    <2>1. HaltLoop /\ UNCHANGED <<runVars, signal, stopping, budget>>
      BY <1>5 DEF StopHalts
    <2>2. /\ AdvanceTypes' /\ spc' = "done" /\ stopped' = TRUE
          /\ snap' \in [Procs -> [run : 0..MaxRun, st : Statuses \cup {"none"}]]
          /\ awaited' \in [Waiters -> Execs \cup {NoExec}]
      BY <1>1, <2>1, HaltTyped
    <2>3. CommandTypes' /\ ExecTypes' /\ RunTypes'
      BY <1>1, <2>1, <2>2 DEF CommandTypes, ExecTypes, RunTypes
    <2>4. FlagTypes'
      BY <1>1, <2>1, <2>2, Zenon DEF FlagTypes
    <2> QED
      BY <1>1, <2>2, <2>3, <2>4, RowFrame, BoxFrame
  <1>6. CASE StrayCommit
    <2>1. /\ UNCHANGED <<signal, gate, lpc, awaited, apending, afresh, stopVars, budget>>
          /\ apc' = [apc EXCEPT !["loop"] = "off"]
          /\ Forget("loop")
          /\ \/ Transit(snap["loop"].run, "WAKE") /\ UNCHANGED <<current, propagated>>
             \/ OpenRun
      BY <1>6 DEF StrayCommit
    <2>2. AdvanceTypes'
      BY <1>1, <1>2, <2>1 DEF AdvanceTypes
    <2>3. snap' \in [Procs -> [run : 0..MaxRun, st : Statuses \cup {"none"}]]
      BY <2>1, ProcessNames, SnapTyped
    <2>4. CASE OpenRun
      <3>1. /\ current' \in 0..MaxRun /\ UNCHANGED propagated
            /\ status' = [status EXCEPT ![current + 1] = "running"]
        BY <2>4, ActorAssumption DEF OpenRun, RunTypes, ActorAssumption
      <3>2. RunTypes'
        BY <2>3, <3>1 DEF RunTypes, Statuses
      <3> QED
        BY <1>1, <2>1, <2>2, <3>2, RowFrame, BoxFrame, ExecFrame, CommandFrame, FlagFrame
    <2>5. CASE Transit(snap["loop"].run, "WAKE") /\ UNCHANGED <<current, propagated>>
      <3>1. RunTypes'
        BY <2>3, <2>5, TransitTyped DEF RunTypes, Transitions
      <3> QED
        BY <1>1, <2>1, <2>2, <3>1, RowFrame, BoxFrame, ExecFrame, CommandFrame, FlagFrame
    <2> QED
      BY <2>1, <2>4, <2>5
  <1> QED
    BY <1>3, <1>4, <1>5, <1>6 DEF StopStep

-----------------------------------------------------------------------------
(* Outside events and failures.                                            *)

LEMMA TypePut ==
  ASSUME TypeOK, NEW c \in Classes, Put(c)
  PROVE  TypeOK'
  <1> USE DEF TypeOK, rowVars, runVars, boxVars, execVars, loopVars, advVars, stopVars
  <1> DEFINE owner == IF c.owned THEN current ELSE NoRun
  <1>1. c.kind \in Kinds /\ c.delivery \in Deliveries
    BY ActorAssumption DEF ActorAssumption
  <1>2. owner \in 0..MaxRun
    BY ActorAssumption DEF ActorAssumption, RunTypes, NoRun
  <1>3. Enqueue(c.kind, c.delivery, owner)
    BY DEF Put
  <1> HIDE DEF owner
  <1>4. RowTypes' /\ Rows \subseteq Rows' /\ issued' \in Nat /\ issued <= issued'
    BY <1>1, <1>2, <1>3, EnqueueTyped
  <1>5. UNCHANGED <<runVars, boxVars, execVars, signal, gate, snap, loopVars, awaited, advVars, cpc,
                   stopVars>>
    BY DEF Put
  <1>6. BoxTypes' /\ AdvanceTypes'
    BY <1>4, <1>5, MoreRows
  <1>7. CommandTypes'
    BY <1>5, SpendTyped DEF Put, CommandTypes
  <1> QED
    BY <1>4, <1>5, <1>6, <1>7, RunFrame, ExecFrame, FlagFrame

LEMMA TypeEnvironment ==
  ASSUME TypeOK, Environment
  PROVE  TypeOK'
  <1> USE DEF TypeOK, rowVars, runVars, boxVars, execVars, loopVars, advVars, stopVars, cmdFrame
  <1>1. ASSUME NEW m \in queue, Withdraw(m) PROVE TypeOK'
    <2>1. /\ UNCHANGED <<issued, context, runVars, boxVars, execVars, signal, gate, snap,
                         loopVars, awaited, advVars, cpc, stopVars>>
          /\ queue' \subseteq queue /\ withdrawn' = withdrawn \cup {m.id}
      BY <1>1 DEF Withdraw
    <2>2. Rows' = Rows
      BY <2>1 DEF Rows
    <2>3. m.id \in 1..issued
      BY DEF RowTypes, Rows
    <2>4. RowTypes'
      BY <2>1, <2>2, <2>3 DEF RowTypes
    <2>5. BoxTypes'
      BY <2>1, <2>2 DEF BoxTypes
    <2>6. CommandTypes'
      BY <1>1, <2>1, SpendTyped DEF Withdraw, CommandTypes
    <2> QED
      BY <2>1, <2>4, <2>5, <2>6, RunFrame, ExecFrame, AdvanceFrame, FlagFrame
  <1>2. ASSUME NEW c \in Reasons, CancelBegins(c) PROVE TypeOK'
    <2>1. /\ UNCHANGED <<rowVars, runVars, execVars, gate, snap, cmdFrame>>
          /\ cpc' = cpc \/ cpc' = [cpc EXCEPT ![c] = "gate"]
          /\ signal' \in {signal, c}
      BY <1>2 DEF CancelBegins, RequestCancel
    <2>2. CommandTypes'
      BY <1>2, <2>1, SpendTyped, ProcessNames DEF CancelBegins, CommandTypes
    <2>3. ExecTypes'
      BY <2>1 DEF ExecTypes, Signals
    <2> QED
      BY <2>1, <2>2, <2>3, RowFrame, RunFrame, BoxFrame, AdvanceFrame, FlagFrame
  <1>3. ASSUME ResumeBegins PROVE TypeOK'
    <2>1. /\ UNCHANGED <<rowVars, runVars, execVars, signal, gate, snap, cmdFrame>>
          /\ cpc' = [cpc EXCEPT !["resume"] = "gate"]
      BY <1>3 DEF ResumeBegins
    <2>2. CommandTypes'
      BY <1>3, <2>1, SpendTyped DEF ResumeBegins, CommandTypes
    <2> QED
      BY <2>1, <2>2, RowFrame, RunFrame, BoxFrame, ExecFrame, AdvanceFrame, FlagFrame
  <1> QED
    BY <1>1, <1>2, <1>3, TypePut, TypeStop DEF Environment

LEMMA TypeFaults ==
  ASSUME TypeOK, Faults
  PROVE  TypeOK'
  <1> USE DEF TypeOK, rowVars, runVars, boxVars, execVars, loopVars, advVars, stopVars, driveFrame
  <1>1. ASSUME NEW a \in Advancers, AdvanceFails(a) PROVE TypeOK'
    <2>1. /\ EndAdvance(a, FALSE)
          /\ epc' = EpcEnd(a) /\ runOf' = RunOfEnd(a) /\ taken' = TakenEnd(a)
          /\ UNCHANGED <<rowVars, boxVars, exec, waitFlag, signal, cpc, stopVars>>
          /\ \/ UNCHANGED runVars
             \/ OpenRun
             \/ Transit(snap[a].run, "WAKE") /\ UNCHANGED <<current, propagated>>
      BY <1>1 DEF AdvanceFails
    <2>2. /\ AdvanceTypes'
          /\ snap' \in [Procs -> [run : 0..MaxRun, st : Statuses \cup {"none"}]]
          /\ awaited' \in [Waiters -> Execs \cup {NoExec}]
      BY <2>1, EndAdvanceTyped
    <2>3. status' \in [Runs -> Statuses \cup {"none"}]
      BY <2>1, TransitTyped DEF RunTypes, OpenRun, Transitions, Statuses
    <2>4. RunTypes'
      <3>1. current' \in 0..MaxRun /\ propagated' = propagated
        BY <2>1, ActorAssumption DEF RunTypes, OpenRun, ActorAssumption
      <3> QED
        BY <2>2, <2>3, <3>1 DEF RunTypes
    <2>5. ExecTypes'
      BY <2>1, <2>2, EndTyped DEF ExecTypes
    <2>6. CommandTypes'
      BY <1>1, <2>1, SpendTyped DEF AdvanceFails, CommandTypes
    <2> QED
      BY <2>1, <2>2, <2>4, <2>5, <2>6, RowFrame, BoxFrame, FlagFrame
  <1>2. ASSUME NEW e \in Execs, RunFails(e) PROVE TypeOK'
    <2>1. /\ UNCHANGED <<rowVars, current, propagated, boxVars, exec, runOf, taken, waitFlag,
                         driveFrame>>
          /\ Transit(runOf[e], "FAIL") /\ epc' = [epc EXCEPT ![e] = "settled"]
      BY <1>2 DEF RunFails
    <2>2. RunTypes'
      BY <2>1, TransitTyped DEF RunTypes, Transitions
    <2>3. ExecTypes'
      BY <2>1 DEF ExecTypes, Drives
    <2>4. CommandTypes'
      BY <1>2, <2>1, SpendTyped DEF RunFails, CommandTypes
    <2> QED
      BY <2>1, <2>2, <2>3, <2>4, RowFrame, BoxFrame, AdvanceFrame, FlagFrame
  <1>3. ASSUME NEW e \in Execs, DriveCrashes(e) PROVE TypeOK'
    <2>1. CommandTypes'
      BY <1>3, SpendTyped DEF DriveCrashes, Release, CommandTypes
    <2> QED
      BY <1>3, <2>1, ReleaseTyped DEF DriveCrashes
  <1> QED
    BY <1>1, <1>2, <1>3, TypeLoop DEF Faults

LEMMA TypeStutter == ASSUME TypeOK, UNCHANGED vars PROVE TypeOK'
  BY RowFrame, RunFrame, BoxFrame, ExecFrame, AdvanceFrame, CommandFrame, FlagFrame
  DEF TypeOK, vars, rowVars, runVars, boxVars, execVars, loopVars, advVars, stopVars

LEMMA TypeNext ==
  ASSUME TypeOK, [Next]_vars
  PROVE  TypeOK'
  <1>1. CASE LoopStep
    BY <1>1, ProcessNames, TypeLoop, TypeAdvance DEF LoopStep
  <1>2. CASE \E e \in Execs : ExecStep(e)
    BY <1>2, ProcessNames, TypeDrive, TypeTail, TypeAdvance DEF ExecStep
  <1>3. CASE \E c \in Reasons : CancelStep(c)
    BY <1>3, TypeCancel
  <1>4. CASE ResumeStep
    BY <1>4, TypeResume
  <1>5. CASE StopStep
    BY <1>5, TypeStop
  <1>6. CASE Environment
    BY <1>6, TypeEnvironment
  <1>7. CASE Faults
    BY <1>7, TypeFaults
  <1>8. CASE Rest \/ UNCHANGED vars
    BY <1>8, TypeStutter DEF Rest
  <1> QED
    BY <1>1, <1>2, <1>3, <1>4, <1>5, <1>6, <1>7, <1>8 DEF Next

(* Every variable of the scheduler keeps its type whatever the actor, its  *)
(* executions, the commands and the failures do (task_actor.py).           *)
THEOREM TypeCorrect == Spec => []TypeOK
  <1>1. Init => TypeOK
    BY TypeInit
  <1>2. TypeOK /\ [Next]_vars => TypeOK'
    BY TypeNext
  <1> QED
    BY <1>1, <1>2, PTL DEF Spec

-----------------------------------------------------------------------------
(* The gate discipline.                                                    *)

ctlVars == <<exec, epc, signal, gate, apc, cpc>>

(* The names of the processes are distinct.                                *)
LEMMA Names ==
  /\ \A e \in Execs : e \notin Commands /\ e # "loop" /\ e # Free /\ e # NoExec
  /\ Execs \subseteq Advancers /\ "loop" \in Advancers
  /\ \A a \in Advancers : a \notin Commands /\ a # Free
  /\ \A c \in Commands : c # Free
  /\ "resume" \in Commands
  BY ActorAssumption DEF Advancers, Commands, Reasons, Free, NoExec

LEMMA ControlInit == Init => ControlInv
  <1> SUFFICES ASSUME Init PROVE ControlInv
    OBVIOUS
  <1> QED
    BY Names DEF Init, ControlInv, ControlTypes, OneExecutor, SignalHasExecutor, GateHeld,
       StartersFindNone, AdvancesInTail, Driving, Drives, Tails, Critical, Holding, Starting

LEMMA ControlStutter ==
  ASSUME ControlInv, UNCHANGED ctlVars
  PROVE  ControlInv'
  BY DEF ctlVars, ControlInv, ControlTypes, OneExecutor, SignalHasExecutor, GateHeld,
       StartersFindNone, AdvancesInTail, Driving

(* With an execution registered nothing is started.                        *)
LEMMA DrivingDelivers ==
  ASSUME Driving, NEW a
  PROVE  Decision(a) = "deliver"
  BY DEF Decision, NextAction, PhaseOf

(* _advance                                                                *)
LEMMA ControlAdvance ==
  ASSUME ControlInv, NEW a \in Advancers, AdvanceStep(a)
  PROVE  ControlInv'
  <1> USE Names DEF ControlInv, ControlTypes, OneExecutor, SignalHasExecutor, GateHeld,
       StartersFindNone, AdvancesInTail, Driving, Drives, Tails, Critical, Holding, Starting
  <1>1. CASE AdvanceTakesGate(a)
    BY <1>1 DEF AdvanceTakesGate, execVars
  <1>2. CASE AdvanceDelivers(a)
    BY <1>2 DEF AdvanceDelivers, EndAdvance, EpcEnd
  <1>3. CASE AdvanceStays(a)
    BY <1>3 DEF AdvanceStays, EndAdvance, EpcEnd
  <1>4. CASE AdvanceClaims(a)
    BY <1>4, DrivingDelivers DEF AdvanceClaims, execVars
  <1>5. CASE AdvanceWakes(a)
    BY <1>5 DEF AdvanceWakes, execVars
  <1>6. CASE AdvanceWakeMisses(a)
    BY <1>6 DEF AdvanceWakeMisses, EndAdvance, EpcEnd
  <1>7. CASE AdvanceCreates(a)
    BY <1>7 DEF AdvanceCreates, execVars
  <1>8. CASE AdvanceStarts(a)
    <2> SUFFICES ASSUME ControlInv, AdvanceStarts(a) PROVE ControlInv'
      BY <1>8
    <2>1. PICK e \in Execs : /\ epc[e] = "off" /\ exec' = e
                              /\ epc' = [EpcEnd(a) EXCEPT ![e] = "prepare"]
      BY DEF AdvanceStarts, StartExecution
    <2>2. exec = NoExec /\ apc[a] \in Starting /\ gate = a /\ apc[e] = "off" /\ a # e
      BY <2>1 DEF AdvanceStarts, StartExecution
    <2>3. apc' = [apc EXCEPT ![a] = "off"] /\ gate' = Free /\ UNCHANGED <<signal, cpc>>
      BY DEF AdvanceStarts, EndAdvance
    <2>4. \A b \in Advancers : apc'[b] \notin Critical
      BY <2>2, <2>3
    <2>5. \A c \in Commands : cpc[c] \notin Holding
      BY <2>2
    <2>6. ControlTypes' /\ OneExecutor'
      BY <2>1, <2>2, <2>3 DEF EpcEnd
    <2>7. AdvancesInTail'
      BY <2>1, <2>2, <2>3 DEF EpcEnd
    <2>8. SignalHasExecutor' /\ GateHeld' /\ StartersFindNone'
      BY <2>1, <2>3, <2>4, <2>5
    <2> QED
      BY <2>6, <2>7, <2>8
  <1> QED
    BY <1>1, <1>2, <1>3, <1>4, <1>5, <1>6, <1>7, <1>8 DEF AdvanceStep

-----------------------------------------------------------------------------
(* The execution that drives a Run, and its callback.                      *)

LEMMA ControlRelease ==
  ASSUME ControlInv, NEW e \in Execs, epc[e] \in Drives, Release(e)
  PROVE  ControlInv'
  <1> USE Names DEF ControlInv, ControlTypes, OneExecutor, SignalHasExecutor, GateHeld,
       StartersFindNone, AdvancesInTail, Driving, Drives, Tails, Critical, Holding, Starting
  <1>1. exec' = NoExec /\ signal' = "none" /\ UNCHANGED <<gate, apc, cpc>>
    BY DEF Release, advVars
  <1>2. epc' = [epc EXCEPT ![e] = "tail"] \/ epc' = [epc EXCEPT ![e] = "off"]
    BY DEF Release, Finish, EpcEnd
  <1>3. e = exec /\ apc[e] = "off"
    OBVIOUS
  <1> QED
    BY <1>1, <1>2, <1>3

LEMMA ControlDrive ==
  ASSUME ControlInv, NEW e \in Execs, DriveStep(e)
  PROVE  ControlInv'
  <1> USE Names DEF ControlInv, ControlTypes, OneExecutor, SignalHasExecutor, GateHeld,
       StartersFindNone, AdvancesInTail, Driving, Drives, Tails, Critical, Holding, Starting
  <1>1. CASE DriveReturns(e)
    BY <1>1, ControlRelease DEF DriveReturns
  <1>2. CASE DriveDropped(e)
    BY <1>2, ControlRelease DEF DriveDropped
  <1>3. CASE \/ RunStops(e) \/ RunSuspends(e) \/ RunTakesInput(e) \/ RunConsumes(e)
             \/ RunClaimsDecision(e) \/ RunAsksModel(e) \/ RunContinues(e)
             \/ RunAnswers(e) \/ RunCompletes(e) \/ DriveDrops(e)
    <2>1. /\ UNCHANGED <<exec, signal, gate, apc, cpc>>
          /\ epc[e] \in Drives
          /\ epc' = epc \/ \E to \in Drives : epc' = [epc EXCEPT ![e] = to]
      BY <1>3 DEF RunStops, RunSuspends, RunTakesInput, RunConsumes, RunClaimsDecision,
         RunAsksModel, RunContinues, RunAnswers, RunCompletes, DriveDrops, execVars,
         driveFrame, advVars
    <2> QED
      BY <2>1
  <1> QED
    BY <1>1, <1>2, <1>3 DEF DriveStep

LEMMA ControlTail ==
  ASSUME ControlInv, NEW e \in Execs, TailStep(e)
  PROVE  ControlInv'
  <1> USE Names DEF ControlInv, ControlTypes, OneExecutor, SignalHasExecutor, GateHeld,
       StartersFindNone, AdvancesInTail, Driving, Drives, Tails, Critical, Holding, Starting
  <1>1. /\ UNCHANGED <<exec, signal, gate, cpc>>
        /\ epc[e] \in Tails \ {"advance"}
    BY DEF TailStep, TailReads, TailCancels, TailNotifies, TailContinues, tailFrame
  <1>2. CASE apc' = apc /\ \E to \in Tails \cup {"off"} : epc' = [epc EXCEPT ![e] = to]
    BY <1>1, <1>2
  <1>3. CASE apc' = [apc EXCEPT ![e] = "gate"] /\ epc' = [epc EXCEPT ![e] = "advance"]
    BY <1>1, <1>3
  <1> QED
    BY <1>2, <1>3 DEF TailStep, TailReads, TailCancels, TailNotifies, TailContinues,
       TailMoves, Finish, EpcEnd, advVars

-----------------------------------------------------------------------------
(* The loop, the commands and stop.                                        *)

LEMMA ControlLoop ==
  ASSUME ControlInv, LoopWakes \/ LoopDrained \/ LoopHalts
  PROVE  ControlInv'
  <1> USE Names DEF ControlInv, ControlTypes, OneExecutor, SignalHasExecutor, GateHeld,
       StartersFindNone, AdvancesInTail, Driving, Drives, Tails, Critical, Holding, Starting
  <1>1. /\ UNCHANGED <<exec, epc, signal, gate, cpc>>
        /\ apc' = apc \/ apc' = [apc EXCEPT !["loop"] = "gate"]
    BY DEF LoopWakes, LoopDrained, LoopHalts, LoopAdvances, execVars, advVars
  <1> QED
    BY <1>1

LEMMA ControlCancel ==
  ASSUME ControlInv, NEW c \in Reasons, CancelStep(c)
  PROVE  ControlInv'
  <1> USE Names DEF ControlInv, ControlTypes, OneExecutor, SignalHasExecutor, GateHeld,
       StartersFindNone, AdvancesInTail, Driving, Drives, Tails, Critical, Holding, Starting
  <1>1. c \in Commands /\ c # "resume"
    BY DEF Commands, Reasons
  <1>2. UNCHANGED <<exec, epc, apc>>
    BY DEF CancelStep, CancelTakesGate, CancelDecides, CancelSuspended, CancelNotifies,
       execVars, cmdFrame, advVars
  <1>3. CASE CancelTakesGate(c)
    <2>1. CASE Driving
      BY <1>1, <1>2, <1>3, <2>1 DEF CancelTakesGate, RequestCancel
    <2>2. CASE ~Driving
      BY <1>1, <1>2, <1>3, <2>2 DEF CancelTakesGate
    <2> QED
      BY <2>1, <2>2
  <1>4. CASE CancelDecides(c) \/ CancelSuspended(c) \/ CancelNotifies(c)
    <2>1. cpc[c] \in Holding /\ gate = c /\ UNCHANGED signal
      BY <1>1, <1>4 DEF CancelDecides, CancelSuspended, CancelNotifies
    <2>2. \/ cpc' = [cpc EXCEPT ![c] = "off"] /\ gate' = Free
          \/ cpc' = [cpc EXCEPT ![c] = "transit"] /\ gate' = gate
          \/ cpc' = [cpc EXCEPT ![c] = "notify"] /\ gate' = gate
      BY <1>4 DEF CancelDecides, CancelSuspended, CancelNotifies, CommandEnds, CommandMoves
    <2> QED
      BY <1>1, <1>2, <2>1, <2>2
  <1> QED
    BY <1>3, <1>4 DEF CancelStep

LEMMA ControlResume ==
  ASSUME ControlInv, ResumeStep
  PROVE  ControlInv'
  <1> USE Names DEF ControlInv, ControlTypes, OneExecutor, SignalHasExecutor, GateHeld,
       StartersFindNone, AdvancesInTail, Driving, Drives, Tails, Critical, Holding, Starting
  <1>1. "resume" \in Commands
    BY DEF Commands
  <1>2. UNCHANGED <<signal, apc>>
    BY DEF ResumeStep, ResumeTakesGate, ResumeDecides, ResumeTransits, ResumeStarts,
       cmdFrame, advVars
  <1>3. CASE ResumeTakesGate
    BY <1>1, <1>2, <1>3 DEF ResumeTakesGate, execVars
  <1>4. CASE ResumeDecides \/ ResumeTransits
    <2>1. cpc["resume"] \in Holding /\ gate = "resume" /\ UNCHANGED <<exec, epc>>
      BY <1>1, <1>4 DEF ResumeDecides, ResumeTransits, execVars
    <2>2. \/ cpc' = [cpc EXCEPT !["resume"] = "off"] /\ gate' = Free
          \/ /\ cpc' = [cpc EXCEPT !["resume"] = "transit"] /\ gate' = gate
             /\ ~Driving
          \/ /\ cpc' = [cpc EXCEPT !["resume"] = "start"] /\ gate' = gate
             /\ ~Driving
      BY <1>4 DEF ResumeDecides, ResumeTransits, CommandEnds, CommandMoves, PhaseOf
    <2> QED
      BY <1>1, <1>2, <2>1, <2>2
  <1>5. CASE ResumeStarts
    <2>1. PICK e \in Execs : /\ epc[e] = "off" /\ exec' = e
                              /\ epc' = [epc EXCEPT ![e] = "prepare"]
      BY <1>1, <1>5 DEF ResumeStarts, StartExecution, EpcEnd
    <2>2. /\ exec = NoExec /\ cpc["resume"] \in Holding /\ gate = "resume"
          /\ apc[e] = "off"
      BY <1>1, <1>5, <2>1 DEF ResumeStarts, StartExecution
    <2>3. cpc' = [cpc EXCEPT !["resume"] = "off"] /\ gate' = Free
      BY <1>5 DEF ResumeStarts, CommandEnds
    <2>4. \A a \in Advancers : apc'[a] \notin Critical
      BY <1>1, <1>2, <2>2
    <2>5. \A c \in Commands : cpc'[c] \notin Holding
      BY <1>1, <2>2, <2>3
    <2>6. ControlTypes' /\ OneExecutor' /\ AdvancesInTail'
      BY <1>1, <1>2, <2>1, <2>2, <2>3
    <2>7. SignalHasExecutor' /\ GateHeld' /\ StartersFindNone'
      BY <1>1, <1>2, <2>1, <2>3, <2>4, <2>5
    <2> QED
      BY <2>6, <2>7
  <1> QED
    BY <1>3, <1>4, <1>5 DEF ResumeStep

(* stop(), wherever it finds the loop.                                     *)
LEMMA ControlHalt ==
  ASSUME ControlInv, HaltLoop, UNCHANGED <<exec, epc, signal, cpc>>
  PROVE  ControlInv'
  <1> USE Names DEF ControlInv, ControlTypes, OneExecutor, SignalHasExecutor, GateHeld,
       StartersFindNone, AdvancesInTail, Driving, Drives, Tails, Critical, Holding, Starting
  <1>1. \A c \in Commands : c # "loop"
    BY DEF Commands, Reasons
  <1>2. \A a \in Advancers : a # "loop" => apc'[a] = apc[a]
    BY DEF HaltLoop
  <1>3. /\ apc' \in [Advancers -> Critical \cup {"off", "gate", "strayWake", "strayCreate"}]
        /\ apc'["loop"] \in {"off", "strayWake", "strayCreate"}
    BY DEF HaltLoop
  <1>4. gate' = IF gate = "loop" THEN Free ELSE gate
    BY DEF HaltLoop
  <1> QED
    BY <1>1, <1>2, <1>3, <1>4

LEMMA ControlStop ==
  ASSUME ControlInv, StopBegins \/ StopStep
  PROVE  ControlInv'
  <1> USE Names DEF ControlInv, ControlTypes, OneExecutor, SignalHasExecutor, GateHeld,
       StartersFindNone, AdvancesInTail, Driving, Drives, Tails, Critical, Holding, Starting
  <1>1. UNCHANGED <<exec, epc, cpc>>
    BY DEF StopBegins, StopStep, StopWaits, StopHalts, StrayCommit, stopFrame, execVars
  <1>2. CASE StopBegins /\ Driving
    BY <1>1, <1>2 DEF StopBegins, RequestCancel, advVars
  <1>3. CASE StopBegins /\ ~Driving
    BY <1>1, <1>3, ControlHalt DEF StopBegins
  <1>4. CASE StopWaits
    BY <1>1, <1>4 DEF StopWaits, advVars
  <1>5. CASE StopHalts
    BY <1>1, <1>5, ControlHalt DEF StopHalts
  <1>6. CASE StrayCommit
    BY <1>1, <1>6 DEF StrayCommit
  <1> QED
    BY <1>2, <1>3, <1>4, <1>5, <1>6 DEF StopStep

-----------------------------------------------------------------------------
(* Outside events and failures.                                            *)

LEMMA ControlEnvironment ==
  ASSUME ControlInv, Environment
  PROVE  ControlInv'
  <1> USE Names DEF ControlInv, ControlTypes, OneExecutor, SignalHasExecutor, GateHeld,
       StartersFindNone, AdvancesInTail, Driving, Drives, Tails, Critical, Holding, Starting
  <1>1. CASE \E c \in Classes : Put(c)
    BY <1>1, ControlStutter DEF Put, ctlVars, execVars, advVars
  <1>2. CASE \E m \in queue : Withdraw(m)
    BY <1>2, ControlStutter DEF Withdraw, ctlVars, execVars, advVars
  <1>3. CASE \E c \in Reasons : CancelBegins(c)
    <2>1. PICK c \in Reasons : CancelBegins(c)
      BY <1>3
    <2>2. c \in Commands /\ c # "resume"
      BY DEF Commands, Reasons
    <2>3. UNCHANGED <<exec, epc, gate, apc>>
      BY <2>1 DEF CancelBegins, execVars, cmdFrame, advVars
    <2>4. \/ Driving /\ UNCHANGED cpc
          \/ cpc' = [cpc EXCEPT ![c] = "gate"] /\ UNCHANGED signal
      BY <2>1 DEF CancelBegins
    <2> QED
      BY <2>2, <2>3, <2>4
  <1>4. CASE ResumeBegins
    <2>1. "resume" \in Commands
      BY DEF Commands
    <2> QED
      BY <1>4, <2>1 DEF ResumeBegins, execVars, cmdFrame, advVars
  <1>5. CASE StopBegins
    BY <1>5, ControlStop
  <1> QED
    BY <1>1, <1>2, <1>3, <1>4, <1>5 DEF Environment

LEMMA ControlFaults ==
  ASSUME ControlInv, Faults
  PROVE  ControlInv'
  <1> USE Names DEF ControlInv, ControlTypes, OneExecutor, SignalHasExecutor, GateHeld,
       StartersFindNone, AdvancesInTail, Driving, Drives, Tails, Critical, Holding, Starting
  <1>1. CASE LoopHalts
    BY <1>1, ControlLoop
  <1>2. ASSUME NEW a \in Advancers, AdvanceFails(a) PROVE ControlInv'
    <2>1. /\ apc' = [apc EXCEPT ![a] = "off"] /\ gate' = Free /\ gate = a
          /\ apc[a] \in Starting
          /\ UNCHANGED <<exec, signal, cpc>>
      BY <1>2 DEF AdvanceFails, EndAdvance
    <2>2. epc' = EpcEnd(a)
      BY <1>2 DEF AdvanceFails
    <2> QED
      BY <2>1, <2>2 DEF EpcEnd
  <1>3. ASSUME NEW e \in Execs, RunFails(e) PROVE ControlInv'
    <2>1. /\ UNCHANGED <<exec, signal, gate, apc, cpc>>
          /\ epc[e] \in Drives
          /\ epc' = [epc EXCEPT ![e] = "settled"]
      BY <1>3 DEF RunFails, driveFrame, advVars
    <2> QED
      BY <2>1
  <1>4. ASSUME NEW e \in Execs, DriveCrashes(e) PROVE ControlInv'
    BY <1>4, ControlRelease DEF DriveCrashes
  <1> QED
    BY <1>1, <1>2, <1>3, <1>4 DEF Faults

-----------------------------------------------------------------------------
LEMMA ControlNext ==
  ASSUME ControlInv, [Next]_vars
  PROVE  ControlInv'
  <1>1. CASE LoopStep
    <2>1. "loop" \in Advancers
      BY DEF Advancers
    <2> QED
      BY <1>1, <2>1, ControlLoop, ControlAdvance DEF LoopStep
  <1>2. CASE \E e \in Execs : ExecStep(e)
    <2>1. Execs \subseteq Advancers
      BY DEF Advancers
    <2> QED
      BY <1>2, <2>1, ControlDrive, ControlTail, ControlAdvance DEF ExecStep
  <1>3. CASE \E c \in Reasons : CancelStep(c)
    BY <1>3, ControlCancel
  <1>4. CASE ResumeStep
    BY <1>4, ControlResume
  <1>5. CASE StopStep
    BY <1>5, ControlStop
  <1>6. CASE Environment
    BY <1>6, ControlEnvironment
  <1>7. CASE Faults
    BY <1>7, ControlFaults
  <1>8. CASE Rest \/ UNCHANGED vars
    BY <1>8, ControlStutter DEF Rest, vars, ctlVars, execVars, advVars
  <1> QED
    BY <1>1, <1>2, <1>3, <1>4, <1>5, <1>6, <1>7, <1>8 DEF Next

(* The gate discipline of a Task: whoever decides or starts holds the      *)
(* Task lock, starts only with no execution registered, and callbacks      *)
(* advance only after their own release (task_actor.py, task_execution.py). *)
THEOREM ControlAlways == Spec => []ControlInv
  <1>1. Init => ControlInv
    BY ControlInit
  <1>2. ControlInv /\ [Next]_vars => ControlInv'
    BY ControlNext
  <1> QED
    BY <1>1, <1>2, PTL DEF Spec

(* A Task never has two executors: the asyncio task that drives a Run is   *)
(* always the one TaskExecution has registered.                            *)
THEOREM OneExecutorAlways == Spec => []OneExecutor
  <1>1. ControlInv => OneExecutor
    BY DEF ControlInv
  <1> QED
    BY <1>1, ControlAlways, PTL

(* A cancellation signal never outlives the execution it was meant for, so *)
(* it cannot stop the next one.                                            *)
THEOREM SignalHasExecutorAlways == Spec => []SignalHasExecutor
  <1>1. ControlInv => SignalHasExecutor
    BY DEF ControlInv
  <1> QED
    BY <1>1, ControlAlways, PTL

(* TaskExecution.start never finds an execution already registered: the    *)
(* one that wakes, opens or resumes a Run holds the gate and is alone.     *)
THEOREM StartsAloneAlways == Spec => []StartsAlone
  <1>1. ControlInv => StartsAlone
    BY DEF ControlInv, GateHeld, StartersFindNone, StartsAlone, Critical, Starting,
       Holding, Commands
  <1> QED
    BY <1>1, ControlAlways, PTL

=============================================================================
