-------------------------- MODULE TaskActorRunProofs --------------------------
(***************************************************************************)
(* What happens to the messages of a Task and to its Runs, for any number  *)
(* of messages, Runs, executions and outside events.                       *)
(***************************************************************************)
EXTENDS TaskActorProofs, WellFoundedInduction

-----------------------------------------------------------------------------
(***************************************************************************)
(* The messages of a Task and the cancellation of its Runs.                *)
(***************************************************************************)

(* The four ways in which the queue and the context change.                *)

LEMMA AfterCancelledRows ==
  ASSUME NEW run, NEW reason, AfterCancelled(run, reason)
  PROVE  \/ UNCHANGED rowVars
         \/ Enqueue("system_notice", "next_run", NoRun)
  BY DEF AfterCancelled

RowsStep ==
  \/ UNCHANGED rowVars
  \/ \E kind \in Kinds, delivery \in Deliveries, owner \in 0..MaxRun :
       Enqueue(kind, delivery, owner)
  \/ \E m \in queue : Withdraw(m)
  \/ \E e \in Execs : /\ epc[e] \in {"prepare", "consume"}
                      /\ \E x \in mailbox : Confirm(e, x)
                      /\ UNCHANGED <<issued, withdrawn>>

LEMMA NoticeRows ==
  ASSUME Enqueue("system_notice", "next_run", NoRun)
  PROVE  RowsStep
  <1>1. /\ "system_notice" \in Kinds
        /\ "next_run" \in Deliveries
        /\ NoRun \in 0..MaxRun
    BY ActorAssumption DEF Kinds, Deliveries, NoRun, ActorAssumption
  <1> QED
    BY <1>1 DEF RowsStep

LEMMA NextRows ==
  ASSUME TypeOK, [Next]_vars
  PROVE  RowsStep
  <1>1. CASE LoopStep
    <2>1. \A a : AdvanceStep(a) => UNCHANGED rowVars
      BY DEF AdvanceStep, AdvanceTakesGate, AdvanceDelivers, AdvanceStays, AdvanceClaims,
         AdvanceWakes, AdvanceWakeMisses, AdvanceCreates, AdvanceStarts
    <2>2. LoopWakes \/ LoopDrained => UNCHANGED rowVars
      BY DEF LoopWakes, LoopDrained
    <2> QED
      BY <1>1, <2>1, <2>2 DEF LoopStep, RowsStep
  <1>2. ASSUME NEW e \in Execs, DriveStep(e) PROVE RowsStep
    <2>1. CASE RunConsumes(e)
      BY <2>1 DEF RunConsumes, RowsStep
    <2>2. CASE RunClaimsDecision(e)
      BY <2>2 DEF RunClaimsDecision, RowsStep
    <2>3. CASE ~RunConsumes(e) /\ ~RunClaimsDecision(e)
      <3>1. UNCHANGED rowVars
        BY <1>2, <2>3 DEF DriveStep, RunStops, RunSuspends, RunTakesInput, RunAsksModel,
           RunContinues, RunAnswers, RunCompletes, DriveReturns, DriveDrops, DriveDropped,
           Release
      <3> QED
        BY <3>1 DEF RowsStep
    <2> QED
      BY <2>1, <2>2, <2>3
  <1>3. ASSUME NEW e \in Execs, TailStep(e) PROVE RowsStep
    <2>1. CASE TailNotifies(e)
      BY <2>1, AfterCancelledRows, NoticeRows DEF TailNotifies, RowsStep
    <2>2. CASE TailReads(e) \/ TailCancels(e) \/ TailContinues(e)
      BY <2>2 DEF TailReads, TailCancels, TailContinues, RowsStep
    <2> QED
      BY <1>3, <2>1, <2>2 DEF TailStep
  <1>4. ASSUME NEW a, AdvanceStep(a) PROVE RowsStep
    BY <1>4 DEF AdvanceStep, AdvanceTakesGate, AdvanceDelivers, AdvanceStays, AdvanceClaims,
       AdvanceWakes, AdvanceWakeMisses, AdvanceCreates, AdvanceStarts, RowsStep
  <1>5. ASSUME NEW c \in Reasons, CancelStep(c) PROVE RowsStep
    <2>1. CASE CancelNotifies(c)
      BY <2>1, AfterCancelledRows, NoticeRows DEF CancelNotifies, RowsStep
    <2>2. CASE CancelTakesGate(c) \/ CancelDecides(c) \/ CancelSuspended(c)
      BY <2>2 DEF CancelTakesGate, CancelDecides, CancelSuspended, RowsStep
    <2> QED
      BY <1>5, <2>1, <2>2 DEF CancelStep
  <1>6. CASE ResumeStep
    BY <1>6 DEF ResumeStep, ResumeTakesGate, ResumeDecides, ResumeTransits, ResumeStarts,
       RowsStep
  <1>7. CASE StopStep
    BY <1>7 DEF StopStep, StopWaits, StopHalts, StrayCommit, stopFrame, RowsStep
  <1>8. CASE Environment
    <2>1. ASSUME NEW c \in Classes, Put(c) PROVE RowsStep
      <3>1. c.kind \in Kinds /\ c.delivery \in Deliveries
        BY ActorAssumption DEF ActorAssumption
      <3>2. (IF c.owned THEN current ELSE NoRun) \in 0..MaxRun
        BY ActorAssumption DEF ActorAssumption, TypeOK, RunTypes, NoRun
      <3>3. Enqueue(c.kind, c.delivery, IF c.owned THEN current ELSE NoRun)
        BY <2>1 DEF Put
      <3> QED
        BY <3>1, <3>2, <3>3 DEF RowsStep
    <2>2. CASE \E m \in queue : Withdraw(m)
      BY <2>2 DEF RowsStep
    <2>3. CASE (\E c \in Reasons : CancelBegins(c)) \/ ResumeBegins \/ StopBegins
      BY <2>3 DEF CancelBegins, ResumeBegins, StopBegins, stopFrame, RowsStep
    <2> QED
      BY <1>8, <2>1, <2>2, <2>3 DEF Environment
  <1>9. CASE Faults
    BY <1>9 DEF Faults, LoopHalts, AdvanceFails, RunFails, DriveCrashes, Release, RowsStep
  <1>10. CASE Rest \/ UNCHANGED vars
    BY <1>10 DEF Rest, vars, RowsStep
  <1>11. CASE \E e \in Execs : ExecStep(e)
    BY <1>2, <1>3, <1>4, <1>11 DEF ExecStep
  <1> QED
    BY <1>1, <1>5, <1>6, <1>7, <1>8, <1>9, <1>10, <1>11 DEF Next

(* An entry of the context holds a row and the Run that took it.           *)
LEMMA EntryTyped ==
  ASSUME RowTypes, NEW i \in DOMAIN context
  PROVE  /\ context[i].msg \in Rows /\ context[i].msg.id \in 1..issued
         /\ context[i].run \in 0..MaxRun
  <1>s. \A S : \A s \in Seq(S) : \A j \in DOMAIN s : s[j] \in S
    OBVIOUS
  <1>1. context[i] \in [msg : Rows, run : 0..MaxRun]
    BY <1>s DEF RowTypes
  <1> QED
    BY <1>1 DEF Rows

-----------------------------------------------------------------------------
(* A message is written at most once: an id stands for one row, which is   *)
(* either in the queue, in the context, withdrawn or skipped.              *)

IdsAreOne == \A m, n \in queue : m.id = n.id => m = n

OnceInv == /\ IdsAreOne
           /\ Ids(queue) \cap withdrawn = {}
           /\ WrittenOnce

LEMMA OnceInit == Init => OnceInv
  BY DEF Init, OnceInv, IdsAreOne, WrittenOnce, ContextIds, Ids

LEMMA OnceNext ==
  ASSUME TypeOK, TypeOK', OnceInv, RowsStep
  PROVE  OnceInv'
  <1>t. /\ issued \in Nat
        /\ \A m \in queue : m.id \in 1..issued
        /\ \A i \in DOMAIN context : context[i].msg.id \in 1..issued
        /\ withdrawn \subseteq 1..issued
        /\ context \in Seq([msg : Rows, run : 0..MaxRun])
    BY EntryTyped DEF TypeOK, RowTypes, Rows
  <1>1. CASE UNCHANGED rowVars
    BY <1>1 DEF OnceInv, IdsAreOne, WrittenOnce, ContextIds, Ids, rowVars
  <1>2. ASSUME NEW kind, NEW delivery, NEW owner, Enqueue(kind, delivery, owner)
        PROVE  OnceInv'
    <2>1. /\ queue' = queue \cup {Row(issued + 1, kind, delivery, owner)}
          /\ UNCHANGED <<context, withdrawn>>
      BY <1>2 DEF Enqueue
    <2>2. Row(issued + 1, kind, delivery, owner).id = issued + 1
      BY DEF Row
    <2>3. Ids(queue') = Ids(queue) \cup {issued + 1}
      BY <2>1, <2>2 DEF Ids
    <2>4. issued + 1 \notin Ids(queue) \cup ContextIds \cup withdrawn
      BY <1>t DEF Ids, ContextIds
    <2>5. IdsAreOne'
      BY <2>1, <2>2, <2>4 DEF OnceInv, IdsAreOne, Ids
    <2>6. ContextIds' = ContextIds
      BY <2>1 DEF ContextIds
    <2>7. WrittenOnce'
      BY <2>1, <2>3, <2>4, <2>6 DEF OnceInv, WrittenOnce
    <2> QED
      BY <2>1, <2>3, <2>4, <2>5, <2>7 DEF OnceInv
  <1>3. ASSUME NEW m \in queue, Withdraw(m) PROVE OnceInv'
    <2>1. queue' = queue \ {m} /\ withdrawn' = withdrawn \cup {m.id} /\ UNCHANGED context
      BY <1>3 DEF Withdraw
    <2>2. \A n \in queue' : n.id # m.id
      BY <2>1 DEF OnceInv, IdsAreOne
    <2>3. m.id \notin ContextIds
      BY DEF OnceInv, WrittenOnce, Ids
    <2>4. ContextIds' = ContextIds
      BY <2>1 DEF ContextIds
    <2> QED
      BY <2>1, <2>2, <2>3, <2>4 DEF OnceInv, IdsAreOne, WrittenOnce, Ids
  <1>4. ASSUME NEW e \in Execs, NEW x \in mailbox, Confirm(e, x), UNCHANGED withdrawn
        PROVE  OnceInv'
    <2>1. queue' = queue \ {x.msg}
      BY <1>4 DEF Confirm
    <2>2. CASE x.msg \notin queue
      <3>1. queue' = queue /\ context' = context
        BY <1>4, <2>1, <2>2 DEF Confirm
      <3> QED
        BY <1>4, <3>1 DEF OnceInv, IdsAreOne, WrittenOnce, ContextIds, Ids
    <2>3. CASE x.msg \in queue
      <3> DEFINE entry == [msg |-> x.msg, run |-> runOf[e]]
      <3>1. context' = Append(context, entry)
        BY <1>4, <2>3 DEF Confirm
      <3>2. entry \in [msg : Rows, run : 0..MaxRun]
        BY DEF TypeOK, BoxTypes, ExecTypes
      <3>3. /\ DOMAIN context' = 1..(Len(context) + 1)
            /\ DOMAIN context = 1..Len(context) /\ Len(context) \in Nat
            /\ \A i \in 1..Len(context) : context'[i] = context[i]
            /\ context'[Len(context) + 1] = entry
        <4> HIDE DEF entry
        <4> QED
          BY <1>t, <3>1, <3>2
      <3>4. ContextIds' = ContextIds \cup {x.msg.id}
        BY <3>3 DEF ContextIds
      <3>5. x.msg.id \notin ContextIds \cup withdrawn \cup Ids(queue')
        BY <2>1, <2>3 DEF OnceInv, IdsAreOne, WrittenOnce, Ids
      <3>6. \A i, j \in DOMAIN context' : context'[i].msg.id = context'[j].msg.id => i = j
        BY <3>3, <3>5 DEF OnceInv, WrittenOnce, ContextIds
      <3>7. Ids(queue') \subseteq Ids(queue)
        BY <2>1 DEF Ids
      <3>8. WrittenOnce'
        BY <1>4, <3>4, <3>5, <3>6, <3>7 DEF OnceInv, WrittenOnce
      <3> QED
        BY <1>4, <2>1, <3>7, <3>8 DEF OnceInv, IdsAreOne
    <2> QED
      BY <2>2, <2>3
  <1> QED
    BY <1>1, <1>2, <1>3, <1>4 DEF RowsStep

LEMMA OnceAlways == Spec => [](TypeOK /\ OnceInv)
  <1>1. Init => TypeOK /\ OnceInv
    BY TypeInit, OnceInit
  <1>2. TypeOK /\ OnceInv /\ [Next]_vars => (TypeOK /\ OnceInv)'
    BY TypeNext, NextRows, OnceNext
  <1> QED
    BY <1>1, <1>2, PTL DEF Spec

(* Every message is written to the context at most once, over all the      *)
(* executions, wakes, resumes and failures of a Task, and never after the  *)
(* user took it back: the row is deleted and the copy written together     *)
(* (task_message_queue.py, run_mailbox.py).                                *)
THEOREM WrittenOnceAlways == Spec => []WrittenOnce
  <1>1. OnceInv => WrittenOnce
    BY DEF OnceInv
  <1> QED
    BY <1>1, OnceAlways, PTL

-----------------------------------------------------------------------------
(* A cancelled Run is passed on to the child Tasks: until then some        *)
(* execution or command is on its way to do it, or the Task is stopping.   *)

OnTheWay == {"settled", "drop", "tail", "tailNotify"}

Carried(r) ==
  \/ stopping
  \/ \E e \in Execs : runOf[e] = r /\ epc[e] \in OnTheWay
  \/ \E c \in Reasons : snap[c].run = r /\ cpc[c] = "notify"

CancelInv ==
  \A r \in Runs : status[r] = "cancelled" => r \in propagated \/ Carried(r)

(* Only CANCEL makes a Run cancelled.                                      *)
LEMMA OthersDoNotCancel ==
  ASSUME RunTypes, NEW run, NEW t \in Transitions \ {"CANCEL"}, Transit(run, t),
         NEW r \in Runs, status'[r] = "cancelled"
  PROVE  status[r] = "cancelled"
  BY DEF RunTypes, Transit, After, RunTransition, Transitions

LEMMA CancelCancels ==
  ASSUME RunTypes, NEW run, Transit(run, "CANCEL"), NEW r \in Runs, status'[r] = "cancelled"
  PROVE  status[r] = "cancelled" \/ (r = run /\ Applies("CANCEL", status[r]))
  BY DEF RunTypes, Transit, After

LEMMA OpeningDoesNotCancel ==
  ASSUME RunTypes, OpenRun, NEW r \in Runs, status'[r] = "cancelled"
  PROVE  status[r] = "cancelled"
  BY DEF RunTypes, OpenRun

LEMMA CancelAdvance ==
  ASSUME TypeOK, ControlInv, CancelInv, NEW a \in Advancers,
         AdvanceStep(a) \/ AdvanceFails(a)
  PROVE  CancelInv'
  <1>1. /\ UNCHANGED <<propagated, cpc, stopping>>
        /\ \A c \in Reasons : snap'[c] = snap[c]
    <2>1. \A c \in Reasons : c # a /\ c \in Procs
      BY Names, ProcessNames
    <2>2. /\ UNCHANGED <<propagated, cpc, stopping>>
          /\ \/ snap' = snap \/ Read(a) \/ Settle(a) \/ Forget(a)
             \/ snap' = [snap EXCEPT ![a].run = current']
      BY DEF AdvanceStep, AdvanceFails, AdvanceTakesGate, AdvanceDelivers, AdvanceStays,
         AdvanceClaims, AdvanceWakes, AdvanceWakeMisses, AdvanceCreates, AdvanceStarts,
         EndAdvance, OpenRun, runVars, stopVars
    <2>3. snap \in [Procs -> [run : 0..MaxRun, st : Statuses \cup {"none"}]]
      BY DEF TypeOK, RunTypes
    <2> QED
      BY <2>1, <2>2, <2>3 DEF Read, Settle, Forget
  <1>2. \A r \in Runs : status'[r] = "cancelled" => status[r] = "cancelled"
    <2>1. UNCHANGED status \/ Transit(snap[a].run, "WAKE") \/ OpenRun
      BY DEF AdvanceStep, AdvanceFails, AdvanceTakesGate, AdvanceDelivers, AdvanceStays,
         AdvanceClaims, AdvanceWakes, AdvanceWakeMisses, AdvanceCreates, AdvanceStarts,
         runVars
    <2>2. "WAKE" \in Transitions \ {"CANCEL"}
      BY DEF Transitions
    <2> QED
      BY <2>1, <2>2, OthersDoNotCancel, OpeningDoesNotCancel DEF TypeOK
  <1>3. \A e \in Execs : epc[e] \in OnTheWay => epc'[e] = epc[e] /\ runOf'[e] = runOf[e]
    <2>1. /\ a \in Execs => epc[a] \notin OnTheWay
          /\ epc \in [Execs -> Drives \cup Tails \cup {"off"}]
          /\ runOf \in [Execs -> 0..MaxRun]
      <3>1. apc[a] # "off"
        BY DEF AdvanceStep, AdvanceFails, AdvanceTakesGate, AdvanceDelivers, AdvanceStays,
           AdvanceClaims, AdvanceWakes, AdvanceWakeMisses, AdvanceCreates, AdvanceStarts
      <3> QED
        BY <3>1 DEF ControlInv, AdvancesInTail, OnTheWay, TypeOK, ExecTypes
    <2>2. CASE AdvanceStarts(a)
      <3>1. PICK e \in Execs : /\ epc[e] = "off"
                                /\ epc' = [EpcEnd(a) EXCEPT ![e] = "prepare"]
                                /\ runOf' = [RunOfEnd(a) EXCEPT ![e] = snap[a].run]
        BY <2>2 DEF AdvanceStarts, StartExecution
      <3> QED
        BY <2>1, <3>1 DEF EpcEnd, RunOfEnd, OnTheWay
    <2>3. CASE UNCHANGED execVars
      BY <2>3 DEF execVars
    <2>4. CASE epc' = EpcEnd(a) /\ runOf' = RunOfEnd(a)
      BY <2>1, <2>4 DEF EpcEnd, RunOfEnd
    <2> QED
      BY <2>2, <2>3, <2>4 DEF AdvanceStep, AdvanceFails, AdvanceTakesGate, AdvanceDelivers,
         AdvanceStays, AdvanceClaims, AdvanceWakes, AdvanceWakeMisses, AdvanceCreates
  <1> QED
    BY <1>1, <1>2, <1>3 DEF CancelInv, Carried

LEMMA CancelRelease ==
  ASSUME TypeOK, CancelInv, NEW e \in Execs, Release(e)
  PROVE  CancelInv'
  <1>1. UNCHANGED <<status, propagated, cpc, snap, stopping>>
    BY DEF Release, runVars, stopVars
  <1>2. CASE stopping
    BY <1>1, <1>2 DEF CancelInv, Carried
  <1>3. CASE ~stopping
    <2>1. epc' = [epc EXCEPT ![e] = "tail"] /\ UNCHANGED runOf
      BY <1>3 DEF Release
    <2> QED
      BY <1>1, <2>1 DEF CancelInv, Carried, OnTheWay, TypeOK, ExecTypes
  <1> QED
    BY <1>2, <1>3

LEMMA CancelDrive ==
  ASSUME TypeOK, CancelInv, NEW e \in Execs, DriveStep(e) \/ RunFails(e) \/ DriveCrashes(e)
  PROVE  CancelInv'
  <1>1. CASE DriveReturns(e) \/ DriveDropped(e) \/ DriveCrashes(e)
    BY <1>1, CancelRelease DEF DriveReturns, DriveDropped, DriveCrashes
  <1>2. CASE RunStops(e)
    <2>1. /\ UNCHANGED <<propagated, cpc, snap, stopping, runOf>>
          /\ Transit(runOf[e], "CANCEL") /\ epc' = [epc EXCEPT ![e] = "settled"]
      BY <1>2 DEF RunStops, driveFrame, stopVars
    <2>2. \A r \in Runs : status'[r] = "cancelled" => status[r] = "cancelled" \/ r = runOf[e]
      BY <2>1, CancelCancels DEF TypeOK
    <2> QED
      BY <2>1, <2>2 DEF CancelInv, Carried, OnTheWay, TypeOK, ExecTypes
  <1>3. CASE \/ RunSuspends(e) \/ RunTakesInput(e) \/ RunConsumes(e) \/ RunClaimsDecision(e)
             \/ RunAsksModel(e) \/ RunContinues(e) \/ RunAnswers(e) \/ RunCompletes(e)
             \/ DriveDrops(e) \/ RunFails(e)
    <2>1. /\ UNCHANGED <<propagated, cpc, snap, stopping, runOf>>
          /\ \/ UNCHANGED status
             \/ \E t \in {"SUSPEND", "COMPLETE", "FAIL"} : Transit(runOf[e], t)
      BY <1>3 DEF RunSuspends, RunTakesInput, RunConsumes, RunClaimsDecision, RunAsksModel,
         RunContinues, RunAnswers, RunCompletes, DriveDrops, RunFails, driveFrame, stopVars,
         runVars, execVars
    <2>2. \/ epc[e] \notin OnTheWay /\ \E to : epc' = [epc EXCEPT ![e] = to]
          \/ epc[e] \notin OnTheWay /\ epc' = epc
          \/ epc' = [epc EXCEPT ![e] = "drop"]
      BY <1>3 DEF RunSuspends, RunTakesInput, RunConsumes, RunClaimsDecision, RunAsksModel,
         RunContinues, RunAnswers, RunCompletes, DriveDrops, RunFails, OnTheWay, execVars
    <2>3. {"SUSPEND", "COMPLETE", "FAIL"} \subseteq Transitions \ {"CANCEL"}
      BY DEF Transitions
    <2>4. \A r \in Runs : status'[r] = "cancelled" => status[r] = "cancelled"
      BY <2>1, <2>3, OthersDoNotCancel DEF TypeOK
    <2> QED
      BY <2>1, <2>2, <2>4 DEF CancelInv, Carried, OnTheWay, TypeOK, ExecTypes
  <1> QED
    BY <1>1, <1>2, <1>3 DEF DriveStep

LEMMA CancelTail ==
  ASSUME TypeOK, CancelInv, NEW e \in Execs, TailStep(e)
  PROVE  CancelInv'
  <1> USE DEF TypeOK, ExecTypes
  <1>1. UNCHANGED <<cpc, snap, stopping>>
    BY DEF TailStep, TailReads, TailCancels, TailNotifies, TailContinues, tailFrame, stopVars
  <1>2. CASE TailReads(e)
    <2>1. UNCHANGED <<status, propagated>>
      BY <1>2 DEF TailReads, runVars
    <2>2. \/ \E to \in {"tailCancel", "tailNotify", "tailPending"} :
               epc' = [epc EXCEPT ![e] = to] /\ UNCHANGED runOf
          \/ Finish(e)
      BY <1>2 DEF TailReads, TailMoves
    <2>3. \A d \in Execs \ {e} : epc'[d] = epc[d] /\ runOf'[d] = runOf[d]
      BY <2>2 DEF Finish, EpcEnd, RunOfEnd
    <2>4. status[runOf[e]] = "cancelled" => epc'[e] = "tailNotify" /\ runOf'[e] = runOf[e]
      BY <1>2 DEF TailReads, TailMoves, SettledStatus, ContinueAfter
    <2> QED
      BY <1>1, <2>1, <2>3, <2>4 DEF CancelInv, Carried, OnTheWay
  <1>3. CASE TailCancels(e)
    <2>1. UNCHANGED propagated /\ Transit(runOf[e], "CANCEL") /\ epc[e] = "tailCancel"
      BY <1>3 DEF TailCancels
    <2>2. \A d \in Execs \ {e} : epc'[d] = epc[d] /\ runOf'[d] = runOf[d]
      BY <1>3 DEF TailCancels, TailMoves, Finish, EpcEnd, RunOfEnd
    <2>3. \A r \in Runs : status'[r] = "cancelled" =>
            \/ status[r] = "cancelled"
            \/ r = runOf[e] /\ Applies("CANCEL", status[runOf[e]])
      BY <2>1, CancelCancels
    <2>4. Applies("CANCEL", status[runOf[e]])
            => epc'[e] = "tailNotify" /\ runOf'[e] = runOf[e]
      BY <1>3 DEF TailCancels, TailMoves, SettledStatus
    <2> QED
      BY <1>1, <2>1, <2>2, <2>3, <2>4 DEF CancelInv, Carried, OnTheWay
  <1>4. CASE TailNotifies(e)
    <2>1. UNCHANGED status /\ propagated' = propagated \cup {runOf[e]}
      BY <1>4 DEF TailNotifies, AfterCancelled
    <2>2. \A d \in Execs \ {e} : epc'[d] = epc[d] /\ runOf'[d] = runOf[d]
      BY <1>4 DEF TailNotifies, Finish, EpcEnd, RunOfEnd
    <2> QED
      BY <1>1, <2>1, <2>2 DEF CancelInv, Carried, OnTheWay
  <1>5. CASE TailContinues(e)
    <2>1. UNCHANGED <<status, propagated>> /\ epc[e] = "tailPending"
      BY <1>5 DEF TailContinues, runVars
    <2>2. \A d \in Execs \ {e} : epc'[d] = epc[d] /\ runOf'[d] = runOf[d]
      BY <1>5 DEF TailContinues, TailMoves, Finish, EpcEnd, RunOfEnd
    <2> QED
      BY <1>1, <2>1, <2>2 DEF CancelInv, Carried, OnTheWay
  <1> QED
    BY <1>2, <1>3, <1>4, <1>5 DEF TailStep

LEMMA CancelCommand ==
  ASSUME TypeOK, CancelInv, NEW c \in Reasons, CancelStep(c)
  PROVE  CancelInv'
  <1> USE DEF TypeOK, RunTypes, CommandTypes
  <1>1. c \in Commands /\ Reasons \subseteq Commands /\ Reasons \subseteq Procs
    BY ProcessNames
  <1>2. UNCHANGED <<epc, runOf, stopping>>
    BY DEF CancelStep, CancelTakesGate, CancelDecides, CancelSuspended, CancelNotifies,
       execVars, cmdFrame, stopVars
  <1>3. \A d \in Reasons \ {c} : cpc'[d] = cpc[d] /\ snap'[d] = snap[d]
    BY <1>1 DEF CancelStep, CancelTakesGate, CancelDecides, CancelSuspended, CancelNotifies,
       CommandEnds, CommandMoves, Read, Settle, Forget
  <1>4. CASE CancelTakesGate(c) \/ CancelDecides(c)
    <2>1. UNCHANGED <<status, propagated>> /\ cpc[c] # "notify"
      BY <1>4 DEF CancelTakesGate, CancelDecides, runVars
    <2> QED
      BY <1>2, <1>3, <2>1 DEF CancelInv, Carried
  <1>5. CASE CancelSuspended(c)
    <2>1. UNCHANGED propagated /\ Transit(snap[c].run, "CANCEL") /\ cpc[c] = "transit"
      BY <1>5 DEF CancelSuspended
    <2>2. \A r \in Runs : status'[r] = "cancelled" =>
            \/ status[r] = "cancelled"
            \/ r = snap[c].run /\ Applies("CANCEL", status[snap[c].run])
      BY <2>1, CancelCancels
    <2>3. Applies("CANCEL", status[snap[c].run]) => cpc'[c] = "notify" /\ snap'[c] = snap[c]
      BY <1>1, <1>5 DEF CancelSuspended, CommandMoves
    <2> QED
      BY <1>2, <1>3, <2>1, <2>2, <2>3 DEF CancelInv, Carried
  <1>6. CASE CancelNotifies(c)
    <2>1. UNCHANGED status /\ propagated' = propagated \cup {snap[c].run}
      BY <1>6 DEF CancelNotifies, AfterCancelled
    <2> QED
      BY <1>2, <1>3, <2>1 DEF CancelInv, Carried
  <1> QED
    BY <1>4, <1>5, <1>6 DEF CancelStep

LEMMA CancelResume ==
  ASSUME TypeOK, CancelInv, ResumeStep
  PROVE  CancelInv'
  <1> USE DEF TypeOK, RunTypes, CommandTypes, ExecTypes
  <1>1. /\ "resume" \in Commands /\ "resume" \in Procs /\ "resume" \notin Execs
        /\ Reasons \subseteq Commands /\ Reasons \subseteq Procs
    BY ProcessNames
  <1>2. UNCHANGED stopping /\ \A c \in Reasons : c # "resume"
    BY DEF ResumeStep, ResumeTakesGate, ResumeDecides, ResumeTransits, ResumeStarts, cmdFrame,
       stopVars, Reasons
  <1>3. \A c \in Reasons : cpc'[c] = cpc[c] /\ snap'[c] = snap[c]
    <2>1. snap' = snap \/ Read("resume") \/ Settle("resume") \/ Forget("resume")
      BY DEF ResumeStep, ResumeTakesGate, ResumeDecides, ResumeTransits, ResumeStarts,
         CommandEnds
    <2>2. \/ cpc' = [cpc EXCEPT !["resume"] = "off"]
          \/ cpc' = [cpc EXCEPT !["resume"] = "decide"]
          \/ cpc' = [cpc EXCEPT !["resume"] = "transit"]
          \/ cpc' = [cpc EXCEPT !["resume"] = "start"]
      BY DEF ResumeStep, ResumeTakesGate, ResumeDecides, ResumeTransits, ResumeStarts,
         CommandEnds, CommandMoves
    <2> QED
      BY <1>1, <1>2, <2>1, <2>2 DEF Read, Settle, Forget
  <1>4. \A e \in Execs : epc[e] \in OnTheWay => epc'[e] = epc[e] /\ runOf'[e] = runOf[e]
    <2>1. CASE ResumeStarts
      <3>1. PICK e \in Execs :
              /\ epc[e] = "off"
              /\ epc' = [EpcEnd("resume") EXCEPT ![e] = "prepare"]
              /\ runOf' = [RunOfEnd("resume") EXCEPT ![e] = snap["resume"].run]
        BY <2>1 DEF ResumeStarts, StartExecution
      <3> QED
        BY <1>1, <3>1 DEF EpcEnd, RunOfEnd, OnTheWay
    <2>2. CASE ResumeTakesGate \/ ResumeDecides \/ ResumeTransits
      BY <2>2 DEF ResumeTakesGate, ResumeDecides, ResumeTransits, execVars
    <2> QED
      BY <2>1, <2>2 DEF ResumeStep
  <1>5. \A r \in Runs : status'[r] = "cancelled" /\ r \notin propagated'
                        => status[r] = "cancelled" /\ r \notin propagated
    <2>1. CASE UNCHANGED <<status, propagated>>
      BY <2>1
    <2>2. CASE ResumeTransits
      <3> DEFINE run == snap["resume"].run
      <3>1. /\ status' = [status EXCEPT ![run] = After("RESUME", @)]
            /\ propagated' = IF Applies("RESUME", status[run]) THEN propagated \ {run}
                                                             ELSE propagated
        BY <2>2 DEF ResumeTransits, Transit
      <3>2. \A st : After("RESUME", st) = "cancelled" => st = "cancelled"
        BY DEF After, RunTransition
      <3>3. Applies("RESUME", status[run]) => After("RESUME", status[run]) = "running"
        BY DEF After, RunTransition
      <3> QED
        BY <3>1, <3>2, <3>3
    <2> QED
      BY <2>1, <2>2 DEF ResumeStep, ResumeTakesGate, ResumeDecides, ResumeStarts, runVars
  <1> QED
    BY <1>2, <1>3, <1>4, <1>5 DEF CancelInv, Carried

LEMMA CancelOthers ==
  ASSUME TypeOK, CancelInv,
         \/ LoopWakes \/ LoopDrained \/ LoopHalts \/ StopStep \/ Environment
         \/ Rest \/ UNCHANGED vars
  PROVE  CancelInv'
  <1> USE DEF TypeOK, RunTypes, CommandTypes
  <1>1. \A c \in Reasons : c # "loop" /\ c \in Commands /\ c \in Procs
    BY Names, ProcessNames
  <1>2. CASE StopBegins \/ StopStep
    <2>1. UNCHANGED <<epc, runOf, cpc, propagated>> /\ (stopping => stopping')
      BY <1>2 DEF StopBegins, StopStep, StopWaits, StopHalts, StrayCommit, OpenRun, stopFrame,
         execVars, stopVars, runVars
    <2>2. snap' = snap \/ Forget("loop")
      BY <1>2 DEF StopBegins, StopStep, StopWaits, StopHalts, StrayCommit, HaltLoop
    <2>3. \A c \in Reasons : snap'[c] = snap[c]
      BY <1>1, <2>2 DEF Forget
    <2>4. UNCHANGED status \/ Transit(snap["loop"].run, "WAKE") \/ OpenRun
      BY <1>2 DEF StopBegins, StopStep, StopWaits, StopHalts, StrayCommit, runVars
    <2>5. "WAKE" \in Transitions \ {"CANCEL"}
      BY DEF Transitions
    <2>6. \A r \in Runs : status'[r] = "cancelled" => status[r] = "cancelled"
      BY <2>4, <2>5, OthersDoNotCancel, OpeningDoesNotCancel
    <2> QED
      BY <2>1, <2>3, <2>6 DEF CancelInv, Carried
  <1>3. CASE \E c \in Reasons : CancelBegins(c)
    <2>1. PICK c \in Reasons : CancelBegins(c)
      BY <1>3
    <2>2. UNCHANGED <<status, propagated, epc, runOf, snap, stopping>>
      BY <2>1 DEF CancelBegins, runVars, execVars, cmdFrame, stopVars
    <2>3. \A d \in Reasons : cpc[d] = "notify" => cpc'[d] = "notify"
      BY <1>1, <2>1 DEF CancelBegins
    <2> QED
      BY <2>2, <2>3 DEF CancelInv, Carried
  <1>4. CASE ResumeBegins
    <2>1. UNCHANGED <<status, propagated, epc, runOf, snap, stopping>>
      BY <1>4 DEF ResumeBegins, runVars, execVars, cmdFrame, stopVars
    <2>2. \A d \in Reasons : cpc'[d] = cpc[d]
      BY <1>4 DEF ResumeBegins, Reasons
    <2> QED
      BY <2>1, <2>2 DEF CancelInv, Carried
  <1>5. CASE \/ LoopWakes \/ LoopDrained \/ LoopHalts \/ (\E c \in Classes : Put(c))
             \/ (\E m \in queue : Withdraw(m)) \/ Rest \/ UNCHANGED vars
    <2>1. UNCHANGED <<status, propagated, epc, runOf, snap, stopping, cpc>>
      BY <1>5 DEF LoopWakes, LoopDrained, LoopHalts, Put, Withdraw, Rest, vars, runVars,
         execVars, stopVars
    <2> QED
      BY <2>1 DEF CancelInv, Carried
  <1> QED
    BY <1>2, <1>3, <1>4, <1>5 DEF Environment

LEMMA CancelNext ==
  ASSUME TypeOK, ControlInv, CancelInv, [Next]_vars
  PROVE  CancelInv'
  <1>1. CASE LoopStep \/ \E e \in Execs : ExecStep(e)
    BY <1>1, Names, CancelOthers, CancelAdvance, CancelDrive, CancelTail DEF LoopStep, ExecStep
  <1>2. CASE ResumeStep \/ \E c \in Reasons : CancelStep(c)
    BY <1>2, CancelResume, CancelCommand
  <1>3. CASE Faults
    BY <1>3, CancelOthers, CancelAdvance, CancelDrive DEF Faults
  <1>4. CASE StopStep \/ Environment \/ Rest \/ UNCHANGED vars
    BY <1>4, CancelOthers
  <1> QED
    BY <1>1, <1>2, <1>3, <1>4 DEF Next

(* However a Run came to be cancelled, by a signal to its execution, by a  *)
(* command while it was suspended or by the callback of an execution that  *)
(* suspended it first, its cancellation has been passed on to the child    *)
(* Tasks when the Task comes to rest (task_cancellation.py).               *)
THEOREM CancelReachesDownstreamAlways == Spec => []CancelReachesDownstream
  <1>1. Init => CancelInv
    BY DEF Init, CancelInv
  <1>2. TypeOK /\ ControlInv /\ CancelInv /\ [Next]_vars => CancelInv'
    BY CancelNext
  <1>3. CancelInv => CancelReachesDownstream
    <2>1. Reasons \subseteq Commands
      BY DEF Commands
    <2> QED
      BY <2>1 DEF CancelInv, Carried, CancelReachesDownstream, AtRest, OnTheWay
  <1> QED
    BY <1>1, <1>2, <1>3, TypeCorrect, ControlAlways, PTL DEF Spec

-----------------------------------------------------------------------------
(* Queued inputs, one Run each.                                            *)

(* What a process took from the queue is older than what came since.       *)
SnapshotsAreOldest ==
  \A a \in Advancers, m \in queue :
    m \in apending[a] \/ \A p \in apending[a] : p.id < m.id

(* Every Run somebody knows was opened.                                    *)
RunsOpened ==
  /\ \A p \in Procs : snap[p].run <= current
  /\ \A e \in Execs : runOf[e] <= current
  /\ \A i \in DOMAIN context : context[i].run <= current

QueuedRow(m) == m.kind \in LaunchKinds /\ m.delivery = "next_run"

(* An execution that is about to be started on a new Run, or that has a    *)
(* queued input in its mailbox, has not answered a queued input yet; that  *)
(* input is the oldest one in the queue, and the answered ones are older.  *)
NewRunIsUnused ==
  \A a \in Advancers : apc[a] = "startNew" =>
    \A i \in DOMAIN context : QueuedInput(context[i]) => context[i].run < snap[a].run

BoxedIsOldest ==
  \A x \in mailbox : QueuedInput(x) /\ x.msg \in queue =>
    /\ \A m \in queue : QueuedRow(m) => x.msg.id <= m.id
    /\ \A e \in Execs : epc[e] \in Drives =>
         \A i \in DOMAIN context : QueuedInput(context[i]) => context[i].run < runOf[e]

AnsweredAreOlder ==
  \A i \in DOMAIN context, m \in queue :
    QueuedInput(context[i]) /\ QueuedRow(m) => context[i].msg.id < m.id

OrderInv == /\ NewRunIsUnused
            /\ BoxedIsOldest
            /\ AnsweredAreOlder
            /\ QueuedInputsInOrder

LEMMA SnapshotNext ==
  ASSUME TypeOK, SnapshotsAreOldest, [Next]_vars
  PROVE  SnapshotsAreOldest'
  <1>1. \A a \in Advancers : apending'[a] = apending[a] \/ apending'[a] = {} \/ apending'[a] = queue
    <2> USE ProcessNames DEF TypeOK, AdvanceTypes
    <2>1. ASSUME NEW a \in Advancers, AdvanceStep(a) \/ AdvanceFails(a)
          PROVE  apending' = apending \/ apending' = [apending EXCEPT ![a] = {}]
      BY <2>1 DEF AdvanceStep, AdvanceFails, AdvanceTakesGate, AdvanceDelivers, AdvanceStays,
         AdvanceClaims, AdvanceWakes, AdvanceWakeMisses, AdvanceCreates, AdvanceStarts, EndAdvance
    <2>2. LoopWakes \/ LoopDrained \/ LoopHalts \/ StopStep \/ StopBegins =>
             \/ apending' = apending
             \/ apending' = [apending EXCEPT !["loop"] = {}]
             \/ apending' = [apending EXCEPT !["loop"] = queue]
             \/ apending' = [apending EXCEPT !["loop"] = apending["loop"]]
      BY DEF LoopWakes, LoopDrained, LoopHalts, LoopAdvances, StopStep, StopBegins, StopWaits,
         StopHalts, StrayCommit, HaltLoop, advVars
    <2>3. ASSUME NEW e \in Execs, DriveStep(e) \/ TailStep(e) \/ RunFails(e) \/ DriveCrashes(e)
          PROVE  apending' = apending \/ apending' = [apending EXCEPT ![e] = queue]
      BY <2>3 DEF DriveStep, RunStops, RunSuspends, RunTakesInput, RunConsumes, RunClaimsDecision,
         RunAsksModel, RunContinues, RunAnswers, RunCompletes, DriveReturns, DriveDrops,
         DriveDropped, RunFails, DriveCrashes, Release, TailStep, TailReads, TailCancels,
         TailNotifies, TailContinues, driveFrame, advVars
    <2>4. \A c \in Reasons : CancelStep(c) => apending' = apending
      BY DEF CancelStep, CancelTakesGate, CancelDecides, CancelSuspended, CancelNotifies,
         cmdFrame, advVars
    <2>5. ResumeStep => apending' = apending
      BY DEF ResumeStep, ResumeTakesGate, ResumeDecides, ResumeTransits, ResumeStarts,
         cmdFrame, advVars
    <2>6. Environment => apending' = apending \/ StopBegins
      BY DEF Environment, Put, Withdraw, CancelBegins, ResumeBegins, cmdFrame, advVars
    <2>7. Rest \/ UNCHANGED vars => apending' = apending
      BY DEF Rest, vars, advVars
    <2> QED
      BY <2>1, <2>2, <2>3, <2>4, <2>5, <2>6, <2>7 DEF Next, LoopStep, ExecStep, Faults
  <1>2. \/ queue' \subseteq queue
        \/ \E kind, delivery, owner : queue' = queue \cup {Row(issued + 1, kind, delivery, owner)}
    BY NextRows DEF RowsStep, rowVars, Enqueue, Withdraw, Confirm
  <1>3. /\ issued \in Nat
        /\ \A m \in queue : m.id \in 1..issued
        /\ \A a \in Advancers : \A p \in apending[a] : p.id \in 1..issued
    BY DEF TypeOK, RowTypes, AdvanceTypes, Rows
  <1>4. CASE queue' \subseteq queue
    BY <1>1, <1>3, <1>4 DEF SnapshotsAreOldest
  <1>5. ASSUME NEW kind, NEW delivery, NEW owner,
               queue' = queue \cup {Row(issued + 1, kind, delivery, owner)}
        PROVE  SnapshotsAreOldest'
    <2>1. Row(issued + 1, kind, delivery, owner).id = issued + 1
      BY DEF Row
    <2> QED
      BY <1>1, <1>3, <1>5, <2>1 DEF SnapshotsAreOldest
  <1> QED
    BY <1>2, <1>4, <1>5

(* Confirming a row that is still queued appends the entry of its Run.     *)
LEMMA ConfirmedEntry ==
  ASSUME TypeOK, NEW e \in Execs, NEW x \in mailbox, Confirm(e, x), x.msg \in queue
  PROVE  /\ Len(context) \in Nat /\ DOMAIN context = 1..Len(context)
         /\ DOMAIN context' = 1..(Len(context) + 1)
         /\ \A i \in DOMAIN context : context'[i] = context[i]
         /\ context'[Len(context) + 1].msg = x.msg
         /\ context'[Len(context) + 1].run = runOf[e]
  <1> DEFINE entry == [msg |-> x.msg, run |-> runOf[e]]
  <1>1. context' = Append(context, entry)
    BY DEF Confirm
  <1>2. entry \in [msg : Rows, run : 0..MaxRun] /\ entry.msg = x.msg /\ entry.run = runOf[e]
    BY DEF TypeOK, BoxTypes, ExecTypes
  <1>3. context \in Seq([msg : Rows, run : 0..MaxRun])
    BY DEF TypeOK, RowTypes
  <1> HIDE DEF entry
  <1> QED
    BY <1>1, <1>2, <1>3

LEMMA OpenedNext ==
  ASSUME TypeOK, RunsOpened, [Next]_vars
  PROVE  RunsOpened'
  <1> USE ProcessNames DEF TypeOK, RunTypes, ExecTypes
  <1>n. MaxRun \in Nat
    BY ActorAssumption DEF ActorAssumption
  <1>1. current <= current'
    <2>1. UNCHANGED current \/ OpenRun
      BY DEF Next, LoopStep, LoopWakes, LoopDrained, ExecStep, DriveStep, RunStops, RunSuspends,
         RunTakesInput, RunConsumes, RunClaimsDecision, RunAsksModel, RunContinues, RunAnswers,
         RunCompletes, DriveReturns, DriveDrops, DriveDropped, Release, TailStep, TailReads,
         TailCancels, TailNotifies, TailContinues, AdvanceStep, AdvanceTakesGate,
         AdvanceDelivers, AdvanceStays, AdvanceClaims, AdvanceWakes, AdvanceWakeMisses,
         AdvanceCreates, AdvanceStarts, CancelStep, CancelTakesGate, CancelDecides,
         CancelSuspended, CancelNotifies, ResumeStep, ResumeTakesGate, ResumeDecides,
         ResumeTransits, ResumeStarts, StopStep, StopWaits, StopHalts, StrayCommit, Environment,
         Put, Withdraw, CancelBegins, ResumeBegins, StopBegins, Faults, LoopHalts, AdvanceFails,
         RunFails, DriveCrashes, Rest, vars, runVars
    <2> QED
      BY <1>n, <2>1 DEF OpenRun
  <1>2. \A p \in Procs : snap'[p].run \in {snap[p].run, NoRun, current, current'}
    <2>1. ASSUME NEW p \in Procs,
                 \/ Read(p) \/ Settle(p) \/ Forget(p)
                 \/ snap' = [snap EXCEPT ![p].run = current']
          PROVE  \A q \in Procs : snap'[q].run \in {snap[q].run, NoRun, current, current'}
      BY <2>1 DEF Read, Settle, Forget, NoSnap
    <2>2. ASSUME NEW a \in Advancers, AdvanceStep(a) \/ AdvanceFails(a)
          PROVE  \/ snap' = snap \/ Read(a) \/ Settle(a) \/ Forget(a)
                 \/ snap' = [snap EXCEPT ![a].run = current']
      BY <2>2 DEF AdvanceStep, AdvanceFails, AdvanceTakesGate, AdvanceDelivers, AdvanceStays,
         AdvanceClaims, AdvanceWakes, AdvanceWakeMisses, AdvanceCreates, AdvanceStarts, EndAdvance
    <2>3. ASSUME NEW c \in Reasons, CancelStep(c)
          PROVE  snap' = snap \/ Read(c) \/ Settle(c) \/ Forget(c)
      BY <2>3 DEF CancelStep, CancelTakesGate, CancelDecides, CancelSuspended, CancelNotifies,
         CommandEnds
    <2>4. ResumeStep => snap' = snap \/ Read("resume") \/ Settle("resume") \/ Forget("resume")
      BY DEF ResumeStep, ResumeTakesGate, ResumeDecides, ResumeTransits, ResumeStarts, CommandEnds
    <2>5. StopBegins \/ StopStep => snap' = snap \/ Forget("loop")
      BY DEF StopBegins, StopStep, StopWaits, StopHalts, StrayCommit, HaltLoop
    <2>6. LoopWakes \/ LoopDrained \/ LoopHalts => snap' = snap
      BY DEF LoopWakes, LoopDrained, LoopHalts
    <2>7. ASSUME NEW e \in Execs, DriveStep(e) \/ TailStep(e) \/ RunFails(e) \/ DriveCrashes(e)
          PROVE  snap' = snap
      BY <2>7 DEF DriveStep, RunStops, RunSuspends, RunTakesInput, RunConsumes,
         RunClaimsDecision, RunAsksModel, RunContinues, RunAnswers, RunCompletes, DriveReturns,
         DriveDrops, DriveDropped, RunFails, DriveCrashes, Release, TailStep, TailReads,
         TailCancels, TailNotifies, TailContinues, driveFrame, tailFrame
    <2>8. Environment => snap' = snap \/ StopBegins
      BY DEF Environment, Put, Withdraw, CancelBegins, ResumeBegins
    <2>9. Rest \/ UNCHANGED vars => snap' = snap
      BY DEF Rest, vars
    <2>10. \/ snap' = snap
           \/ \E p \in Procs : \/ Read(p) \/ Settle(p) \/ Forget(p)
                               \/ snap' = [snap EXCEPT ![p].run = current']
      BY <2>2, <2>3, <2>4, <2>5, <2>6, <2>7, <2>8, <2>9 DEF Next, LoopStep, ExecStep, Faults
    <2> QED
      BY <2>1, <2>10
  <1>3. \A e \in Execs :
          runOf'[e] \in {runOf[e], NoRun} \cup {snap[p].run : p \in Procs}
    <2>1. ASSUME NEW a \in Advancers \cup {"resume"}, NEW run, NEW pending, NEW freshRun,
                 StartExecution(a, run, pending, freshRun)
          PROVE  \A e \in Execs : runOf'[e] \in {runOf[e], NoRun, run}
      <3>1. PICK e \in Execs : runOf' = [RunOfEnd(a) EXCEPT ![e] = run]
        BY <2>1 DEF StartExecution
      <3> QED
        BY <3>1 DEF RunOfEnd
    <2>2. ASSUME NEW a \in Advancers, AdvanceStep(a) \/ AdvanceFails(a)
          PROVE  \/ runOf' = runOf \/ runOf' = RunOfEnd(a)
                 \/ StartExecution(a, snap[a].run, apending[a], apc[a] = "startNew")
      BY <2>2 DEF AdvanceStep, AdvanceFails, AdvanceTakesGate, AdvanceDelivers, AdvanceStays,
         AdvanceClaims, AdvanceWakes, AdvanceWakeMisses, AdvanceCreates, AdvanceStarts, execVars
    <2>3. ResumeStep => \/ runOf' = runOf
                        \/ StartExecution("resume", snap["resume"].run, queue, FALSE)
      BY DEF ResumeStep, ResumeTakesGate, ResumeDecides, ResumeTransits, ResumeStarts, execVars
    <2>4. ASSUME NEW e \in Execs, DriveStep(e) \/ TailStep(e) \/ RunFails(e) \/ DriveCrashes(e)
          PROVE  runOf' = runOf \/ runOf' = RunOfEnd(e)
      BY <2>4 DEF DriveStep, RunStops, RunSuspends, RunTakesInput, RunConsumes,
         RunClaimsDecision, RunAsksModel, RunContinues, RunAnswers, RunCompletes, DriveReturns,
         DriveDrops, DriveDropped, RunFails, DriveCrashes, Release, TailStep, TailReads,
         TailCancels, TailNotifies, TailContinues, TailMoves, Finish, execVars
    <2>5. StopBegins \/ StopStep \/ LoopWakes \/ LoopDrained \/ LoopHalts \/ Environment
            => runOf' = runOf
      BY DEF StopBegins, StopStep, StopWaits, StopHalts, StrayCommit, LoopWakes, LoopDrained,
         LoopHalts, Environment, Put, Withdraw, CancelBegins, ResumeBegins, stopFrame, execVars
    <2>6. ASSUME NEW c \in Reasons, CancelStep(c) PROVE runOf' = runOf
      BY <2>6 DEF CancelStep, CancelTakesGate, CancelDecides, CancelSuspended, CancelNotifies,
         execVars
    <2>7. Rest \/ UNCHANGED vars => runOf' = runOf
      BY DEF Rest, vars, execVars
    <2>8. \A a \in Advancers : runOf' = RunOfEnd(a) =>
            \A e \in Execs : runOf'[e] \in {runOf[e], NoRun}
      BY DEF RunOfEnd
    <2>9. \/ runOf' = runOf
          \/ \E a \in Advancers : runOf' = RunOfEnd(a)
          \/ \E a \in Advancers \cup {"resume"} : \E pending, freshRun :
               StartExecution(a, snap[a].run, pending, freshRun)
      BY <2>2, <2>3, <2>4, <2>5, <2>6, <2>7 DEF Next, LoopStep, ExecStep, Faults
    <2> QED
      BY <2>1, <2>8, <2>9
  <1>4. \A i \in DOMAIN context' : \/ i \in DOMAIN context /\ context'[i] = context[i]
                                  \/ \E e \in Execs : context'[i].run = runOf[e]
    <2>1. UNCHANGED context \/ \E e \in Execs, x \in mailbox : Confirm(e, x)
      BY NextRows DEF RowsStep, rowVars, Enqueue, Withdraw
    <2>2. ASSUME NEW e \in Execs, NEW x \in mailbox, Confirm(e, x)
          PROVE  \A i \in DOMAIN context' : \/ i \in DOMAIN context /\ context'[i] = context[i]
                                           \/ context'[i].run = runOf[e]
      <3>1. CASE x.msg \in queue
        <4>1. /\ Len(context) \in Nat /\ DOMAIN context = 1..Len(context)
              /\ DOMAIN context' = 1..(Len(context) + 1)
              /\ \A i \in DOMAIN context : context'[i] = context[i]
              /\ context'[Len(context) + 1].run = runOf[e]
          BY <2>2, <3>1, ConfirmedEntry
        <4> QED
          BY <4>1
      <3>2. CASE x.msg \notin queue
        BY <2>2, <3>2 DEF Confirm
      <3> QED
        BY <3>1, <3>2
    <2> QED
      BY <2>1, <2>2
  <1>5. /\ current \in Nat /\ current' \in Nat
        /\ \A p \in Procs : snap[p].run \in Nat
        /\ \A e \in Execs : runOf[e] \in Nat
        /\ \A i \in DOMAIN context : context[i].run \in Nat
    <2>1. TypeOK'
      BY TypeNext
    <2> QED
      BY <1>n, <2>1, EntryTyped
  <1>6. \A e \in Execs : runOf'[e] <= current'
    BY <1>1, <1>3, <1>5 DEF RunsOpened, NoRun
  <1>7. \A p \in Procs : snap'[p].run <= current'
    BY <1>1, <1>2, <1>5 DEF RunsOpened, NoRun
  <1>8. \A i \in DOMAIN context' : context'[i].run <= current'
    BY <1>1, <1>4, <1>5 DEF RunsOpened
  <1> QED
    BY <1>6, <1>7, <1>8 DEF RunsOpened

-----------------------------------------------------------------------------
(* A step that neither starts an execution nor confirms a row: no new      *)
(* queued input gets into a mailbox, and a Run that is about to be started *)
(* was opened by this step or is the same as before.                       *)
Quiet ==
  /\ UNCHANGED context
  /\ \A x \in mailbox' : QueuedInput(x) => x \in mailbox
  /\ \A e \in Execs : epc'[e] \in Drives => epc[e] \in Drives /\ runOf'[e] = runOf[e]
  /\ \A a \in Advancers : apc'[a] = "startNew" =>
       (apc[a] = "startNew" /\ snap'[a] = snap[a]) \/ snap'[a].run = current + 1

LEMMA OrderQuiet ==
  ASSUME TypeOK, RunsOpened, OrderInv, RowsStep, Quiet
  PROVE  OrderInv'
  <1>1. \/ queue' \subseteq queue
        \/ \E kind, delivery, owner : queue' = queue \cup {Row(issued + 1, kind, delivery, owner)}
    BY DEF RowsStep, rowVars, Enqueue, Withdraw, Confirm
  <1>2. /\ issued \in Nat
        /\ \A m \in queue : m.id \in 1..issued
        /\ \A x \in mailbox : x.msg.id \in 1..issued
        /\ \A i \in DOMAIN context : context[i].msg.id \in 1..issued
        /\ \A i \in DOMAIN context : context[i].run \in Nat /\ context[i].run <= current
        /\ current \in Nat
    <2>1. MaxRun \in Nat
      BY ActorAssumption DEF ActorAssumption
    <2> QED
      BY <2>1, EntryTyped DEF TypeOK, RowTypes, RunTypes, BoxTypes, Rows, RunsOpened
  <1>3. \A m \in queue' : m \in queue \/ m.id = issued + 1
    BY <1>1 DEF Row
  <1>4. NewRunIsUnused'
    BY <1>2 DEF Quiet, OrderInv, NewRunIsUnused, QueuedInput
  <1>5. BoxedIsOldest'
    <2>1. SUFFICES ASSUME NEW x \in mailbox', QueuedInput(x), x.msg \in queue'
                   PROVE  /\ \A m \in queue' : QueuedRow(m) => x.msg.id <= m.id
                          /\ \A e \in Execs : epc'[e] \in Drives =>
                               \A i \in DOMAIN context' :
                                 QueuedInput(context'[i]) => context'[i].run < runOf'[e]
      BY DEF BoxedIsOldest, QueuedInput
    <2>2. x \in mailbox /\ x.msg \in queue
      <3>1. x \in mailbox
        BY <2>1 DEF Quiet
      <3> QED
        BY <1>2, <1>3, <2>1, <3>1
    <2> QED
      BY <1>2, <1>3, <2>1, <2>2 DEF Quiet, OrderInv, BoxedIsOldest
  <1>6. AnsweredAreOlder'
    BY <1>2, <1>3 DEF Quiet, OrderInv, AnsweredAreOlder, QueuedInput, QueuedRow
  <1>7. QueuedInputsInOrder'
    BY DEF Quiet, OrderInv, QueuedInputsInOrder, QueuedInput
  <1> QED
    BY <1>4, <1>5, <1>6, <1>7 DEF OrderInv

(* The only queued input among the initial messages of an execution is the *)
(* oldest input of what was pending, and only a new Run gets one.          *)
LEMMA InitialQueued ==
  ASSUME NEW pending, NEW freshRun, NEW m \in InitialMessages(pending, freshRun), QueuedRow(m)
  PROVE  /\ freshRun /\ m \in pending
         /\ \A n \in pending : QueuedRow(n) => m.id <= n.id
  <1>0. m.kind \in LaunchKinds /\ m.delivery = "next_run" /\ m.delivery # "immediate"
    BY DEF QueuedRow
  <1>1. CASE ~freshRun
    BY <1>0, <1>1 DEF InitialMessages, Immediate
  <1>2. CASE freshRun
    <2>1. m \in NextInput(pending)
      BY <1>0, <1>2 DEF InitialMessages, Inputs
    <2>2. m \in Earliest(Inputs(pending))
      BY <1>0, <2>1 DEF NextInput, Earliest, Immediate
    <2> QED
      BY <1>2, <2>2 DEF Earliest, Inputs, QueuedRow
  <1> QED
    BY <1>1, <1>2

LEMMA OrderStarts ==
  ASSUME TypeOK, ControlInv, SnapshotsAreOldest, OrderInv,
         NEW a \in Advancers \cup {"resume"}, NEW pending, NEW freshRun,
         StartExecution(a, snap[a].run, pending, freshRun),
         freshRun => a \in Advancers /\ pending = apending[a] /\ apc[a] = "startNew",
         UNCHANGED <<queue, context>>,
         \A b \in Advancers : apc'[b] # "startNew"
  PROVE  OrderInv'
  <1>1. PICK e \in Execs : /\ epc[e] = "off" /\ exec = NoExec
                            /\ epc' = [EpcEnd(a) EXCEPT ![e] = "prepare"]
                            /\ runOf' = [RunOfEnd(a) EXCEPT ![e] = snap[a].run]
    BY DEF StartExecution
  <1>2. \A d \in Execs : epc'[d] \in Drives => d = e /\ runOf'[d] = snap[a].run
    <2>1. \A d \in Execs : epc[d] \notin Drives
      BY <1>1, Names DEF ControlInv, OneExecutor
    <2>2. epc \in [Execs -> Drives \cup Tails \cup {"off"}] /\ runOf \in [Execs -> 0..MaxRun]
      BY DEF TypeOK, ExecTypes
    <2> QED
      BY <1>1, <2>1, <2>2 DEF EpcEnd, RunOfEnd, Drives
  <1>3. NewRunIsUnused'
    BY DEF NewRunIsUnused
  <1>4. BoxedIsOldest'
    <2>1. SUFFICES ASSUME NEW x \in mailbox', QueuedInput(x), x.msg \in queue
                   PROVE  /\ \A m \in queue : QueuedRow(m) => x.msg.id <= m.id
                          /\ \A d \in Execs : epc'[d] \in Drives =>
                               \A i \in DOMAIN context :
                                 QueuedInput(context[i]) => context[i].run < runOf'[d]
      BY DEF BoxedIsOldest, QueuedInput
    <2>2. x.msg \in InitialMessages(pending, freshRun) /\ QueuedRow(x.msg)
      BY <2>1 DEF StartExecution, QueuedInput, QueuedRow
    <2>3. /\ freshRun /\ x.msg \in pending
          /\ \A n \in pending : QueuedRow(n) => x.msg.id <= n.id
      BY <2>2, InitialQueued
    <2>4. a \in Advancers /\ pending = apending[a] /\ apc[a] = "startNew"
      BY <2>3
    <2>5. \A m \in queue : QueuedRow(m) => x.msg.id <= m.id
      <3>1. ASSUME NEW m \in queue, QueuedRow(m) PROVE x.msg.id <= m.id
        <4>1. m \in pending \/ x.msg.id < m.id
          BY <2>3, <2>4 DEF SnapshotsAreOldest
        <4>2. m.id \in Nat /\ x.msg.id \in Nat
          BY <2>1 DEF TypeOK, RowTypes, Rows
        <4> QED
          BY <2>3, <3>1, <4>1, <4>2
      <3> QED
        BY <3>1
    <2>6. \A i \in DOMAIN context : QueuedInput(context[i]) => context[i].run < snap[a].run
      BY <2>4 DEF OrderInv, NewRunIsUnused
    <2> QED
      BY <1>2, <2>5, <2>6
  <1>5. AnsweredAreOlder' /\ QueuedInputsInOrder'
    BY DEF OrderInv, AnsweredAreOlder, QueuedInputsInOrder, QueuedInput, QueuedRow
  <1> QED
    BY <1>3, <1>4, <1>5 DEF OrderInv

LEMMA OrderConfirms ==
  ASSUME TypeOK, ControlInv, RunsOpened, OnceInv, OrderInv,
         NEW e \in Execs, epc[e] \in Drives, NEW x \in mailbox, Confirm(e, x),
         UNCHANGED <<apc, snap, runOf>>, epc' = epc \/ \E to : epc' = [epc EXCEPT ![e] = to]
  PROVE  OrderInv'
  <1>1. mailbox' = mailbox \ {x} /\ queue' = queue \ {x.msg}
    BY DEF Confirm
  <1>d. \A d \in Execs : epc'[d] \in Drives => d = e
    <2>1. \A d \in Execs : epc[d] \in Drives => d = e
      BY DEF ControlInv, OneExecutor
    <2>2. epc \in [Execs -> Drives \cup Tails \cup {"off"}]
      BY DEF TypeOK, ExecTypes
    <2> QED
      BY <2>1, <2>2
  <1>2. CASE x.msg \notin queue \/ ~QueuedInput(x)
    <2>1. ASSUME NEW i \in DOMAIN context', QueuedInput(context'[i])
          PROVE  i \in DOMAIN context /\ context'[i] = context[i]
      <3>1. CASE x.msg \notin queue
        BY <2>1, <3>1 DEF Confirm
      <3>2. CASE x.msg \in queue
        <4>1. /\ Len(context) \in Nat /\ DOMAIN context = 1..Len(context)
              /\ DOMAIN context' = 1..(Len(context) + 1)
              /\ \A j \in DOMAIN context : context'[j] = context[j]
              /\ context'[Len(context) + 1].msg = x.msg
          BY <3>2, ConfirmedEntry
        <4>2. i # Len(context) + 1
          BY <1>2, <2>1, <3>2, <4>1 DEF QueuedInput
        <4> QED
          BY <4>1, <4>2
      <3> QED
        BY <3>1, <3>2
    <2>2. NewRunIsUnused'
      BY <2>1 DEF OrderInv, NewRunIsUnused, QueuedInput
    <2>3. BoxedIsOldest'
      BY <1>1, <1>d, <2>1 DEF OrderInv, BoxedIsOldest, QueuedInput, QueuedRow
    <2>4. AnsweredAreOlder'
      BY <1>1, <2>1 DEF OrderInv, AnsweredAreOlder, QueuedInput, QueuedRow
    <2>5. QueuedInputsInOrder'
      BY <2>1 DEF OrderInv, QueuedInputsInOrder, QueuedInput
    <2> QED
      BY <2>2, <2>3, <2>4, <2>5 DEF OrderInv
  <1>3. CASE x.msg \in queue /\ QueuedInput(x)
    <2> DEFINE last == Len(context) + 1
    <2>1. /\ Len(context) \in Nat /\ DOMAIN context = 1..Len(context)
          /\ DOMAIN context' = 1..last
          /\ \A j \in DOMAIN context : context'[j] = context[j]
          /\ context'[last].msg = x.msg /\ context'[last].run = runOf[e]
      BY <1>3, ConfirmedEntry
    <2>2. \A i \in DOMAIN context : QueuedInput(context[i])
            => context[i].run < runOf[e] /\ context[i].msg.id < x.msg.id
      BY <1>3 DEF OrderInv, BoxedIsOldest, AnsweredAreOlder, QueuedInput, QueuedRow
    <2>3. \A m \in queue' : QueuedRow(m) => x.msg.id < m.id
      <3>1. \A m \in queue' : m.id # x.msg.id /\ m \in queue
        BY <1>1, <1>3 DEF OnceInv, IdsAreOne
      <3>2. \A m \in queue : m.id \in Nat
        BY DEF TypeOK, RowTypes, Rows
      <3> QED
        BY <1>3, <3>1, <3>2 DEF OrderInv, BoxedIsOldest
    <2>4. \A i \in DOMAIN context' : i \in DOMAIN context \/ i = last
      BY <2>1
    <2>5. NewRunIsUnused'
      <3>1. \A a \in Advancers : apc[a] # "startNew"
        BY Names DEF ControlInv, StartersFindNone, Starting, OneExecutor, Driving
      <3> QED
        BY <3>1 DEF NewRunIsUnused
    <2>6. BoxedIsOldest'
      <3>1. \A y \in mailbox' : QueuedInput(y) => y.msg \notin queue'
        <4>1. SUFFICES ASSUME NEW y \in mailbox', QueuedInput(y), y.msg \in queue'
                       PROVE  FALSE
          OBVIOUS
        <4>2. x.msg.id < y.msg.id
          BY <2>3, <4>1 DEF QueuedInput, QueuedRow
        <4>3. y.msg.id <= x.msg.id
          BY <1>1, <1>3, <4>1 DEF OrderInv, BoxedIsOldest, QueuedInput, QueuedRow
        <4>4. x.msg.id \in Nat /\ y.msg.id \in Nat
          BY <1>1, <1>3, <4>1 DEF TypeOK, RowTypes, Rows
        <4> QED
          BY <4>2, <4>3, <4>4
      <3> QED
        BY <3>1 DEF BoxedIsOldest, QueuedInput
    <2>7. AnsweredAreOlder'
      <3>1. \A i \in DOMAIN context, m \in queue' :
              QueuedInput(context[i]) /\ QueuedRow(m) => context[i].msg.id < m.id
        BY <1>1 DEF OrderInv, AnsweredAreOlder
      <3> QED
        BY <2>1, <2>3, <2>4, <3>1 DEF AnsweredAreOlder, QueuedInput, QueuedRow
    <2>8. QueuedInputsInOrder'
      <3>1. \A i, j \in DOMAIN context' : i < j => i \in DOMAIN context
        BY <2>1
      <3> HIDE DEF last
      <3> QED
        BY <2>1, <2>2, <2>4, <3>1 DEF OrderInv, QueuedInputsInOrder, QueuedInput
    <2> QED
      BY <2>5, <2>6, <2>7, <2>8 DEF OrderInv
  <1> QED
    BY <1>2, <1>3

(* Only immediate messages are posted to an execution that is running.     *)
LEMMA PostsNoQueued ==
  ASSUME NEW S, Post(Immediate(S))
  PROVE  \A x \in mailbox' : QueuedInput(x) => x \in mailbox
  <1>1. \A x \in mailbox' : x \in mailbox \/ x.msg \in Immediate(S)
    BY DEF Post
  <1>2. \A m \in Immediate(S) : m.delivery # "next_run"
    BY DEF Immediate
  <1> QED
    BY <1>1, <1>2 DEF QueuedInput

LEMMA QuietAdvance ==
  ASSUME TypeOK, ControlInv, NEW a \in Advancers,
         AdvanceStep(a) \/ AdvanceFails(a), ~AdvanceStarts(a)
  PROVE  Quiet
  <1> USE ProcessNames DEF TypeOK, ExecTypes, AdvanceTypes
  <1>1. UNCHANGED context
    BY DEF AdvanceStep, AdvanceFails, AdvanceTakesGate, AdvanceDelivers, AdvanceStays,
       AdvanceClaims, AdvanceWakes, AdvanceWakeMisses, AdvanceCreates, rowVars
  <1>2. \A x \in mailbox' : QueuedInput(x) => x \in mailbox
    <2>1. UNCHANGED mailbox \/ Post(Immediate(apending[a]))
      BY DEF AdvanceStep, AdvanceFails, AdvanceTakesGate, AdvanceDelivers, AdvanceStays,
         AdvanceClaims, AdvanceWakes, AdvanceWakeMisses, AdvanceCreates, boxVars
    <2> QED
      BY <2>1, PostsNoQueued
  <1>3. \A e \in Execs : epc'[e] \in Drives => epc[e] \in Drives /\ runOf'[e] = runOf[e]
    <2>1. UNCHANGED <<epc, runOf>> \/ (epc' = EpcEnd(a) /\ runOf' = RunOfEnd(a))
      BY DEF AdvanceStep, AdvanceFails, AdvanceTakesGate, AdvanceDelivers, AdvanceStays,
         AdvanceClaims, AdvanceWakes, AdvanceWakeMisses, AdvanceCreates, execVars
    <2> QED
      BY <2>1 DEF EpcEnd, RunOfEnd, Drives
  <1>4. \A b \in Advancers : apc'[b] = "startNew" =>
          (apc[b] = "startNew" /\ snap'[b] = snap[b]) \/ snap'[b].run = current + 1
    <2>s. snap \in [Procs -> [run : 0..MaxRun, st : Statuses \cup {"none"}]]
      BY DEF RunTypes
    <2>1. CASE AdvanceCreates(a)
      <3>1. /\ apc' = [apc EXCEPT ![a] = "startNew"] /\ current' = current + 1
            /\ snap' = [snap EXCEPT ![a].run = current']
        BY <2>1 DEF AdvanceCreates, OpenRun
      <3> QED
        BY <2>s, <3>1
    <2>2. CASE ~AdvanceCreates(a)
      <3>1. \/ apc' = [apc EXCEPT ![a] = "decide"] \/ apc' = [apc EXCEPT ![a] = "off"]
            \/ apc' = [apc EXCEPT ![a] = "wake"] \/ apc' = [apc EXCEPT ![a] = "create"]
            \/ apc' = [apc EXCEPT ![a] = "startWoken"]
        BY <2>2 DEF AdvanceStep, AdvanceFails, AdvanceTakesGate, AdvanceDelivers, AdvanceStays,
           AdvanceClaims, AdvanceWakes, AdvanceWakeMisses, EndAdvance
      <3>2. snap' = snap \/ Read(a) \/ Settle(a) \/ Forget(a)
        BY <2>2 DEF AdvanceStep, AdvanceFails, AdvanceTakesGate, AdvanceDelivers, AdvanceStays,
           AdvanceClaims, AdvanceWakes, AdvanceWakeMisses, EndAdvance
      <3>3. \A b \in Advancers : b # a => snap'[b] = snap[b]
        BY <2>s, <3>2 DEF Read, Settle, Forget
      <3> QED
        BY <3>1, <3>3
    <2> QED
      BY <2>1, <2>2
  <1> QED
    BY <1>1, <1>2, <1>3, <1>4 DEF Quiet

LEMMA QuietDrive ==
  ASSUME TypeOK, ControlInv, NEW e \in Execs,
         DriveStep(e) \/ RunFails(e) \/ DriveCrashes(e) \/ TailStep(e),
         ~RunConsumes(e), ~RunClaimsDecision(e)
  PROVE  Quiet
  <1> USE DEF TypeOK, ExecTypes
  <1>1. CASE DriveReturns(e) \/ DriveDropped(e) \/ DriveCrashes(e)
    <2>1. Release(e) /\ epc[e] \in Drives
      BY <1>1 DEF DriveReturns, DriveDropped, DriveCrashes, Drives
    <2>2. UNCHANGED <<context, mailbox, snap, apc>>
      BY <2>1 DEF Release, rowVars, boxVars, advVars
    <2>3. \A d \in Execs : epc'[d] \in Drives => epc[d] \in Drives /\ runOf'[d] = runOf[d]
      BY <2>1 DEF Release, Finish, EpcEnd, RunOfEnd, Drives
    <2> QED
      BY <2>2, <2>3 DEF Quiet
  <1>2. CASE TailStep(e)
    <2>1. /\ UNCHANGED <<mailbox, snap>>
          /\ UNCHANGED rowVars \/ Enqueue("system_notice", "next_run", NoRun)
      BY <1>2, AfterCancelledRows DEF TailStep, TailReads, TailCancels, TailNotifies,
         TailContinues, tailFrame, boxVars
    <2>2. \A a \in Advancers : apc'[a] = "startNew" => apc[a] = "startNew"
      <3>1. apc' = apc \/ apc' = [apc EXCEPT ![e] = "gate"]
        BY <1>2 DEF TailStep, TailReads, TailCancels, TailNotifies, TailContinues, advVars
      <3> QED
        BY <3>1 DEF AdvanceTypes
    <2>3. \/ UNCHANGED runOf /\ \E to \in Tails : epc' = [epc EXCEPT ![e] = to]
          \/ Finish(e)
      BY <1>2 DEF TailStep, TailReads, TailCancels, TailNotifies, TailContinues, TailMoves, Tails
    <2>4. \A d \in Execs : epc'[d] \in Drives => epc[d] \in Drives /\ runOf'[d] = runOf[d]
      <3>1. epc[e] \in Tails
        BY <1>2 DEF TailStep, TailReads, TailCancels, TailNotifies, TailContinues, Tails
      <3> QED
        BY <2>3, <3>1 DEF Finish, EpcEnd, RunOfEnd, Drives, Tails
    <2>5. UNCHANGED context
      BY <2>1 DEF rowVars, Enqueue
    <2> QED
      BY <2>1, <2>2, <2>4, <2>5 DEF Quiet
  <1>3. CASE ~(DriveReturns(e) \/ DriveDropped(e) \/ DriveCrashes(e) \/ TailStep(e))
    <2>1. UNCHANGED <<context, mailbox, snap, apc, runOf>>
      BY <1>3 DEF DriveStep, RunStops, RunSuspends, RunTakesInput, RunAsksModel, RunContinues,
         RunAnswers, RunCompletes, DriveDrops, RunFails, driveFrame, rowVars, boxVars, advVars,
         execVars
    <2>2. epc[e] \in Drives /\ \E to : epc' = [epc EXCEPT ![e] = to]
      BY <1>3 DEF DriveStep, RunStops, RunSuspends, RunTakesInput, RunAsksModel, RunContinues,
         RunAnswers, RunCompletes, DriveDrops, RunFails, Drives
    <2> QED
      BY <2>1, <2>2 DEF Quiet
  <1> QED
    BY <1>1, <1>2, <1>3

LEMMA QuietOthers ==
  ASSUME TypeOK, ControlInv,
         \/ LoopWakes \/ LoopDrained \/ LoopHalts \/ StopStep \/ Environment
         \/ (\E c \in Reasons : CancelStep(c)) \/ (ResumeStep /\ ~ResumeStarts)
         \/ Rest \/ UNCHANGED vars
  PROVE  Quiet
  <1> USE ProcessNames DEF TypeOK, AdvanceTypes
  <1>s. snap \in [Procs -> [run : 0..MaxRun, st : Statuses \cup {"none"}]]
    BY DEF RunTypes
  <1>1. CASE StopStep \/ StopBegins
    <2>1. UNCHANGED <<context, mailbox, epc, runOf>>
      BY <1>1 DEF StopBegins, StopStep, StopWaits, StopHalts, StrayCommit, stopFrame, rowVars,
         boxVars, execVars
    <2>2. CASE HaltLoop
      <3>1. apc'["loop"] # "startNew" /\ \A a \in Advancers \ {"loop"} : apc'[a] = apc[a]
        BY <2>2 DEF HaltLoop
      <3>2. \A a \in Advancers \ {"loop"} : snap'[a] = snap[a]
        BY <1>s, <2>2 DEF HaltLoop, Forget
      <3> QED
        BY <2>1, <3>1, <3>2 DEF Quiet
    <2>3. CASE UNCHANGED <<snap, apc>>
      BY <2>1, <2>3 DEF Quiet
    <2>4. CASE apc' = [apc EXCEPT !["loop"] = "off"] /\ Forget("loop")
      BY <1>s, <2>1, <2>4 DEF Quiet, Forget
    <2> QED
      BY <1>1, <2>2, <2>3, <2>4 DEF StopBegins, StopStep, StopWaits, StopHalts, StrayCommit,
         advVars
  <1>2. CASE \E c \in Reasons : CancelStep(c)
    <2>1. PICK c \in Reasons : CancelStep(c)
      BY <1>2
    <2>2. UNCHANGED <<mailbox, epc, runOf, apc>>
      BY <2>1 DEF CancelStep, CancelTakesGate, CancelDecides, CancelSuspended, CancelNotifies,
         cmdFrame, boxVars, execVars, advVars
    <2>3. snap' = snap \/ Read(c) \/ Settle(c) \/ Forget(c)
      BY <2>1 DEF CancelStep, CancelTakesGate, CancelDecides, CancelSuspended, CancelNotifies,
         CommandEnds
    <2>4. \A a \in Advancers : snap'[a] = snap[a]
      BY <1>s, <2>3, Names DEF Read, Settle, Forget
    <2>5. UNCHANGED context
      BY <2>1, AfterCancelledRows DEF CancelStep, CancelTakesGate, CancelDecides,
         CancelSuspended, CancelNotifies, rowVars, Enqueue
    <2> QED
      BY <2>2, <2>4, <2>5 DEF Quiet
  <1>3. CASE ResumeStep /\ ~ResumeStarts
    <2>1. UNCHANGED <<context, mailbox, epc, runOf, apc>>
      BY <1>3 DEF ResumeStep, ResumeTakesGate, ResumeDecides, ResumeTransits, rowVars, cmdFrame,
         boxVars, execVars, advVars
    <2>2. snap' = snap \/ Read("resume") \/ Settle("resume") \/ Forget("resume")
      BY <1>3 DEF ResumeStep, ResumeTakesGate, ResumeDecides, ResumeTransits, CommandEnds
    <2>3. \A a \in Advancers : snap'[a] = snap[a]
      BY <1>s, <2>2, Names DEF Read, Settle, Forget
    <2> QED
      BY <2>1, <2>3 DEF Quiet
  <1>4. CASE \/ LoopWakes \/ LoopDrained \/ LoopHalts \/ Rest \/ UNCHANGED vars
             \/ ((Environment /\ ~StopBegins))
    <2>1. UNCHANGED <<context, mailbox, epc, runOf, snap>>
      BY <1>4 DEF LoopWakes, LoopDrained, LoopHalts, Environment, Put, Enqueue, Withdraw,
         CancelBegins, ResumeBegins, Rest, vars, rowVars, boxVars, execVars, cmdFrame
    <2>2. apc' = apc \/ apc' = [apc EXCEPT !["loop"] = "gate"]
      BY <1>4 DEF LoopWakes, LoopDrained, LoopAdvances, LoopHalts, Environment, Put, Withdraw,
         CancelBegins, ResumeBegins, Rest, vars, cmdFrame, advVars
    <2> QED
      BY <2>1, <2>2 DEF Quiet
  <1> QED
    BY <1>1, <1>2, <1>3, <1>4

LEMMA OrderNext ==
  ASSUME TypeOK, ControlInv, SnapshotsAreOldest, RunsOpened, OnceInv, OrderInv, [Next]_vars
  PROVE  OrderInv'
  <1>r. RowsStep
    BY NextRows
  <1>1. CASE Quiet
    BY <1>1, <1>r, OrderQuiet
  <1>2. ASSUME NEW a \in Advancers, AdvanceStarts(a) PROVE OrderInv'
    <2>1. /\ StartExecution(a, snap[a].run, apending[a], apc[a] = "startNew")
          /\ UNCHANGED <<queue, context>>
          /\ apc' = [apc EXCEPT ![a] = "off"]
      BY <1>2 DEF AdvanceStarts, EndAdvance, rowVars
    <2>2. \A b \in Advancers : apc'[b] # "startNew"
      <3>1. \A b \in Advancers : apc[b] = "startNew" => b = a
        BY <1>2 DEF AdvanceStarts, ControlInv, GateHeld, Critical
      <3>2. apc \in [Advancers -> Critical \cup {"off", "gate", "strayWake", "strayCreate"}]
        BY DEF TypeOK, AdvanceTypes
      <3> QED
        BY <2>1, <3>1, <3>2
    <2> QED
      BY <2>1, <2>2, OrderStarts
  <1>3. CASE ResumeStarts
    <2>1. /\ StartExecution("resume", snap["resume"].run, queue, FALSE)
          /\ UNCHANGED <<queue, context, apc>> /\ cpc["resume"] = "start"
      BY <1>3 DEF ResumeStarts, rowVars, advVars
    <2>2. \A b \in Advancers : apc'[b] # "startNew"
      BY <2>1, Names DEF ControlInv, GateHeld, Holding, Critical
    <2> QED
      BY <2>1, <2>2, OrderStarts
  <1>4. ASSUME NEW e \in Execs, RunConsumes(e) \/ RunClaimsDecision(e) PROVE OrderInv'
    <2>1. PICK x \in mailbox : Confirm(e, x)
      BY <1>4 DEF RunConsumes, RunClaimsDecision
    <2>2. /\ UNCHANGED <<apc, snap, runOf>> /\ epc[e] \in Drives
          /\ epc' = epc \/ \E to : epc' = [epc EXCEPT ![e] = to]
      BY <1>4 DEF RunConsumes, RunClaimsDecision, driveFrame, advVars, execVars, Drives
    <2> QED
      BY <2>1, <2>2, OrderConfirms
  <1>5. \/ Quiet \/ ResumeStarts \/ \E a \in Advancers : AdvanceStarts(a)
        \/ \E e \in Execs : RunConsumes(e) \/ RunClaimsDecision(e)
    <2>1. CASE LoopStep \/ (\E e \in Execs : ExecStep(e)) \/ Faults
      BY <2>1, Names, QuietAdvance, QuietDrive, QuietOthers DEF LoopStep, ExecStep, Faults
    <2>2. CASE \/ ResumeStep \/ StopStep \/ Environment \/ Rest \/ UNCHANGED vars
               \/ \E c \in Reasons : CancelStep(c)
      BY <2>2, QuietOthers
    <2> QED
      BY <2>1, <2>2 DEF Next
  <1> QED
    BY <1>1, <1>2, <1>3, <1>4, <1>5

(* Queued inputs are answered in the order they were put, one Run each,    *)
(* whatever else arrives, is withdrawn, fails or is cancelled meanwhile    *)
(* (dispatch_policy.py, "排队消息因此一轮一条依次处理").                   *)
THEOREM QueuedInputsInOrderAlways == Spec => []QueuedInputsInOrder
  <1>1. Init => SnapshotsAreOldest /\ RunsOpened /\ OrderInv
    BY ProcessNames DEF Init, SnapshotsAreOldest, RunsOpened, OrderInv, NewRunIsUnused, BoxedIsOldest,
       AnsweredAreOlder, QueuedInputsInOrder, NoSnap, NoRun
  <1>2. TypeOK /\ ControlInv /\ OnceInv /\ SnapshotsAreOldest /\ RunsOpened /\ OrderInv
          /\ [Next]_vars => (SnapshotsAreOldest /\ RunsOpened /\ OrderInv)'
    BY SnapshotNext, OpenedNext, OrderNext
  <1>3. OrderInv => QueuedInputsInOrder
    BY DEF OrderInv
  <1> QED
    BY <1>1, <1>2, <1>3, OnceAlways, ControlAlways, PTL DEF Spec

-----------------------------------------------------------------------------
(***************************************************************************)
(* The Runs of a Task as its callers see them. Nothing is assumed of the   *)
(* reads, of the budgets or of the failures. Two history variables only    *)
(* name what happened, and every step of the actor remains possible:       *)
(* `abandoned`, whether a Run was left behind between its commit and its   *)
(* execution, and `misjudged`, whether a Run was opened on a verdict that  *)
(* its row no longer supported.                                            *)
(***************************************************************************)

VARIABLES abandoned, misjudged

(* The loop is halted after it decided to wake or to open a Run and before *)
(* it started the execution; the projection raises after the commit; the   *)
(* failure of a Run cannot be settled.                                     *)
HaltsMidway == /\ StopBegins \/ StopHalts
               /\ spc' = "done"
               /\ apc["loop"] \in {"wake", "create", "startWoken", "startNew"}

Abandons == \/ HaltsMidway
            \/ \E a \in Advancers : AdvanceFails(a) /\ ~UNCHANGED runVars
            \/ \E e \in Execs : DriveCrashes(e)

(* The gate holder opens a Run on a status that it read before an await.   *)
StaleStart == \E a \in Advancers :
                /\ AdvanceClaims(a)
                /\ Decision(a) = "start" /\ Judged(a) # StatusOf(snap[a].run)

RunWatch == /\ abandoned = FALSE /\ [][abandoned' = (abandoned \/ Abandons)]_<<vars, abandoned>>
            /\ misjudged = FALSE /\ [][misjudged' = (misjudged \/ StaleStart)]_<<vars, misjudged>>

-----------------------------------------------------------------------------
(* A loop that was not halted midway leaves nothing on its way.            *)

LoopIsWhole ==
  /\ apc["loop"] \notin {"strayWake", "strayCreate"}
  /\ apc["loop"] # "off" => lpc = "advance"

LEMMA LoopIsWholeNext ==
  ASSUME TypeOK, LoopIsWhole, [Next]_vars, ~HaltsMidway
  PROVE  LoopIsWhole'
  <1> USE ProcessNames DEF TypeOK, CommandTypes, AdvanceTypes
  <1>1. ~StrayCommit
    BY DEF LoopIsWhole, StrayCommit
  <1>h. StopBegins \/ StopHalts =>
          \/ apc' = apc /\ lpc' = lpc
          \/ apc' = [apc EXCEPT !["loop"] = "off"]
    BY DEF LoopIsWhole, HaltsMidway, StopBegins, StopHalts, HaltLoop, advVars
  <1>w. StopWaits => apc' = apc /\ lpc' = lpc
    BY DEF StopWaits, advVars
  <1>0. \A e \in Execs : e # "loop"
    BY Names
  <1>2. ASSUME NEW a \in Advancers, AdvanceStep(a) \/ AdvanceFails(a)
        PROVE  /\ apc[a] # "off"
               /\ apc' # [apc EXCEPT ![a] = "off"] => lpc' = lpc
               /\ a # "loop" => lpc' = lpc
               /\ \/ apc' = [apc EXCEPT ![a] = "decide"] \/ apc' = [apc EXCEPT ![a] = "off"]
                  \/ apc' = [apc EXCEPT ![a] = "wake"] \/ apc' = [apc EXCEPT ![a] = "create"]
                  \/ apc' = [apc EXCEPT ![a] = "startWoken"]
                  \/ apc' = [apc EXCEPT ![a] = "startNew"]
    BY <1>2 DEF AdvanceStep, AdvanceFails, AdvanceTakesGate, AdvanceDelivers, AdvanceStays,
       AdvanceClaims, AdvanceWakes, AdvanceWakeMisses, AdvanceCreates, AdvanceStarts,
       EndAdvance, loopVars
  <1>3. ASSUME NEW e \in Execs, DriveStep(e) \/ TailStep(e) \/ RunFails(e) \/ DriveCrashes(e)
        PROVE  lpc' = lpc /\ (apc' = apc \/ apc' = [apc EXCEPT ![e] = "gate"])
    BY <1>3 DEF DriveStep, RunStops, RunSuspends, RunTakesInput, RunConsumes,
       RunClaimsDecision, RunAsksModel, RunContinues, RunAnswers, RunCompletes, DriveReturns,
       DriveDrops, DriveDropped, RunFails, DriveCrashes, Release, TailStep, TailReads,
       TailCancels, TailNotifies, TailContinues, driveFrame, tailFrame, advVars, loopVars
  <1>4. LoopWakes \/ LoopDrained \/ LoopHalts =>
          \/ lpc # "advance" /\ apc' = apc
          \/ lpc' = "advance" /\ apc' = [apc EXCEPT !["loop"] = "gate"]
    BY DEF LoopWakes, LoopDrained, LoopAdvances, LoopHalts, advVars
  <1>5. (\E c \in Reasons : CancelStep(c)) \/ ResumeStep \/ (Environment /\ ~StopBegins) \/ Rest
          \/ UNCHANGED vars
          => apc' = apc /\ lpc' = lpc
    BY DEF CancelStep, CancelTakesGate, CancelDecides, CancelSuspended, CancelNotifies,
       ResumeStep, ResumeTakesGate, ResumeDecides, ResumeTransits, ResumeStarts, Environment,
       Put, Withdraw, CancelBegins, ResumeBegins, Rest, vars, cmdFrame, advVars, loopVars
  <1>6. CASE LoopStep \/ (\E e \in Execs : ExecStep(e)) \/ Faults
    BY <1>6, <1>0, <1>2, <1>3, <1>4, ProcessNames DEF LoopStep, ExecStep, Faults, LoopIsWhole
  <1>7. CASE StopStep \/ StopBegins
    BY <1>7, <1>1, <1>h, <1>w DEF StopStep, LoopIsWhole
  <1>8. CASE (\E c \in Reasons : CancelStep(c)) \/ ResumeStep \/ (Environment /\ ~StopBegins) \/ Rest
              \/ UNCHANGED vars
    BY <1>8, <1>5 DEF LoopIsWhole
  <1> QED
    BY <1>6, <1>7, <1>8 DEF Next

-----------------------------------------------------------------------------
(* What the rows, the gate holders and the executions know of each other.  *)

(* Whoever holds the gate has read the Run that is still the current one,  *)
(* and so has the execution that drives it.                                *)
HoldersKnowCurrent ==
  /\ \A a \in Advancers : apc[a] \in Critical => snap[a].run = current
  /\ \A c \in Commands : cpc[c] \in Holding => snap[c].run = current

DriverKnowsCurrent == \A e \in Execs : epc[e] \in Drives => runOf[e] = current

(* The statuses S that only the current Run has: "running", whatever was    *)
(* read when, and every active one as long as no verdict was stale.        *)
Held(S) == "running" \in S /\ S \subseteq Active

EarlierAreNot(S) == \A r \in Runs : r # current => status[r] \notin S

(* A Run is opened only when the current one is not in S either.           *)
OpensUnless(S) ==
  \A a \in Advancers : apc[a] = "create" => StatusOf(current) \notin S

(* A running Run has an execution that has not settled it yet, or is about *)
(* to get one.                                                             *)
Working == {"prepare", "consume", "tools", "model", "answer"}

Driven ==
  \A r \in Runs : status[r] = "running" =>
    \/ \E e \in Execs : runOf[e] = r /\ epc[e] \in Working
    \/ \E a \in Advancers : apc[a] \in {"startWoken", "startNew"} /\ snap[a].run = r
    \/ cpc["resume"] = "start" /\ snap["resume"].run = r

LifeInv(S) == /\ HoldersKnowCurrent
              /\ DriverKnowsCurrent
              /\ EarlierAreNot(S)
              /\ OpensUnless(S)
              /\ Driven

(* The gate has one holder, and a starter finds no execution.              *)
LEMMA OneHolder ==
  ASSUME ControlInv
  PROVE  /\ \A a, b \in Advancers : apc[a] \in Critical /\ apc[b] \in Critical => a = b
         /\ \A a \in Advancers, c \in Commands : apc[a] \in Critical => cpc[c] \notin Holding
         /\ \A c, d \in Commands : cpc[c] \in Holding /\ cpc[d] \in Holding => c = d
         /\ gate = Free => /\ \A a \in Advancers : apc[a] \notin Critical
                          /\ \A c \in Commands : cpc[c] \notin Holding
         /\ \A e \in Execs : epc[e] \in Drives =>
              /\ \A a \in Advancers : apc[a] \notin Starting
              /\ cpc["resume"] \notin {"transit", "start"}
              /\ \A d \in Execs : epc[d] \in Drives => d = e
  BY Names DEF ControlInv, GateHeld, StartersFindNone, OneExecutor, Driving

LEMMA IdleIsOver ==
  ASSUME NEW S, Held(S), TypeOK, ControlInv, LifeInv(S), NEW a \in Advancers,
         apc[a] = "decide", ~Driving, StatusOf(current) # "suspended" \/ "suspended" \notin S
  PROVE  StatusOf(current) \notin S
  <1>1. StatusOf(current) # "running"
    <2>1. SUFFICES ASSUME current \in Runs, status[current] = "running" PROVE FALSE
      BY DEF StatusOf, TypeOK, RunTypes, Runs, NoRun
    <2>2. \A e \in Execs : epc[e] \notin Working
      BY Names DEF ControlInv, OneExecutor, Driving, Working, Drives
    <2>3. /\ \A b \in Advancers : apc[b] \notin {"startWoken", "startNew"}
          /\ cpc["resume"] # "start"
      BY OneHolder, Names DEF Critical, Holding
    <2> QED
      BY <2>1, <2>2, <2>3 DEF LifeInv, Driven
  <1> QED
    BY <1>1 DEF Held, Active

(* Nothing that LifeInv reads changes, except that a process leaves.       *)
LEMMA LifeLeaves ==
  ASSUME NEW S, Held(S), LifeInv(S), UNCHANGED <<status, current>>,
         \A a \in Advancers :
           apc'[a] \in Critical => apc[a] = apc'[a] /\ snap'[a] = snap[a],
         \A a \in Advancers : apc[a] \in {"startWoken", "startNew"} => apc'[a] = apc[a],
         \A c \in Commands :
           cpc'[c] \in Holding => cpc[c] = cpc'[c] /\ snap'[c] = snap[c],
         \A c \in Commands : cpc[c] = "start" => cpc'[c] = "start",
         \A e \in Execs :
           epc'[e] \in Drives => epc[e] \in Drives /\ runOf'[e] = runOf[e],
         \A e \in Execs :
           epc[e] \in Working => epc'[e] \in Working /\ runOf'[e] = runOf[e]
  PROVE  LifeInv(S)'
  <1>1. HoldersKnowCurrent' /\ DriverKnowsCurrent'
    BY DEF LifeInv, HoldersKnowCurrent, DriverKnowsCurrent
  <1>2. EarlierAreNot(S)'
    BY DEF LifeInv, EarlierAreNot
  <1>3. OpensUnless(S)'
    BY DEF LifeInv, OpensUnless, StatusOf, Critical
  <1>4. Driven'
    <2>1. "resume" \in Commands
      BY Names
    <2>2. ASSUME NEW r \in Runs, status[r] = "running"
          PROVE  \/ \E e \in Execs : runOf'[e] = r /\ epc'[e] \in Working
                 \/ \E a \in Advancers : apc'[a] \in {"startWoken", "startNew"} /\ snap'[a].run = r
                 \/ cpc'["resume"] = "start" /\ snap'["resume"].run = r
      <3>1. CASE \E e \in Execs : runOf[e] = r /\ epc[e] \in Working
        BY <3>1
      <3>2. CASE \E a \in Advancers : apc[a] \in {"startWoken", "startNew"} /\ snap[a].run = r
        BY <3>2 DEF Critical
      <3>3. CASE cpc["resume"] = "start" /\ snap["resume"].run = r
        BY <2>1, <3>3 DEF Holding
      <3> QED
        BY <2>2, <3>1, <3>2, <3>3 DEF LifeInv, Driven
    <2> QED
      BY <2>2 DEF Driven
  <1> QED
    BY <1>1, <1>2, <1>3, <1>4 DEF LifeInv

(* A Run in S is the current one.                                          *)
LEMMA ActiveIsCurrent ==
  ASSUME NEW S, LifeInv(S), NEW r \in Runs, status[r] \in S
  PROVE  r = current
  BY DEF LifeInv, EarlierAreNot

(* A transition of the current Run after which it does not run.            *)
Ends == {"SUSPEND", "COMPLETE", "FAIL", "CANCEL"}

LEMMA LifeEnds ==
  ASSUME NEW S, Held(S), TypeOK, LifeInv(S), UNCHANGED current,
         NEW run \in 0..MaxRun, NEW t \in Ends, Transit(run, t),
         \A a \in Advancers :
           apc'[a] \in Critical => apc[a] = apc'[a] /\ snap'[a] = snap[a],
         \A a \in Advancers : apc[a] \in {"startWoken", "startNew"} => apc'[a] = apc[a],
         \A c \in Commands :
           cpc'[c] \in Holding => cpc[c] \in Holding /\ snap'[c].run = snap[c].run,
         \A c \in Commands : cpc[c] = "start" => cpc'[c] = "start",
         \A e \in Execs :
           epc'[e] \in Drives => epc[e] \in Drives /\ runOf'[e] = runOf[e],
         \A e \in Execs :
           epc[e] \in Working /\ runOf[e] # run => epc'[e] \in Working /\ runOf'[e] = runOf[e]
  PROVE  LifeInv(S)'
  <1>t. status \in [Runs -> Statuses \cup {"none"}] /\ current \in 0..MaxRun
    BY DEF TypeOK, RunTypes
  <1>1. /\ \A r \in Runs : r # run => status'[r] = status[r]
        /\ run \in Runs => status'[run] = After(t, status[run])
    BY <1>t DEF Transit
  <1>2. /\ \A st : After(t, st) \in S => st \in S
        /\ \A st : After(t, st) # "running"
    BY DEF After, Applies, RunTransition, Ends, Active, Held
  <1>3. \A r \in Runs : /\ status'[r] \in S => status[r] \in S
                        /\ status'[r] = "running" => r # run /\ status[r] = "running"
    BY <1>1, <1>2
  <1>4. HoldersKnowCurrent' /\ DriverKnowsCurrent'
    BY DEF LifeInv, HoldersKnowCurrent, DriverKnowsCurrent
  <1>5. EarlierAreNot(S)'
    BY <1>3 DEF LifeInv, EarlierAreNot
  <1>6. OpensUnless(S)'
    <2>1. StatusOf(current)' \in S => StatusOf(current) \in S
      BY <1>t, <1>3 DEF StatusOf, Runs, NoRun
    <2> QED
      BY <2>1 DEF LifeInv, OpensUnless, Critical
  <1>7. Driven'
    <2>1. "resume" \in Commands
      BY Names
    <2>2. ASSUME NEW r \in Runs, status'[r] = "running"
          PROVE  \/ \E e \in Execs : runOf'[e] = r /\ epc'[e] \in Working
                 \/ \E a \in Advancers : apc'[a] \in {"startWoken", "startNew"} /\ snap'[a].run = r
                 \/ cpc'["resume"] = "start" /\ snap'["resume"].run = r
      <3>r. r # run /\ status[r] = "running"
        BY <1>3, <2>2
      <3>1. CASE \E e \in Execs : runOf[e] = r /\ epc[e] \in Working
        BY <3>1, <3>r
      <3>2. CASE \E a \in Advancers : apc[a] \in {"startWoken", "startNew"} /\ snap[a].run = r
        BY <3>2 DEF Critical
      <3>3. CASE cpc["resume"] = "start" /\ snap["resume"].run = r
        BY <2>1, <3>3 DEF Holding
      <3> QED
        BY <3>r, <3>1, <3>2, <3>3 DEF LifeInv, Driven
    <2> QED
      BY <2>2 DEF Driven
  <1> QED
    BY <1>4, <1>5, <1>6, <1>7 DEF LifeInv

(* A starter leaves the gate with an execution on the current Run.         *)
LEMMA LifeStarts ==
  ASSUME NEW S, Held(S), TypeOK, ControlInv, LifeInv(S), UNCHANGED <<status, current>>,
         NEW p \in Advancers \cup {"resume"}, NEW pending, NEW freshRun,
         StartExecution(p, snap[p].run, pending, freshRun), snap[p].run = current,
         \A a \in Advancers : apc'[a] \notin Critical,
         \A c \in Commands : cpc'[c] \notin Holding
  PROVE  LifeInv(S)'
  <1>1. PICK e \in Execs : /\ epc[e] = "off" /\ exec = NoExec
                           /\ epc' = [EpcEnd(p) EXCEPT ![e] = "prepare"]
                           /\ runOf' = [RunOfEnd(p) EXCEPT ![e] = snap[p].run]
    BY DEF StartExecution
  <1>2. /\ \A d \in Execs : epc'[d] \in Drives => d = e
        /\ epc'[e] = "prepare" /\ runOf'[e] = current
    <2>1. \A d \in Execs : epc[d] \notin Drives
      BY <1>1, Names DEF ControlInv, OneExecutor
    <2>2. epc \in [Execs -> Drives \cup Tails \cup {"off"}] /\ runOf \in [Execs -> 0..MaxRun]
      BY DEF TypeOK, ExecTypes
    <2> QED
      BY <1>1, <2>1, <2>2 DEF EpcEnd, RunOfEnd, Drives
  <1>3. HoldersKnowCurrent' /\ DriverKnowsCurrent'
    BY <1>2 DEF HoldersKnowCurrent, DriverKnowsCurrent
  <1>4. EarlierAreNot(S)' /\ OpensUnless(S)'
    BY DEF LifeInv, EarlierAreNot, OpensUnless, Critical
  <1>5. Driven'
    <2>1. \A r \in Runs : status[r] = "running" => r = current
      BY ActiveIsCurrent DEF Held
    <2> QED
      BY <1>2, <2>1 DEF Driven, Working
  <1> QED
    BY <1>3, <1>4, <1>5 DEF LifeInv

LEMMA LifeAdvance ==
  ASSUME NEW S, Held(S), TypeOK, ControlInv, LifeInv(S), NEW a \in Advancers,
         AdvanceStep(a) \/ AdvanceFails(a), ~Abandons, "suspended" \in S => ~StaleStart
  PROVE  LifeInv(S)'
  <1> USE ProcessNames, OneHolder DEF TypeOK, ExecTypes, AdvanceTypes, CommandTypes
  <1>s. snap \in [Procs -> [run : 0..MaxRun, st : Statuses \cup {"none"}]]
    BY DEF RunTypes
  <1>c. \A c \in Commands : c # a /\ c \in Procs
    BY Names
  <1>1. CASE AdvanceTakesGate(a)
    <2>1. /\ apc' = [apc EXCEPT ![a] = "decide"] /\ UNCHANGED <<status, current, epc, runOf, cpc>>
          /\ gate = Free /\ Read(a)
      BY <1>1 DEF AdvanceTakesGate, runVars, execVars
    <2>2. snap'[a].run = current /\ \A p \in Procs \ {a} : snap'[p] = snap[p]
      BY <1>s, <2>1 DEF Read
    <2>3. HoldersKnowCurrent' /\ DriverKnowsCurrent'
      BY <1>c, <2>1, <2>2 DEF LifeInv, HoldersKnowCurrent, DriverKnowsCurrent
    <2>4. EarlierAreNot(S)' /\ OpensUnless(S)'
      BY <2>1 DEF LifeInv, EarlierAreNot, OpensUnless, StatusOf
    <2>5. Driven'
      BY <1>c, <2>1, <2>2 DEF LifeInv, Driven, Critical
    <2> QED
      BY <2>3, <2>4, <2>5 DEF LifeInv
  <1>2. CASE AdvanceDelivers(a) \/ AdvanceStays(a) \/ AdvanceWakeMisses(a) \/ AdvanceFails(a)
    <2>1. /\ UNCHANGED <<status, current, cpc>>
          /\ apc[a] \in {"decide", "wake", "create"}
          /\ apc' = [apc EXCEPT ![a] = "off"] /\ Forget(a)
          /\ epc' = EpcEnd(a) /\ runOf' = RunOfEnd(a)
      BY <1>2 DEF AdvanceDelivers, AdvanceStays, AdvanceWakeMisses, AdvanceFails, EndAdvance,
         runVars, Abandons
    <2>2. \A p \in Procs \ {a} : snap'[p] = snap[p]
      BY <1>s, <2>1 DEF Forget
    <2>3. a \in Execs => epc[a] = "advance"
      BY <2>1 DEF ControlInv, AdvancesInTail
    <2>4. \A b \in Advancers : apc'[b] \in Critical => apc[b] = apc'[b] /\ snap'[b] = snap[b]
      BY <2>1, <2>2 DEF Critical
    <2>5. \A e \in Execs : epc'[e] \in Drives => epc[e] \in Drives /\ runOf'[e] = runOf[e]
      BY <2>1, <2>3 DEF EpcEnd, RunOfEnd, Drives
    <2>6. \A e \in Execs : epc[e] \in Working => epc'[e] \in Working /\ runOf'[e] = runOf[e]
      BY <2>1, <2>3 DEF EpcEnd, RunOfEnd, Working
    <2> QED
      BY <1>c, <2>1, <2>2, <2>4, <2>5, <2>6, LifeLeaves
  <1>3. CASE AdvanceClaims(a)
    <2>1. /\ UNCHANGED <<status, current, epc, runOf, cpc>> /\ apc[a] = "decide"
          /\ Decision(a) \in {"wake", "start"}
          /\ apc' = [apc EXCEPT ![a] = IF Decision(a) = "wake" THEN "wake" ELSE "create"]
          /\ Settle(a)
      BY <1>3 DEF AdvanceClaims, runVars, execVars
    <2>2. \A p \in Procs : snap'[p].run = snap[p].run
      BY <1>s, <2>1 DEF Settle
    <2>3. snap[a].run = current
      BY <2>1 DEF LifeInv, HoldersKnowCurrent, Critical
    <2>4. Decision(a) = "start" => ~Driving /\ Judged(a) # "suspended"
      BY DEF Decision, NextAction, PhaseOf
    <2>5. Decision(a) = "start" => StatusOf(current) \notin S
      <3>1. Decision(a) = "start" /\ "suspended" \in S => StatusOf(current) # "suspended"
        BY <1>3, <2>3, <2>4 DEF StaleStart
      <3> QED
        BY <2>1, <2>4, <3>1, IdleIsOver
    <2>6. HoldersKnowCurrent' /\ DriverKnowsCurrent'
      BY <2>1, <2>2, <2>3 DEF LifeInv, HoldersKnowCurrent, DriverKnowsCurrent
    <2>7. EarlierAreNot(S)'
      BY <2>1 DEF LifeInv, EarlierAreNot
    <2>8. OpensUnless(S)'
      <3>1. \A b \in Advancers : apc'[b] = "create" =>
              apc[b] = "create" \/ (b = a /\ Decision(a) = "start")
        BY <2>1
      <3> QED
        BY <2>1, <2>5, <3>1 DEF LifeInv, OpensUnless, StatusOf
    <2>9. Driven'
      BY <2>1, <2>2 DEF LifeInv, Driven
    <2> QED
      BY <2>6, <2>7, <2>8, <2>9 DEF LifeInv
  <1>4. CASE AdvanceWakes(a)
    <2>1. /\ apc[a] = "wake" /\ apc' = [apc EXCEPT ![a] = "startWoken"]
          /\ status' = [status EXCEPT ![snap[a].run] = After("WAKE", @)]
          /\ UNCHANGED <<current, snap, epc, runOf, cpc>>
      BY <1>4 DEF AdvanceWakes, Transit, execVars
    <2>2. snap[a].run = current
      BY <2>1 DEF LifeInv, HoldersKnowCurrent, Critical
    <2>3. HoldersKnowCurrent' /\ DriverKnowsCurrent'
      BY <2>1, <2>2 DEF LifeInv, HoldersKnowCurrent, DriverKnowsCurrent
    <2>4. EarlierAreNot(S)'
      BY <2>1, <2>2 DEF LifeInv, EarlierAreNot
    <2>5. OpensUnless(S)'
      <3>1. \A b \in Advancers : apc'[b] # "create"
        BY <2>1 DEF Critical
      <3> QED
        BY <3>1 DEF OpensUnless
    <2>6. Driven'
      <3>1. \A r \in Runs : status'[r] = "running" => r = current
        BY <2>1, <2>4 DEF EarlierAreNot, Held
      <3> QED
        BY <2>1, <2>2, <3>1 DEF Driven
    <2> QED
      BY <2>3, <2>4, <2>5, <2>6 DEF LifeInv
  <1>5. CASE AdvanceCreates(a)
    <2>1. /\ apc[a] = "create" /\ apc' = [apc EXCEPT ![a] = "startNew"]
          /\ current' = current + 1 /\ current < MaxRun
          /\ status' = [status EXCEPT ![current + 1] = "running"]
          /\ snap' = [snap EXCEPT ![a].run = current']
          /\ UNCHANGED <<epc, runOf, cpc>>
      BY <1>5 DEF AdvanceCreates, OpenRun, execVars
    <2>2. /\ \A b \in Advancers : apc'[b] \in Critical => b = a
          /\ \A c \in Commands : cpc'[c] \notin Holding
          /\ \A e \in Execs : epc'[e] \notin Drives
      BY <2>1 DEF Critical, Starting
    <2>3. \A r \in Runs : status[r] \notin S
      <3>1. StatusOf(current) \notin S
        BY <2>1 DEF LifeInv, OpensUnless
      <3> QED
        BY <3>1, ActiveIsCurrent, ActorAssumption DEF StatusOf, Runs, NoRun, ActorAssumption
    <2>4. HoldersKnowCurrent' /\ DriverKnowsCurrent'
      BY <1>s, <2>1, <2>2 DEF HoldersKnowCurrent, DriverKnowsCurrent
    <2>5. EarlierAreNot(S)'
      BY <2>1, <2>3 DEF EarlierAreNot, RunTypes
    <2>6. OpensUnless(S)'
      BY <2>1, <2>2 DEF OpensUnless, Critical
    <2>7. Driven'
      <3>1. \A r \in Runs : status'[r] = "running" => r = current'
        BY <2>5 DEF EarlierAreNot, Held
      <3>2. apc'[a] = "startNew" /\ snap'[a].run = current'
        BY <1>s, <2>1
      <3> QED
        BY <3>1, <3>2 DEF Driven
    <2> QED
      BY <2>4, <2>5, <2>6, <2>7 DEF LifeInv
  <1>6. CASE AdvanceStarts(a)
    <2>1. /\ apc[a] \in Critical /\ apc' = [apc EXCEPT ![a] = "off"]
          /\ StartExecution(a, snap[a].run, apending[a], apc[a] = "startNew")
          /\ UNCHANGED <<status, current, cpc>>
      BY <1>6 DEF AdvanceStarts, EndAdvance, runVars, Critical
    <2>2. snap[a].run = current
      BY <2>1 DEF LifeInv, HoldersKnowCurrent
    <2>3. /\ \A b \in Advancers : apc'[b] \notin Critical
          /\ \A c \in Commands : cpc'[c] \notin Holding
      BY <2>1 DEF Critical
    <2> QED
      BY <2>1, <2>2, <2>3, LifeStarts
  <1> QED
    BY <1>1, <1>2, <1>3, <1>4, <1>5, <1>6 DEF AdvanceStep


LEMMA LifeDrive ==
  ASSUME NEW S, Held(S), TypeOK, ControlInv, LifeInv(S), NEW e \in Execs,
         DriveStep(e) \/ RunFails(e)
  PROVE  LifeInv(S)'
  <1> USE OneHolder DEF TypeOK, ExecTypes
  <1>1. CASE RunStops(e) \/ RunSuspends(e) \/ RunCompletes(e) \/ RunFails(e)
    <2>1. /\ UNCHANGED <<current, runOf, snap, apc, cpc>>
          /\ epc[e] \in Working /\ epc' = [epc EXCEPT ![e] = "settled"]
          /\ \E t \in Ends : Transit(runOf[e], t)
      BY <1>1 DEF RunStops, RunSuspends, RunCompletes, RunFails, driveFrame, advVars, Working,
         Ends
    <2>2. \A d \in Execs : epc'[d] \in Drives => epc[d] \in Drives
      BY <2>1 DEF Working, Drives
    <2>3. \A d \in Execs : epc[d] \in Working /\ runOf[d] # runOf[e] => epc'[d] \in Working
      BY <2>1
    <2> QED
      BY <2>1, <2>2, <2>3, LifeEnds
  <1>2. CASE \/ RunTakesInput(e) \/ RunConsumes(e) \/ RunClaimsDecision(e) \/ RunAsksModel(e)
             \/ RunContinues(e) \/ RunAnswers(e) \/ DriveDrops(e)
    <2>1. /\ UNCHANGED <<status, current, runOf, snap, apc, cpc>>
          /\ \/ UNCHANGED epc
             \/ epc[e] \in Drives /\ \E to \in Working : epc' = [epc EXCEPT ![e] = to]
             \/ epc[e] = "settled" /\ epc' = [epc EXCEPT ![e] = "drop"]
      BY <1>2 DEF RunTakesInput, RunConsumes, RunClaimsDecision, RunAsksModel, RunContinues,
         RunAnswers, DriveDrops, driveFrame, advVars, runVars, execVars, Working, Drives
    <2>2. /\ \A d \in Execs : epc'[d] \in Drives => epc[d] \in Drives
          /\ \A d \in Execs : epc[d] \in Working => epc'[d] \in Working
      BY <2>1 DEF Working, Drives
    <2> QED
      BY <2>1, <2>2, LifeLeaves
  <1>3. CASE DriveReturns(e) \/ DriveDropped(e)
    <2>1. epc[e] \in {"settled", "drop"} /\ Release(e)
      BY <1>3 DEF DriveReturns, DriveDropped
    <2>2. /\ UNCHANGED <<status, current, snap, apc, cpc>>
          /\ \/ epc' = [epc EXCEPT ![e] = "tail"] /\ UNCHANGED runOf
             \/ epc' = [epc EXCEPT ![e] = "off"] /\ runOf' = [runOf EXCEPT ![e] = NoRun]
      BY <2>1 DEF Release, Finish, EpcEnd, RunOfEnd, runVars, advVars
    <2>3. /\ \A d \in Execs : epc'[d] \in Drives => epc[d] \in Drives /\ runOf'[d] = runOf[d]
          /\ \A d \in Execs : epc[d] \in Working => epc'[d] \in Working /\ runOf'[d] = runOf[d]
      BY <2>1, <2>2 DEF Working, Drives
    <2> QED
      BY <2>2, <2>3, LifeLeaves
  <1> QED
    BY <1>1, <1>2, <1>3 DEF DriveStep

LEMMA LifeTail ==
  ASSUME NEW S, Held(S), TypeOK, ControlInv, LifeInv(S), NEW e \in Execs, TailStep(e)
  PROVE  LifeInv(S)'
  <1> USE DEF TypeOK, ExecTypes, AdvanceTypes
  <1>1. /\ UNCHANGED <<current, snap, cpc>> /\ epc[e] \in Tails \ {"advance"}
        /\ apc' = apc \/ apc' = [apc EXCEPT ![e] = "gate"]
        /\ \/ Finish(e)
           \/ UNCHANGED runOf /\ \E to \in Tails : epc' = [epc EXCEPT ![e] = to]
    BY DEF TailStep, TailReads, TailCancels, TailNotifies, TailContinues, TailMoves, tailFrame,
       runVars, advVars, Tails
  <1>2. /\ \A d \in Execs : epc'[d] \in Drives => epc[d] \in Drives /\ runOf'[d] = runOf[d]
        /\ \A d \in Execs : epc[d] \in Working => epc'[d] \in Working /\ runOf'[d] = runOf[d]
    BY <1>1 DEF Finish, EpcEnd, RunOfEnd, Tails, Drives, Working
  <1>3. /\ \A a \in Advancers : apc'[a] \in Critical => apc[a] = apc'[a]
        /\ \A a \in Advancers : apc[a] \in {"startWoken", "startNew"} => apc'[a] = apc[a]
    <2>1. e \in Advancers /\ apc[e] = "off"
      BY <1>1, Names DEF ControlInv, AdvancesInTail
    <2> QED
      BY <1>1, <2>1 DEF Critical
  <1>4. CASE TailCancels(e)
    <2>1. Transit(runOf[e], "CANCEL") /\ "CANCEL" \in Ends
      BY <1>4 DEF TailCancels, Ends
    <2> QED
      BY <1>1, <1>2, <1>3, <2>1, LifeEnds
  <1>5. CASE TailReads(e) \/ TailNotifies(e) \/ TailContinues(e)
    <2>1. UNCHANGED status
      BY <1>5 DEF TailReads, TailNotifies, TailContinues, runVars
    <2> QED
      BY <1>1, <1>2, <1>3, <2>1, LifeLeaves
  <1> QED
    BY <1>4, <1>5 DEF TailStep

LEMMA LifeCancel ==
  ASSUME NEW S, Held(S), TypeOK, ControlInv, LifeInv(S), NEW c \in Reasons, CancelStep(c)
  PROVE  LifeInv(S)'
  <1> USE ProcessNames, OneHolder DEF TypeOK, CommandTypes
  <1>s. snap \in [Procs -> [run : 0..MaxRun, st : Statuses \cup {"none"}]]
    BY DEF RunTypes
  <1>0. /\ c \in Commands /\ c \in Procs /\ \A a \in Advancers : a # c
        /\ c # "resume"
    BY Names DEF Reasons
  <1>1. UNCHANGED <<current, runOf, epc, apc>>
    BY DEF CancelStep, CancelTakesGate, CancelDecides, CancelSuspended, CancelNotifies,
       execVars, cmdFrame, advVars, runVars
  <1>2. \A p \in Procs \ {c} : snap'[p] = snap[p]
    <2>1. snap' = snap \/ Read(c) \/ Settle(c) \/ Forget(c)
      BY DEF CancelStep, CancelTakesGate, CancelDecides, CancelSuspended, CancelNotifies,
         CommandEnds
    <2> QED
      BY <1>s, <2>1 DEF Read, Settle, Forget
  <1>3. CASE CancelTakesGate(c)
    <2>1. /\ UNCHANGED status
          /\ \/ cpc' = [cpc EXCEPT ![c] = "off"] /\ cpc[c] = "gate"
             \/ cpc' = [cpc EXCEPT ![c] = "decide"] /\ cpc[c] = "gate" /\ snap'[c].run = current
      BY <1>0, <1>3, <1>s DEF CancelTakesGate, runVars, Read
    <2>2. \A d \in Commands : cpc[d] = "start" => cpc'[d] = "start"
      BY <2>1
    <2>3. HoldersKnowCurrent' /\ DriverKnowsCurrent'
      BY <1>0, <1>1, <1>2, <2>1 DEF LifeInv, HoldersKnowCurrent, DriverKnowsCurrent, Holding
    <2>4. EarlierAreNot(S)' /\ OpensUnless(S)'
      BY <1>1, <2>1 DEF LifeInv, EarlierAreNot, OpensUnless, StatusOf
    <2>5. Driven'
      BY <1>0, <1>1, <1>2, <2>1, <2>2 DEF LifeInv, Driven
    <2> QED
      BY <2>3, <2>4, <2>5 DEF LifeInv
  <1>4. CASE CancelDecides(c) \/ CancelNotifies(c)
    <2>1. /\ UNCHANGED status /\ cpc[c] \in {"decide", "notify"}
          /\ \/ cpc' = [cpc EXCEPT ![c] = "off"]
             \/ cpc' = [cpc EXCEPT ![c] = "transit"] /\ snap'[c].run = snap[c].run
      BY <1>0, <1>4, <1>s DEF CancelDecides, CancelNotifies, CommandEnds, CommandMoves, runVars,
         Settle
    <2>2. \A d \in Commands : cpc[d] = "start" => cpc'[d] = "start"
      BY <2>1
    <2>3. HoldersKnowCurrent' /\ DriverKnowsCurrent'
      BY <1>0, <1>1, <1>2, <2>1 DEF LifeInv, HoldersKnowCurrent, DriverKnowsCurrent, Holding
    <2>4. EarlierAreNot(S)' /\ OpensUnless(S)'
      BY <1>1, <2>1 DEF LifeInv, EarlierAreNot, OpensUnless, StatusOf
    <2>5. Driven'
      BY <1>0, <1>1, <1>2, <2>1, <2>2 DEF LifeInv, Driven
    <2> QED
      BY <2>3, <2>4, <2>5 DEF LifeInv
  <1>5. CASE CancelSuspended(c)
    <2>1. /\ Transit(snap[c].run, "CANCEL") /\ "CANCEL" \in Ends /\ cpc[c] = "transit"
          /\ \/ cpc' = [cpc EXCEPT ![c] = "off"]
             \/ cpc' = [cpc EXCEPT ![c] = "notify"] /\ UNCHANGED snap
      BY <1>5 DEF CancelSuspended, CommandEnds, CommandMoves, Ends
    <2>2. \A d \in Commands :
            cpc'[d] \in Holding => cpc[d] \in Holding /\ snap'[d].run = snap[d].run
      BY <1>0, <1>2, <2>1 DEF Holding
    <2>3. \A d \in Commands : cpc[d] = "start" => cpc'[d] = "start"
      BY <2>1
    <2>4. snap[c].run \in 0..MaxRun
      BY <1>0, <1>s
    <2>5. \A a \in Advancers : snap'[a] = snap[a]
      BY <1>0, <1>2
    <2> QED
      BY <1>1, <2>1, <2>2, <2>3, <2>4, <2>5, LifeEnds
  <1> QED
    BY <1>3, <1>4, <1>5 DEF CancelStep

LEMMA LifeResume ==
  ASSUME NEW S, Held(S), TypeOK, ControlInv, LifeInv(S), ResumeStep
  PROVE  LifeInv(S)'
  <1> USE ProcessNames, OneHolder DEF TypeOK, CommandTypes
  <1>s. snap \in [Procs -> [run : 0..MaxRun, st : Statuses \cup {"none"}]]
    BY DEF RunTypes
  <1>0. /\ "resume" \in Commands /\ "resume" \in Procs
        /\ \A a \in Advancers : a # "resume"
    BY Names
  <1>1. UNCHANGED <<current, apc>>
    BY DEF ResumeStep, ResumeTakesGate, ResumeDecides, ResumeTransits, ResumeStarts, cmdFrame,
       advVars, runVars
  <1>2. \A p \in Procs \ {"resume"} : snap'[p] = snap[p]
    <2>1. snap' = snap \/ Read("resume") \/ Settle("resume") \/ Forget("resume")
      BY DEF ResumeStep, ResumeTakesGate, ResumeDecides, ResumeTransits, ResumeStarts,
         CommandEnds
    <2> QED
      BY <1>s, <2>1 DEF Read, Settle, Forget
  <1>3. CASE ResumeTakesGate \/ ResumeDecides
    <2>1. /\ UNCHANGED <<status, epc, runOf>> /\ cpc["resume"] \in {"gate", "decide"}
          /\ \/ cpc' = [cpc EXCEPT !["resume"] = "off"]
             \/ cpc' = [cpc EXCEPT !["resume"] = "decide"] /\ snap'["resume"].run = current
             \/ /\ cpc' = [cpc EXCEPT !["resume"] = "transit"] /\ cpc["resume"] \in Holding
                /\ snap'["resume"].run = snap["resume"].run
      BY <1>0, <1>3, <1>s DEF ResumeTakesGate, ResumeDecides, CommandEnds, CommandMoves,
         runVars, execVars, Read, Settle, Holding
    <2>2. HoldersKnowCurrent' /\ DriverKnowsCurrent'
      BY <1>0, <1>1, <1>2, <2>1 DEF LifeInv, HoldersKnowCurrent, DriverKnowsCurrent, Holding
    <2>3. EarlierAreNot(S)' /\ OpensUnless(S)'
      BY <1>1, <2>1 DEF LifeInv, EarlierAreNot, OpensUnless, StatusOf
    <2>4. Driven'
      BY <1>0, <1>1, <1>2, <2>1 DEF LifeInv, Driven
    <2> QED
      BY <2>2, <2>3, <2>4 DEF LifeInv
  <1>4. CASE ResumeTransits
    <2>1. /\ UNCHANGED <<epc, runOf>> /\ cpc["resume"] = "transit"
          /\ status' = [status EXCEPT ![snap["resume"].run] = After("RESUME", @)]
          /\ IF Applies("RESUME", status[snap["resume"].run])
             THEN cpc' = [cpc EXCEPT !["resume"] = "start"] /\ UNCHANGED snap
             ELSE cpc' = [cpc EXCEPT !["resume"] = "off"]
      BY <1>4 DEF ResumeTransits, CommandEnds, CommandMoves, execVars, Transit
    <2>2. snap["resume"].run = current
      BY <1>0, <2>1 DEF LifeInv, HoldersKnowCurrent, Holding
    <2>3. HoldersKnowCurrent' /\ DriverKnowsCurrent'
      BY <1>0, <1>1, <1>2, <2>1, <2>2 DEF LifeInv, HoldersKnowCurrent, DriverKnowsCurrent, Holding
    <2>4. EarlierAreNot(S)'
      BY <1>1, <2>1, <2>2 DEF LifeInv, EarlierAreNot
    <2>5. OpensUnless(S)'
      <3>1. \A a \in Advancers : apc'[a] # "create"
        BY <1>0, <1>1, <2>1 DEF Critical, Holding
      <3> QED
        BY <3>1 DEF OpensUnless
    <2>6. Driven'
      <3>1. CASE Applies("RESUME", status[current])
        <4>1. cpc'["resume"] = "start" /\ snap'["resume"].run = current
          BY <1>0, <2>1, <2>2, <3>1
        <4>2. \A r \in Runs : status'[r] = "running" => r = current
          BY <1>1, <2>4 DEF EarlierAreNot, Held
        <4> QED
          BY <4>1, <4>2 DEF Driven
      <3>2. CASE ~Applies("RESUME", status[current])
        <4>1. \A r \in Runs : status'[r] = status[r]
          BY <2>1, <2>2, <3>2 DEF After, RunTypes
        <4> QED
          BY <1>0, <1>1, <1>2, <2>1, <4>1 DEF LifeInv, Driven
      <3> QED
        BY <3>1, <3>2
    <2> QED
      BY <2>3, <2>4, <2>5, <2>6 DEF LifeInv
  <1>5. CASE ResumeStarts
    <2>1. /\ StartExecution("resume", snap["resume"].run, queue, FALSE)
          /\ UNCHANGED status /\ cpc["resume"] = "start"
          /\ cpc' = [cpc EXCEPT !["resume"] = "off"]
      BY <1>5 DEF ResumeStarts, runVars, CommandEnds
    <2>2. snap["resume"].run = current
      BY <1>0, <2>1 DEF LifeInv, HoldersKnowCurrent, Holding
    <2>3. /\ \A a \in Advancers : apc'[a] \notin Critical
          /\ \A c \in Commands : cpc'[c] \notin Holding
      BY <1>0, <1>1, <2>1 DEF Holding
    <2> QED
      BY <1>1, <2>1, <2>2, <2>3, LifeStarts
  <1> QED
    BY <1>3, <1>4, <1>5 DEF ResumeStep

LEMMA LifeOthers ==
  ASSUME NEW S, Held(S), TypeOK, LoopIsWhole, LifeInv(S),
         LoopWakes \/ LoopDrained \/ LoopHalts \/ StopStep \/ Environment \/ Rest, ~HaltsMidway
  PROVE  LifeInv(S)'
  <1> USE ProcessNames DEF TypeOK, AdvanceTypes, CommandTypes
  <1>1. ~StrayCommit
    BY DEF LoopIsWhole, StrayCommit
  <1>s. snap \in [Procs -> [run : 0..MaxRun, st : Statuses \cup {"none"}]]
    BY DEF RunTypes
  <1>n. "loop" \notin Commands
    BY Names
  <1>2. UNCHANGED <<status, current, epc, runOf>>
    BY <1>1 DEF LoopWakes, LoopDrained, LoopHalts, Environment, Put, Withdraw, CancelBegins,
       ResumeBegins, StopStep, StopBegins, StopWaits, StopHalts, Rest, vars, runVars, execVars,
       stopFrame
  <1>h. StopBegins \/ StopHalts =>
          /\ cpc' = cpc
          /\ \/ apc' = apc /\ snap' = snap
             \/ /\ apc' = [apc EXCEPT !["loop"] = "off"] /\ Forget("loop")
                /\ apc["loop"] \notin {"startWoken", "startNew"}
    BY DEF LoopIsWhole, HaltsMidway, StopBegins, StopHalts, HaltLoop, advVars, stopFrame
  <1>3. CASE StopBegins \/ StopHalts
    <2>1. \A a \in Advancers : apc'[a] \in Critical => apc[a] = apc'[a] /\ snap'[a] = snap[a]
      BY <1>s, <1>3, <1>h DEF Critical, Forget
    <2>2. \A a \in Advancers : apc[a] \in {"startWoken", "startNew"} => apc'[a] = apc[a]
      BY <1>3, <1>h
    <2>3. /\ \A c \in Commands : cpc'[c] \in Holding => cpc[c] = cpc'[c] /\ snap'[c] = snap[c]
          /\ \A c \in Commands : cpc[c] = "start" => cpc'[c] = "start"
      BY <1>s, <1>n, <1>3, <1>h DEF Forget
    <2> QED
      BY <1>2, <2>1, <2>2, <2>3, LifeLeaves
  <1>4. CASE ~(StopBegins \/ StopHalts)
    <2>0. UNCHANGED snap
      BY <1>1, <1>4 DEF LoopWakes, LoopDrained, LoopHalts, Environment, Put, Withdraw, CancelBegins,
         ResumeBegins, StopStep, StopWaits, Rest, vars
    <2>1. apc' = apc \/ (apc' = [apc EXCEPT !["loop"] = "gate"] /\ lpc # "advance")
      BY <1>1, <1>4 DEF LoopWakes, LoopDrained, LoopHalts, LoopAdvances, Environment, Put, Withdraw,
         CancelBegins, ResumeBegins, StopStep, StopWaits, Rest, vars, cmdFrame, advVars
    <2>2. \/ cpc' = cpc
          \/ \E c \in Commands : cpc[c] = "off" /\ cpc' = [cpc EXCEPT ![c] = "gate"]
      BY <1>1, <1>4 DEF LoopWakes, LoopDrained, LoopHalts, Environment, Put, Withdraw, CancelBegins,
         ResumeBegins, StopStep, StopWaits, stopFrame, Rest, vars
    <2>3. \A a \in Advancers : apc[a] # "off" => apc'[a] = apc[a]
      BY <2>1 DEF LoopIsWhole
    <2>4. \A a \in Advancers : apc'[a] \in Critical => apc[a] = apc'[a]
      BY <2>1 DEF Critical
    <2>5. /\ \A c \in Commands : cpc'[c] \in Holding => cpc[c] = cpc'[c]
          /\ \A c \in Commands : cpc[c] = "start" => cpc'[c] = "start"
      BY <2>2 DEF Holding
    <2> QED
      BY <1>2, <2>0, <2>3, <2>4, <2>5, LifeLeaves
  <1> QED
    BY <1>3, <1>4

LEMMA LifeNext ==
  ASSUME NEW S, Held(S), TypeOK, LoopIsWhole, ControlInv, LifeInv(S),
         \/ Next /\ ~Abandons /\ ("suspended" \in S => ~StaleStart)
         \/ UNCHANGED vars
  PROVE  LifeInv(S)'
  <1> SUFFICES ASSUME Next, ~Abandons, "suspended" \in S => ~StaleStart
               PROVE  LifeInv(S)'
    <2>1. ASSUME UNCHANGED vars PROVE LifeInv(S)'
      BY <2>1, LifeLeaves DEF vars, runVars, execVars, advVars
    <2> QED
      BY <2>1
  <1>0. /\ ~HaltsMidway
        /\ \A e \in Execs : ~DriveCrashes(e)
    BY DEF Abandons
  <1>1. CASE LoopStep \/ \E e \in Execs : ExecStep(e)
    BY <1>0, <1>1, Names, LifeOthers, LifeAdvance, LifeDrive, LifeTail DEF LoopStep, ExecStep
  <1>2. CASE ResumeStep \/ \E c \in Reasons : CancelStep(c)
    BY <1>2, LifeResume, LifeCancel
  <1>3. CASE Faults
    BY <1>0, <1>3, LifeOthers, LifeAdvance, LifeDrive DEF Faults
  <1>4. CASE StopStep \/ Environment \/ Rest
    BY <1>0, <1>4, LifeOthers
  <1> QED
    BY <1>1, <1>2, <1>3, <1>4 DEF Next

LEMMA LifeInit ==
  ASSUME NEW S, Held(S), Init
  PROVE  LoopIsWhole /\ LifeInv(S)
  BY ProcessNames, ActorAssumption
  DEF Init, LoopIsWhole, LifeInv, HoldersKnowCurrent, DriverKnowsCurrent, EarlierAreNot, Held,
      OpensUnless, Driven, Critical, Holding, Drives, Active, StatusOf, NoRun, ActorAssumption

(* What holds until a Run is abandoned, and until a verdict was stale too. *)
LifeAll == /\ TypeOK /\ ControlInv
           /\ abandoned \in BOOLEAN /\ misjudged \in BOOLEAN
           /\ ~abandoned => LoopIsWhole /\ LifeInv({"running"})
           /\ ~abandoned /\ ~misjudged => LifeInv(Active)

(* One step of the actor and what the history variables make of it.        *)
WatchedNext == /\ [Next]_vars
               /\ [abandoned' = (abandoned \/ Abandons)]_<<vars, abandoned>>
               /\ [misjudged' = (misjudged \/ StaleStart)]_<<vars, misjudged>>

LEMMA WatchedStep ==
  ASSUME LifeAll, WatchedNext
  PROVE  /\ abandoned' \in BOOLEAN /\ misjudged' \in BOOLEAN
         /\ ~abandoned' => ~abandoned /\ ((Next /\ ~Abandons) \/ UNCHANGED vars)
         /\ ~misjudged' => ~misjudged /\ ((Next /\ ~StaleStart) \/ UNCHANGED vars)
  <1>1. /\ abandoned' = (abandoned \/ Abandons) \/ UNCHANGED <<vars, abandoned>>
        /\ misjudged' = (misjudged \/ StaleStart) \/ UNCHANGED <<vars, misjudged>>
        /\ abandoned \in BOOLEAN /\ misjudged \in BOOLEAN
        /\ Next \/ UNCHANGED vars
    BY DEF LifeAll, WatchedNext
  <1>2. /\ abandoned' \in BOOLEAN
        /\ ~abandoned' => ~abandoned /\ ((Next /\ ~Abandons) \/ UNCHANGED vars)
    <2>1. CASE abandoned' = (abandoned \/ Abandons)
      <3>1. abandoned' \in BOOLEAN
        BY <2>1, Zenon
      <3>2. ~abandoned' => ~abandoned /\ ~Abandons
        BY <2>1, Zenon
      <3> QED
        BY <1>1, <3>1, <3>2, Zenon
    <2>2. CASE UNCHANGED <<vars, abandoned>>
      <3>1. abandoned' = abandoned /\ UNCHANGED vars
        BY <2>2
      <3> QED
        BY <1>1, <3>1, Zenon
    <2> QED
      BY <1>1, <2>1, <2>2, Zenon
  <1>3. /\ misjudged' \in BOOLEAN
        /\ ~misjudged' => ~misjudged /\ ((Next /\ ~StaleStart) \/ UNCHANGED vars)
    <2>1. CASE misjudged' = (misjudged \/ StaleStart)
      <3>1. misjudged' \in BOOLEAN
        BY <2>1, Zenon
      <3>2. ~misjudged' => ~misjudged /\ ~StaleStart
        BY <2>1, Zenon
      <3> QED
        BY <1>1, <3>1, <3>2, Zenon
    <2>2. CASE UNCHANGED <<vars, misjudged>>
      <3>1. misjudged' = misjudged /\ UNCHANGED vars
        BY <2>2
      <3> QED
        BY <1>1, <3>1, Zenon
    <2> QED
      BY <1>1, <2>1, <2>2, Zenon
  <1> QED
    BY <1>2, <1>3, Zenon

LEMMA LifeAlways == Spec /\ RunWatch => []LifeAll
  <1>a. Held({"running"}) /\ Held(Active) /\ "suspended" \notin {"running"}
    BY DEF Held, Active
  <1>1. Init /\ abandoned = FALSE /\ misjudged = FALSE => LifeAll
    BY <1>a, TypeInit, ControlInit, LifeInit DEF LifeAll
  <1>2. ASSUME LifeAll, WatchedNext PROVE LifeAll'
    <2>1. TypeOK' /\ ControlInv'
      BY <1>2, TypeNext, ControlNext DEF LifeAll, WatchedNext
    <2>2. ASSUME ~abandoned' PROVE LoopIsWhole' /\ LifeInv({"running"})'
      <3>1. ~abandoned /\ ((Next /\ ~Abandons) \/ UNCHANGED vars)
        BY <1>2, <2>2, WatchedStep
      <3>2. LoopIsWhole'
        <4>1. CASE UNCHANGED vars
          BY <1>2, <3>1, <4>1 DEF LifeAll, LoopIsWhole, vars, advVars, loopVars
        <4>2. CASE Next /\ ~Abandons
          BY <1>2, <3>1, <4>2, LoopIsWholeNext DEF LifeAll, Abandons
        <4> QED
          BY <3>1, <4>1, <4>2
      <3>3. LifeInv({"running"})'
        BY <1>2, <1>a, <3>1, LifeNext DEF LifeAll
      <3> QED
        BY <3>2, <3>3
    <2>3. ASSUME ~abandoned', ~misjudged' PROVE LifeInv(Active)'
      BY <1>2, <1>a, <2>3, WatchedStep, LifeNext DEF LifeAll
    <2> QED
      BY <1>2, <2>1, <2>2, <2>3, WatchedStep DEF LifeAll
  <1> QED
    BY <1>1, <1>2, PTL DEF Spec, RunWatch, WatchedNext

(* No Run stays running without an executor: the row says running only     *)
(* while an execution drives it or the holder of the gate is about to      *)
(* start one, whoever woke, opened or resumed it and however it was        *)
(* interrupted (task_actor.py, "不存在「running 但没有执行者」"), and        *)
(* however old the status was on which that was decided. Only a Run that   *)
(* was abandoned can lack one: a loop halted between the commit and the    *)
(* start, a projection or a settlement that raised.                        *)
THEOREM RunningRunIsDrivenAlways ==
  Spec /\ RunWatch => [](RunningRunIsDriven \/ abandoned)
  <1>1. LifeAll => RunningRunIsDriven \/ abandoned
    BY DEF LifeAll, LifeInv, Driven, RunningRunIsDriven
  <1> QED
    BY <1>1, LifeAlways, PTL

-----------------------------------------------------------------------------
(* The refinement, step by step.                                           *)

LEMMA TransitRefines ==
  ASSUME TypeOK, LifeInv(Active), NEW run \in 0..MaxRun, NEW t \in Transitions, Transit(run, t),
         UNCHANGED current,
         Applies(t, StatusOf(run)) => run = current
  PROVE  Lifecycle!Next \/ UNCHANGED Lifecycle!vars
  <1>t. status \in [Runs -> Statuses \cup {"none"}]
    BY DEF TypeOK, RunTypes
  <1>1. CASE run \in Runs /\ Applies(t, status[run])
    <2>1. run = current /\ current # 0
      BY <1>1 DEF StatusOf, Runs, NoRun
    <2>2. Lifecycle!Applies(t, status[current])
      BY <1>1, <2>1 DEF Applies, Lifecycle!Applies, RunTransition, Lifecycle!RunTransition
    <2>3. After(t, status[current]) = Lifecycle!RunTransition[t].to
      BY <1>1, <2>1 DEF After, RunTransition, Lifecycle!RunTransition
    <2>4. status' = [status EXCEPT ![current] = Lifecycle!RunTransition[t].to]
      BY <1>t, <2>1, <2>3 DEF Transit
    <2>5. Lifecycle!Transit(t)
      BY <2>1, <2>2, <2>4 DEF Lifecycle!Transit
    <2>6. t \in Lifecycle!Transitions
      BY DEF Transitions, Lifecycle!Transitions
    <2> QED
      BY <2>5, <2>6 DEF Lifecycle!Next
  <1>2. CASE ~(run \in Runs /\ Applies(t, status[run]))
    <2>1. status' = status
      BY <1>t, <1>2 DEF Transit, After
    <2> QED
      BY <2>1 DEF Lifecycle!vars
  <1> QED
    BY <1>1, <1>2


LEMMA StepRefines ==
  ASSUME LifeAll, WatchedNext, ~abandoned', ~misjudged'
  PROVE  Lifecycle!Next \/ UNCHANGED Lifecycle!vars
  <1>a. /\ TypeOK /\ ControlInv /\ LoopIsWhole /\ LifeInv(Active)
        /\ (Next /\ ~Abandons) \/ UNCHANGED vars
    BY WatchedStep DEF LifeAll
  <1> SUFFICES ASSUME Next, ~Abandons PROVE Lifecycle!Next \/ UNCHANGED Lifecycle!vars
    <2>1. UNCHANGED vars => UNCHANGED Lifecycle!vars
      BY DEF vars, runVars, Lifecycle!vars
    <2> QED
      BY <1>a, <2>1
  <1> USE <1>a
  <1>n. /\ {"WAKE", "RESUME", "CANCEL"} \subseteq Transitions /\ Ends \subseteq Transitions
        /\ "resume" \in Commands /\ Reasons \subseteq Commands /\ Commands \subseteq Procs
        /\ Advancers \subseteq Procs /\ Execs \subseteq Advancers /\ "loop" \in Advancers
    BY ProcessNames DEF Transitions, Ends
  <1>t. /\ \A p \in Procs : snap[p].run \in 0..MaxRun
        /\ \A e \in Execs : runOf[e] \in 0..MaxRun
        /\ current \in 0..MaxRun
    BY DEF TypeOK, RunTypes, ExecTypes
  <1>k. /\ \A a \in Advancers : apc[a] \in Critical => snap[a].run = current
        /\ \A c \in Commands : cpc[c] \in Holding => snap[c].run = current
        /\ \A e \in Execs : epc[e] \in Drives => runOf[e] = current
    BY DEF LifeInv, HoldersKnowCurrent, DriverKnowsCurrent
  <1>1. ASSUME NEW a \in Advancers, AdvanceStep(a) \/ AdvanceFails(a)
        PROVE  Lifecycle!Next \/ UNCHANGED Lifecycle!vars
    <2>1. CASE AdvanceWakes(a)
      <3>1. Transit(snap[a].run, "WAKE") /\ UNCHANGED current /\ snap[a].run = current
        BY <1>k, <2>1 DEF AdvanceWakes, Critical
      <3> QED
        BY <1>n, <1>t, <3>1, TransitRefines
    <2>2. CASE AdvanceCreates(a)
      <3>1. StatusOf(current) \notin Active
        BY <2>2 DEF AdvanceCreates, LifeInv, OpensUnless
      <3>2. current # 0 => status[current] \notin Lifecycle!Active
        BY <3>1 DEF StatusOf, NoRun, Active, Lifecycle!Active
      <3>3. Lifecycle!Open
        BY <2>2, <3>2 DEF AdvanceCreates, OpenRun, Lifecycle!Open
      <3> QED
        BY <3>3 DEF Lifecycle!Next
    <2>3. CASE ~AdvanceWakes(a) /\ ~AdvanceCreates(a)
      <3>f. AdvanceFails(a) => UNCHANGED <<status, current>>
        BY DEF Abandons, runVars
      <3>1. UNCHANGED <<status, current>>
        BY <1>1, <2>3, <3>f DEF AdvanceStep, AdvanceTakesGate, AdvanceDelivers, AdvanceStays,
           AdvanceClaims, AdvanceWakeMisses, AdvanceStarts, runVars
      <3> QED
        BY <3>1 DEF Lifecycle!vars
    <2> QED
      BY <2>1, <2>2, <2>3
  <1>2. ASSUME NEW e \in Execs, DriveStep(e) \/ RunFails(e) \/ DriveCrashes(e)
        PROVE  Lifecycle!Next \/ UNCHANGED Lifecycle!vars
    <2>1. CASE RunStops(e) \/ RunSuspends(e) \/ RunCompletes(e) \/ RunFails(e)
      <3>1. UNCHANGED current /\ epc[e] \in Drives /\ \E t \in Ends : Transit(runOf[e], t)
        BY <2>1 DEF RunStops, RunSuspends, RunCompletes, RunFails, Drives, Ends
      <3> QED
        BY <1>k, <1>n, <1>t, <3>1, TransitRefines
    <2>2. CASE ~(RunStops(e) \/ RunSuspends(e) \/ RunCompletes(e) \/ RunFails(e))
      <3>1. UNCHANGED <<status, current>>
        BY <1>2, <2>2 DEF DriveStep, RunTakesInput, RunConsumes, RunClaimsDecision, RunAsksModel,
           RunContinues, RunAnswers, DriveReturns, DriveDrops, DriveDropped, DriveCrashes,
           Release, runVars
      <3> QED
        BY <3>1 DEF Lifecycle!vars
    <2> QED
      BY <2>1, <2>2
  <1>3. ASSUME NEW e \in Execs, TailStep(e)
        PROVE  Lifecycle!Next \/ UNCHANGED Lifecycle!vars
    <2>1. CASE TailCancels(e)
      <3>1. Transit(runOf[e], "CANCEL") /\ UNCHANGED current
        BY <2>1 DEF TailCancels
      <3>2. Applies("CANCEL", StatusOf(runOf[e])) => runOf[e] = current
        <4>1. Applies("CANCEL", StatusOf(runOf[e])) => StatusOf(runOf[e]) \in Active
          BY DEF Applies, RunTransition, Active
        <4> QED
          BY <1>t, <4>1, ActiveIsCurrent DEF StatusOf, NoRun, Runs, Active
      <3> QED
        BY <1>n, <1>t, <3>1, <3>2, TransitRefines
    <2>2. CASE TailReads(e) \/ TailNotifies(e) \/ TailContinues(e)
      BY <2>2 DEF TailReads, TailNotifies, TailContinues, runVars, Lifecycle!vars
    <2> QED
      BY <1>3, <2>1, <2>2 DEF TailStep
  <1>4. ASSUME NEW c \in Reasons, CancelStep(c)
        PROVE  Lifecycle!Next \/ UNCHANGED Lifecycle!vars
    <2>1. CASE CancelSuspended(c)
      <3>1. Transit(snap[c].run, "CANCEL") /\ UNCHANGED current /\ cpc[c] \in Holding
        BY <2>1 DEF CancelSuspended, Holding
      <3> QED
        BY <1>k, <1>n, <1>t, <3>1, TransitRefines
    <2>2. CASE CancelTakesGate(c) \/ CancelDecides(c) \/ CancelNotifies(c)
      BY <2>2 DEF CancelTakesGate, CancelDecides, CancelNotifies, runVars, Lifecycle!vars
    <2> QED
      BY <1>4, <2>1, <2>2 DEF CancelStep
  <1>5. ASSUME ResumeStep
        PROVE  Lifecycle!Next \/ UNCHANGED Lifecycle!vars
    <2>1. CASE ResumeTransits
      <3>1. Transit(snap["resume"].run, "RESUME") /\ UNCHANGED current /\ cpc["resume"] \in Holding
        BY <2>1 DEF ResumeTransits, Holding
      <3> QED
        BY <1>k, <1>n, <1>t, <3>1, TransitRefines
    <2>2. CASE ResumeTakesGate \/ ResumeDecides \/ ResumeStarts
      BY <2>2 DEF ResumeTakesGate, ResumeDecides, ResumeStarts, runVars, Lifecycle!vars
    <2> QED
      BY <1>5, <2>1, <2>2 DEF ResumeStep
  <1>6. ASSUME LoopWakes \/ LoopDrained \/ LoopHalts \/ StopStep \/ Environment \/ Rest
        PROVE  UNCHANGED Lifecycle!vars
    <2>1. StopStep => UNCHANGED <<status, current>>
      BY DEF LoopIsWhole, StopStep, StopWaits, StopHalts, StrayCommit, runVars
    <2>2. Environment => UNCHANGED <<status, current>>
      BY DEF Environment, Put, Withdraw, CancelBegins, ResumeBegins, StopBegins, runVars
    <2> QED
      BY <1>6, <2>1, <2>2 DEF LoopWakes, LoopDrained, LoopHalts, Rest, vars, runVars,
         Lifecycle!vars
  <1> QED
    BY <1>n, <1>1, <1>2, <1>3, <1>4, <1>5, <1>6 DEF Next, LoopStep, ExecStep, Faults

(* The actor, its executions and the commands implement the life cycle of  *)
(* RunLifecycle: the Runs of a Task are opened one after the other, a new  *)
(* one only when the one before it has ended, and only the latest changes  *)
(* its status, along the transition table (conversation_run_ledger.py),    *)
(* in every step until a Run is abandoned or a verdict was stale.          *)
THEOREM ImplementsLifecycleAlways ==
  Spec /\ RunWatch =>
    Lifecycle!Init /\ [][Lifecycle!Next \/ abandoned' \/ misjudged']_(Lifecycle!vars)
  <1>1. Init => Lifecycle!Init
    BY DEF Init, Lifecycle!Init, Runs, Lifecycle!Runs, NoRun
  <1>2. LifeAll /\ WatchedNext => [Lifecycle!Next \/ abandoned' \/ misjudged']_(Lifecycle!vars)
    BY StepRefines
  <1> QED
    BY <1>1, <1>2, LifeAlways, PTL DEF Spec, RunWatch, WatchedNext

(* At most one Run of a Task is running or suspended at a time             *)
(* (conversation_run_status.py, "同一 Task 同时至多一条"): only a Run that *)
(* was abandoned, or opened on a stale verdict, can be a second one.       *)
THEOREM AtMostOneActiveAlways ==
  Spec /\ RunWatch => [](AtMostOneActive \/ abandoned \/ misjudged)
  <1>1. LifeAll => AtMostOneActive \/ abandoned \/ misjudged
    BY DEF LifeAll, LifeInv, EarlierAreNot, AtMostOneActive, Lifecycle!AtMostOneActive,
       Active, Lifecycle!Active, Runs, Lifecycle!Runs
  <1> QED
    BY <1>1, LifeAlways, PTL

-----------------------------------------------------------------------------
(***************************************************************************)
(* What moves a Task, when nobody interrupts it: messages come and go,     *)
(* Runs fail and are resumed, but nobody cancels them or deletes the Task, *)
(* and the database and the configuration of the model are there.          *)
(*                                                                         *)
(* NothingForgotten speaks of rest, and says nothing of how the Task got   *)
(* there. What holds on the way is that every message that should move the *)
(* Task is watched (Moves): it is newer than the watermark of the loop, or *)
(* an _advance that knows the true status holds it, or the execution that  *)
(* settled the Run has yet to read the queue. That in turn needs what the  *)
(* processes know of the current Run (KnowInv).                            *)
(***************************************************************************)

Interruptions == {"user", "parent", "stop", "config", "orphan", "settle", "queue"}

Undisturbed == \A event \in Interruptions : Budget[event] = 0

StillInv ==
  /\ \A event \in Interruptions : budget[event] = 0
  /\ spc = "off" /\ ~stopping /\ signal = "none"
  /\ lpc \in {"wait", "advance"}
  /\ apc["loop"] # "off" => lpc = "advance"
  /\ apc["loop"] \notin {"strayWake", "strayCreate"}
  /\ \A c \in Reasons : cpc[c] = "off"
  /\ \A e \in Execs : taken[e] = "none" /\ epc[e] \notin {"drop", "tailCancel", "tailNotify"}
  /\ \A r \in Runs : status[r] # "cancelled"

(* What the processes know of the current Run. A status that was read under *)
(* the gate is still true unless it was running: only the execution that    *)
(* drives a Run ends it, and whoever wakes, opens or resumes one holds the  *)
(* gate.                                                                    *)
RunsAreKnown ==
  /\ \A e \in Execs : epc[e] # "off" => runOf[e] \in Runs
  /\ CurrentStatus = "none" => current = NoRun

DriverRuns == \A e \in Execs : epc[e] \in Working => CurrentStatus = "running"

ReadingsHold ==
  /\ \A a \in Advancers :
       /\ StaleReads /\ apc[a] = "decide" /\ snap[a].st # "running" => snap[a].st = CurrentStatus
       /\ apc[a] = "wake" => CurrentStatus = "suspended"
       /\ apc[a] \in {"startWoken", "startNew"} => CurrentStatus = "running"
  /\ cpc["resume"] = "start" => CurrentStatus = "running"

ResumesARun == cpc["resume"] = "transit" => snap["resume"].run # NoRun

(* Before the first Run only an input can open one.                         *)
FirstIsAnInput == current = NoRun => \A m \in queue : Wakes(m, NoRun) => m.kind \in LaunchKinds

FreshIsPending == \A a \in Advancers : afresh[a] \subseteq apending[a]

KnowInv == /\ HoldersKnowCurrent
           /\ DriverKnowsCurrent
           /\ RunsAreKnown
           /\ DriverRuns
           /\ ReadingsHold

(* The steps that are left.                                                 *)

LEMMA StillSteps ==
  ASSUME TypeOK, StillInv, [Next]_vars
  PROVE  \/ LoopWakes
         \/ \E a \in Advancers : AdvanceStep(a)
         \/ \E e \in Execs : \/ RunSuspends(e) \/ RunCompletes(e) \/ RunFails(e) \/ RunTakesInput(e)
                             \/ RunConsumes(e) \/ RunClaimsDecision(e) \/ RunAsksModel(e) \/ RunContinues(e)
                             \/ RunAnswers(e) \/ DriveReturns(e) \/ TailReads(e) \/ TailContinues(e)
         \/ ResumeStep \/ ResumeBegins
         \/ \E c \in Classes : Put(c)
         \/ \E m \in queue : Withdraw(m)
         \/ UNCHANGED vars
  <1>1. \A event \in Interruptions : ~Spend(event)
    BY DEF StillInv, Spend
  <1>2. ~LoopDrained /\ ~LoopHalts /\ ~StopBegins /\ ~StopStep
    BY <1>1 DEF Interruptions, StillInv, LoopDrained, LoopHalts, StopBegins, StopStep, StopWaits, StopHalts, StrayCommit
  <1>3. \A c \in Reasons : ~CancelBegins(c) /\ ~CancelStep(c)
    BY <1>1 DEF Interruptions, Reasons, StillInv, CancelBegins, CancelStep, CancelTakesGate, CancelDecides,
       CancelSuspended, CancelNotifies
  <1>4. \A a \in Advancers : ~AdvanceFails(a)
    BY <1>1 DEF Interruptions, AdvanceFails
  <1>5. \A e \in Execs : ~RunStops(e) /\ ~DriveDrops(e) /\ ~DriveDropped(e) /\ ~DriveCrashes(e)
                         /\ ~TailCancels(e) /\ ~TailNotifies(e)
    BY <1>1 DEF Interruptions, StillInv, RunStops, DriveDrops, DriveDropped, DriveCrashes, TailCancels, TailNotifies
  <1>6. Execs \subseteq Advancers /\ "loop" \in Advancers
    BY DEF Advancers
  <1>7. CASE LoopStep
    BY <1>2, <1>6, <1>7 DEF LoopStep
  <1>8. CASE \E e \in Execs : ExecStep(e)
    BY <1>5, <1>6, <1>8 DEF ExecStep, DriveStep, TailStep
  <1>9. CASE Environment
    BY <1>2, <1>3, <1>9 DEF Environment
  <1>10. CASE Faults
    BY <1>2, <1>4, <1>5, <1>10 DEF Faults
  <1> QED
    BY <1>2, <1>3, <1>7, <1>8, <1>9, <1>10 DEF Next, Rest

LEMMA StillNext ==
  ASSUME TypeOK, ControlInv, StillInv, KnowInv, [Next]_vars
  PROVE  StillInv'
  <1> USE ProcessNames DEF TypeOK, AdvanceTypes, CommandTypes, ExecTypes
  <1>0. /\ \A e \in Execs : e # "loop"
        /\ "loop" \in Advancers /\ Execs \subseteq Advancers
        /\ \A c \in Reasons : c # "resume" /\ c \in Commands
    BY Names DEF Advancers, Reasons
  <1>1. Interruptions \subseteq Events /\ {"put", "withdraw", "fail", "resume"} \subseteq Events
        /\ \A event \in Interruptions : event \notin {"put", "withdraw", "fail", "resume"}
    BY DEF Interruptions, Events
  <1>2. \A t : t # "CANCEL" => \A st : After(t, st) = "cancelled" => st = "cancelled" \/ t \notin Transitions
    BY DEF After, Applies, RunTransition, Transitions
  <1>3. CASE LoopWakes
    <2>1. UNCHANGED <<budget, spc, stopping, signal, cpc, taken, epc, status>>
      BY <1>3 DEF LoopWakes, execVars, runVars, stopVars
    <2>2. lpc' = "advance" /\ apc' = [apc EXCEPT !["loop"] = "gate"]
      BY <1>3 DEF LoopWakes, LoopAdvances, StillInv
    <2> QED
      BY <1>0, <2>1, <2>2 DEF StillInv
  <1>4. ASSUME NEW a \in Advancers, AdvanceStep(a)
        PROVE  StillInv'
    <2>1. UNCHANGED <<budget, spc, stopping, signal, cpc>>
      BY <1>4 DEF AdvanceStep, AdvanceTakesGate, AdvanceDelivers, AdvanceStays, AdvanceClaims, AdvanceWakes,
         AdvanceWakeMisses, AdvanceCreates, AdvanceStarts, stopVars
    <2>2. /\ taken' = taken \/ taken' = TakenEnd(a)
          /\ epc' = epc \/ epc' = EpcEnd(a) \/ \E e \in Execs : epc' = [EpcEnd(a) EXCEPT ![e] = "prepare"]
      BY <1>4 DEF AdvanceStep, AdvanceTakesGate, AdvanceDelivers, AdvanceStays, AdvanceClaims, AdvanceWakes,
         AdvanceWakeMisses, AdvanceCreates, AdvanceStarts, execVars, StartExecution
    <2>3. \A e \in Execs : taken'[e] = "none" /\ epc'[e] \notin {"drop", "tailCancel", "tailNotify"}
      BY <2>2 DEF StillInv, TakenEnd, EpcEnd
    <2>4. /\ apc[a] # "off"
          /\ \/ lpc' = lpc /\ \E to \in {"decide", "wake", "create", "startWoken", "startNew"} :
                                apc' = [apc EXCEPT ![a] = to]
             \/ apc' = [apc EXCEPT ![a] = "off"] /\ (IF a = "loop" THEN lpc' = "wait" ELSE lpc' = lpc)
      BY <1>4 DEF AdvanceStep, AdvanceTakesGate, AdvanceDelivers, AdvanceStays, AdvanceClaims, AdvanceWakes,
         AdvanceWakeMisses, AdvanceCreates, AdvanceStarts, EndAdvance, loopVars
    <2>5. lpc' \in {"wait", "advance"} /\ (apc'["loop"] # "off" => lpc' = "advance")
          /\ apc'["loop"] \notin {"strayWake", "strayCreate"}
      BY <1>0, <2>4 DEF StillInv
    <2>6. \/ status' = status \/ Transit(snap[a].run, "WAKE")
          \/ \E r \in Runs : status' = [status EXCEPT ![r] = "running"]
      <3>1. OpenRun => \E r \in Runs : status' = [status EXCEPT ![r] = "running"]
        <4>1. current < MaxRun => current + 1 \in Runs
          BY ActorAssumption DEF Runs, RunTypes, ActorAssumption
        <4> QED
          BY <4>1 DEF OpenRun
      <3> QED
        BY <1>4, <3>1 DEF AdvanceStep, AdvanceTakesGate, AdvanceDelivers, AdvanceStays, AdvanceClaims, AdvanceWakes,
           AdvanceWakeMisses, AdvanceCreates, AdvanceStarts, runVars
    <2>7. \A r \in Runs : status'[r] # "cancelled"
      BY <1>2, <2>6 DEF StillInv, Transit, Transitions, RunTypes
    <2> QED
      BY <2>1, <2>3, <2>5, <2>7 DEF StillInv
  <1>5. ASSUME NEW e \in Execs,
               \/ RunSuspends(e) \/ RunCompletes(e) \/ RunFails(e) \/ RunTakesInput(e)
               \/ RunConsumes(e) \/ RunClaimsDecision(e) \/ RunAsksModel(e) \/ RunContinues(e)
               \/ RunAnswers(e)
        PROVE  StillInv'
    <2>1. UNCHANGED <<spc, stopping, signal, cpc, taken, lpc, apc>>
      BY <1>5 DEF RunSuspends, RunCompletes, RunFails, RunTakesInput, RunConsumes, RunClaimsDecision, RunAsksModel,
         RunContinues, RunAnswers, driveFrame, execVars, stopVars, loopVars, advVars
    <2>2. budget' = budget \/ Spend("fail")
      BY <1>5 DEF RunSuspends, RunCompletes, RunFails, RunTakesInput, RunConsumes, RunClaimsDecision, RunAsksModel,
         RunContinues, RunAnswers
    <2>3. epc' = epc \/ \E to \in Working \cup {"settled"} : epc' = [epc EXCEPT ![e] = to]
      BY <1>5 DEF RunSuspends, RunCompletes, RunFails, RunTakesInput, RunConsumes, RunClaimsDecision, RunAsksModel,
         RunContinues, RunAnswers, execVars, Working
    <2>4. status' = status \/ \E t \in {"SUSPEND", "COMPLETE", "FAIL"} : Transit(runOf[e], t)
      BY <1>5 DEF RunSuspends, RunCompletes, RunFails, RunTakesInput, RunConsumes, RunClaimsDecision, RunAsksModel,
         RunContinues, RunAnswers, runVars
    <2>5. \A r \in Runs : status'[r] # "cancelled"
      BY <1>2, <2>4 DEF StillInv, Transit, Transitions, RunTypes
    <2>6. \A d \in Execs : epc'[d] \notin {"drop", "tailCancel", "tailNotify"}
      BY <2>3 DEF StillInv, Working
    <2>7. \A event \in Interruptions : budget'[event] = 0
      BY <1>1, <2>2 DEF StillInv, Spend
    <2> QED
      BY <2>1, <2>5, <2>6, <2>7 DEF StillInv
  <1>6. ASSUME NEW e \in Execs, DriveReturns(e) \/ TailReads(e) \/ TailContinues(e)
        PROVE  StillInv'
    <2>1. UNCHANGED <<spc, stopping, cpc, lpc, budget, status>> /\ signal' = "none"
      BY <1>6 DEF DriveReturns, Release, TailReads, TailContinues, tailFrame, StillInv, stopVars, loopVars, runVars
    <2>2. \/ apc' = apc
          \/ apc' = [apc EXCEPT ![e] = "gate"]
      BY <1>6 DEF DriveReturns, Release, TailReads, TailContinues, advVars
    <2>3. /\ \/ taken' = taken \/ taken' = TakenEnd(e) \/ taken' = [taken EXCEPT ![e] = "none"]
          /\ \/ epc' = EpcEnd(e) \/ epc' = [epc EXCEPT ![e] = "tail"]
             \/ epc' = [epc EXCEPT ![e] = "tailPending"] \/ epc' = [epc EXCEPT ![e] = "advance"]
      <3>1. CASE DriveReturns(e)
        BY <3>1 DEF DriveReturns, Release, StillInv
      <3>2. CASE TailReads(e)
        <4>1. taken[e] = "none" /\ (runOf[e] \in Runs => SettledStatus(e) # "cancelled")
          BY DEF StillInv, SettledStatus
        <4>2. runOf[e] \in Runs
          BY <3>2 DEF TailReads, KnowInv, RunsAreKnown
        <4> QED
          BY <3>2, <4>1, <4>2 DEF TailReads, TailMoves, Finish
      <3>3. CASE TailContinues(e)
        BY <3>3 DEF TailContinues, TailMoves, Finish
      <3> QED
        BY <1>6, <3>1, <3>2, <3>3
    <2>4. \A d \in Execs : taken'[d] = "none" /\ epc'[d] \notin {"drop", "tailCancel", "tailNotify"}
      BY <2>3 DEF StillInv, TakenEnd, EpcEnd
    <2> QED
      BY <1>0, <2>1, <2>2, <2>4 DEF StillInv
  <1>7. CASE ResumeStep \/ ResumeBegins
    <2>1. UNCHANGED <<spc, stopping, signal, lpc, apc>> /\ (budget' = budget \/ Spend("resume"))
      BY <1>7 DEF ResumeStep, ResumeTakesGate, ResumeDecides, ResumeTransits, ResumeStarts, ResumeBegins, cmdFrame,
         stopVars, loopVars, advVars
    <2>2. cpc' = cpc \/ \E to : cpc' = [cpc EXCEPT !["resume"] = to]
      BY <1>7 DEF ResumeStep, ResumeTakesGate, ResumeDecides, ResumeTransits, ResumeStarts, ResumeBegins,
         CommandMoves, CommandEnds
    <2>3. /\ taken' = taken \/ taken' = TakenEnd("resume")
          /\ epc' = epc \/ \E e \in Execs : epc' = [EpcEnd("resume") EXCEPT ![e] = "prepare"]
      BY <1>7 DEF ResumeStep, ResumeTakesGate, ResumeDecides, ResumeTransits, ResumeStarts, ResumeBegins, execVars,
         StartExecution
    <2>4. \A d \in Execs : taken'[d] = "none" /\ epc'[d] \notin {"drop", "tailCancel", "tailNotify"}
      BY <2>3 DEF StillInv, TakenEnd, EpcEnd
    <2>5. status' = status \/ Transit(snap["resume"].run, "RESUME")
      BY <1>7 DEF ResumeStep, ResumeTakesGate, ResumeDecides, ResumeTransits, ResumeStarts, ResumeBegins, runVars
    <2>6. \A r \in Runs : status'[r] # "cancelled"
      BY <1>2, <2>5 DEF StillInv, Transit, Transitions, RunTypes
    <2>7. \A event \in Interruptions : budget'[event] = 0
      BY <1>1, <2>1 DEF StillInv, Spend
    <2> QED
      BY <1>0, <2>1, <2>2, <2>4, <2>6, <2>7 DEF StillInv
  <1>8. CASE (\E c \in Classes : Put(c)) \/ (\E m \in queue : Withdraw(m)) \/ UNCHANGED vars
    <2>1. UNCHANGED <<spc, stopping, signal, lpc, apc, cpc, taken, epc, status>>
          /\ (budget' = budget \/ Spend("put") \/ Spend("withdraw"))
      BY <1>8 DEF Put, Withdraw, vars, stopVars, loopVars, advVars, execVars, runVars
    <2>2. \A event \in Interruptions : budget'[event] = 0
      BY <1>1, <2>1 DEF StillInv, Spend
    <2> QED
      BY <2>1, <2>2 DEF StillInv
  <1> QED
    BY <1>3, <1>4, <1>5, <1>6, <1>7, <1>8, StillSteps DEF vars

(* Nothing that KnowInv reads changes, except that a process leaves.        *)
LEMMA KnowLeaves ==
  ASSUME KnowInv, UNCHANGED <<status, current>>,
         \A a \in Advancers : apc'[a] \in Critical => apc[a] = apc'[a] /\ snap'[a] = snap[a],
         \A c \in Commands : cpc'[c] \in Holding => cpc[c] = cpc'[c] /\ snap'[c] = snap[c],
         \A e \in Execs : epc'[e] # "off" => epc[e] # "off" /\ runOf'[e] = runOf[e],
         \A e \in Execs : /\ epc'[e] \in Drives => epc[e] \in Drives
                          /\ epc'[e] \in Working => epc[e] \in Working
  PROVE  KnowInv'
  <1>1. CurrentStatus' = CurrentStatus
    BY DEF CurrentStatus, StatusOf
  <1>2. HoldersKnowCurrent' /\ DriverKnowsCurrent' /\ RunsAreKnown' /\ DriverRuns'
    BY <1>1 DEF KnowInv, HoldersKnowCurrent, DriverKnowsCurrent, RunsAreKnown, DriverRuns, Drives
  <1>3. ReadingsHold'
    BY <1>1, Names DEF KnowInv, ReadingsHold, Critical, Holding
  <1> QED
    BY <1>2, <1>3 DEF KnowInv

LEMMA KnowStarts ==
  ASSUME TypeOK, ControlInv, KnowInv, UNCHANGED <<status, current>>, CurrentStatus = "running",
         NEW p \in Advancers \cup {"resume"}, NEW pending, NEW freshRun,
         StartExecution(p, snap[p].run, pending, freshRun), snap[p].run = current,
         \A a \in Advancers : apc'[a] \notin Critical,
         \A c \in Commands : cpc'[c] \notin Holding
  PROVE  KnowInv'
  <1>0. CurrentStatus' = "running" /\ current \in Runs
    BY DEF CurrentStatus, StatusOf, Runs, NoRun, TypeOK, RunTypes
  <1>1. PICK e \in Execs : /\ epc[e] = "off" /\ exec = NoExec
                           /\ epc' = [EpcEnd(p) EXCEPT ![e] = "prepare"]
                           /\ runOf' = [RunOfEnd(p) EXCEPT ![e] = snap[p].run]
    BY DEF StartExecution
  <1>2. epc \in [Execs -> Drives \cup Tails \cup {"off"}] /\ runOf \in [Execs -> 0..MaxRun]
    BY DEF TypeOK, ExecTypes
  <1>3. /\ \A d \in Execs : epc'[d] \in Drives => d = e
        /\ epc'[e] = "prepare" /\ runOf'[e] = current
        /\ \A d \in Execs : d # e /\ epc'[d] # "off" => epc[d] # "off" /\ runOf'[d] = runOf[d]
    <2>1. \A d \in Execs : epc[d] \notin Drives
      BY <1>1, Names DEF ControlInv, OneExecutor
    <2> QED
      BY <1>1, <1>2, <2>1 DEF EpcEnd, RunOfEnd, Drives
  <1>4. HoldersKnowCurrent' /\ DriverKnowsCurrent' /\ RunsAreKnown' /\ DriverRuns'
    BY <1>0, <1>3 DEF KnowInv, HoldersKnowCurrent, DriverKnowsCurrent, RunsAreKnown, DriverRuns
  <1>5. ReadingsHold'
    BY <1>0 DEF ReadingsHold, Critical
  <1> QED
    BY <1>4, <1>5 DEF KnowInv

LEMMA KnowAdvance ==
  ASSUME TypeOK, ControlInv, KnowInv, NEW a \in Advancers, AdvanceStep(a)
  PROVE  KnowInv'
  <1> USE ProcessNames, OneHolder DEF TypeOK, ExecTypes, AdvanceTypes, CommandTypes
  <1>s. snap \in [Procs -> [run : 0..MaxRun, st : Statuses \cup {"none"}]]
    BY DEF RunTypes
  <1>c. \A c \in Commands : c # a /\ c \in Procs
    BY Names
  <1>a. Advancers \subseteq Procs
    BY DEF Procs
  <1>1. CASE AdvanceTakesGate(a)
    <2>1. /\ apc' = [apc EXCEPT ![a] = "decide"] /\ UNCHANGED <<status, current, epc, runOf, cpc>>
          /\ gate = Free /\ Read(a)
      BY <1>1 DEF AdvanceTakesGate, runVars, execVars
    <2>2. /\ snap'[a].run = current /\ (StaleReads => snap'[a].st = CurrentStatus)
          /\ \A p \in Procs \ {a} : snap'[p] = snap[p]
      BY <1>a, <1>s, <2>1 DEF Read
    <2>3. HoldersKnowCurrent' /\ DriverKnowsCurrent'
      BY <1>c, <2>1, <2>2 DEF KnowInv, HoldersKnowCurrent, DriverKnowsCurrent
    <2>4. CurrentStatus' = CurrentStatus
      BY <2>1 DEF CurrentStatus, StatusOf
    <2>5. RunsAreKnown' /\ DriverRuns'
      BY <2>1, <2>4 DEF KnowInv, RunsAreKnown, DriverRuns
    <2>6. ReadingsHold'
      BY <1>a, <2>1, <2>2, <2>4 DEF KnowInv, ReadingsHold
    <2> QED
      BY <2>3, <2>5, <2>6 DEF KnowInv
  <1>2. CASE AdvanceDelivers(a) \/ AdvanceStays(a) \/ AdvanceWakeMisses(a)
    <2>1. /\ UNCHANGED <<status, current, cpc>>
          /\ apc[a] \in {"decide", "wake"}
          /\ apc' = [apc EXCEPT ![a] = "off"] /\ Forget(a)
          /\ epc' = EpcEnd(a) /\ runOf' = RunOfEnd(a)
      BY <1>2 DEF AdvanceDelivers, AdvanceStays, AdvanceWakeMisses, EndAdvance, runVars
    <2>2. \A p \in Procs \ {a} : snap'[p] = snap[p]
      BY <1>s, <2>1 DEF Forget
    <2>4. \A b \in Advancers : apc'[b] \in Critical => apc[b] = apc'[b] /\ snap'[b] = snap[b]
      BY <1>a, <2>1, <2>2 DEF Critical
    <2>5. \A e \in Execs : /\ epc'[e] # "off" => epc[e] # "off" /\ runOf'[e] = runOf[e]
                           /\ epc'[e] \in Drives => epc[e] \in Drives
                           /\ epc'[e] \in Working => epc[e] \in Working
      BY <2>1 DEF EpcEnd, RunOfEnd, Drives, Working
    <2> QED
      BY <1>c, <2>1, <2>2, <2>4, <2>5, KnowLeaves
  <1>3. CASE AdvanceClaims(a)
    <2>1. /\ UNCHANGED <<status, current, epc, runOf, cpc>> /\ apc[a] = "decide"
          /\ Decision(a) \in {"wake", "start"}
          /\ apc' = [apc EXCEPT ![a] = IF Decision(a) = "wake" THEN "wake" ELSE "create"]
          /\ Settle(a)
      BY <1>3 DEF AdvanceClaims, runVars, execVars
    <2>2. /\ \A p \in Procs : snap'[p].run = snap[p].run
          /\ \A p \in Procs \ {a} : snap'[p] = snap[p]
      BY <1>s, <2>1 DEF Settle
    <2>3. snap[a].run = current
      BY <2>1 DEF KnowInv, HoldersKnowCurrent, Critical
    <2>4. Decision(a) = "wake" => CurrentStatus = "suspended"
      <3>1. Decision(a) = "wake" => Judged(a) = "suspended"
        BY DEF Decision, NextAction, PhaseOf
      <3>2. Judged(a) = "suspended" => CurrentStatus = "suspended"
        BY <2>1, <2>3 DEF Judged, KnowInv, ReadingsHold, CurrentStatus
      <3> QED
        BY <3>1, <3>2
    <2>5. HoldersKnowCurrent' /\ DriverKnowsCurrent'
      BY <1>a, <1>c, <2>1, <2>2, <2>3 DEF KnowInv, HoldersKnowCurrent, DriverKnowsCurrent
    <2>6. CurrentStatus' = CurrentStatus
      BY <2>1 DEF CurrentStatus, StatusOf
    <2>7. RunsAreKnown' /\ DriverRuns'
      BY <2>1, <2>6 DEF KnowInv, RunsAreKnown, DriverRuns
    <2>8. ReadingsHold'
      BY <1>a, <2>1, <2>2, <2>4, <2>6 DEF KnowInv, ReadingsHold
    <2> QED
      BY <2>5, <2>7, <2>8 DEF KnowInv
  <1>4. CASE AdvanceWakes(a)
    <2>1. /\ apc[a] = "wake" /\ apc' = [apc EXCEPT ![a] = "startWoken"]
          /\ status' = [status EXCEPT ![snap[a].run] = After("WAKE", @)]
          /\ UNCHANGED <<current, snap, epc, runOf, cpc>>
      BY <1>4 DEF AdvanceWakes, Transit, execVars
    <2>2. snap[a].run = current /\ CurrentStatus = "suspended"
      BY <2>1 DEF KnowInv, HoldersKnowCurrent, ReadingsHold, Critical
    <2>3. current \in Runs /\ status[current] = "suspended"
      BY <2>2 DEF CurrentStatus, StatusOf, Runs, NoRun, RunTypes
    <2>4. CurrentStatus' = "running"
      BY <2>1, <2>2, <2>3 DEF CurrentStatus, StatusOf, After, Applies, RunTransition, RunTypes
    <2>5. HoldersKnowCurrent' /\ DriverKnowsCurrent'
      BY <2>1, <2>2 DEF KnowInv, HoldersKnowCurrent, DriverKnowsCurrent, Critical
    <2>6. RunsAreKnown' /\ DriverRuns'
      BY <2>1, <2>4 DEF KnowInv, RunsAreKnown, DriverRuns
    <2>7. ReadingsHold'
      BY <2>1, <2>4 DEF ReadingsHold, Critical
    <2> QED
      BY <2>5, <2>6, <2>7 DEF KnowInv
  <1>5. CASE AdvanceCreates(a)
    <2>1. /\ apc[a] = "create" /\ apc' = [apc EXCEPT ![a] = "startNew"]
          /\ current' = current + 1 /\ current < MaxRun
          /\ status' = [status EXCEPT ![current + 1] = "running"]
          /\ snap' = [snap EXCEPT ![a].run = current']
          /\ UNCHANGED <<epc, runOf, cpc>>
      BY <1>5 DEF AdvanceCreates, OpenRun, execVars
    <2>2. /\ \A b \in Advancers : apc'[b] \in Critical => b = a
          /\ \A c \in Commands : cpc'[c] \notin Holding
          /\ \A e \in Execs : epc'[e] \notin Drives
      BY <2>1 DEF Critical, Starting
    <2>3. current' \in Runs /\ CurrentStatus' = "running" /\ current' # NoRun
      BY <2>1, ActorAssumption DEF Runs, CurrentStatus, StatusOf, NoRun, RunTypes, ActorAssumption
    <2>4. HoldersKnowCurrent' /\ DriverKnowsCurrent'
      BY <1>a, <1>s, <2>1, <2>2 DEF HoldersKnowCurrent, DriverKnowsCurrent
    <2>5. RunsAreKnown' /\ DriverRuns'
      BY <2>1, <2>3 DEF KnowInv, RunsAreKnown, DriverRuns
    <2>6. ReadingsHold'
      BY <2>1, <2>2, <2>3 DEF ReadingsHold, Critical
    <2> QED
      BY <2>4, <2>5, <2>6 DEF KnowInv
  <1>6. CASE AdvanceStarts(a)
    <2>1. /\ apc[a] \in {"startWoken", "startNew"} /\ apc' = [apc EXCEPT ![a] = "off"]
          /\ StartExecution(a, snap[a].run, apending[a], apc[a] = "startNew")
          /\ UNCHANGED <<status, current, cpc>>
      BY <1>6 DEF AdvanceStarts, EndAdvance, runVars
    <2>2. snap[a].run = current /\ CurrentStatus = "running"
      BY <2>1 DEF KnowInv, HoldersKnowCurrent, ReadingsHold, Critical
    <2>3. /\ \A b \in Advancers : apc'[b] \notin Critical
          /\ \A c \in Commands : cpc'[c] \notin Holding
      BY <2>1 DEF Critical
    <2> QED
      BY <2>1, <2>2, <2>3, KnowStarts
  <1> QED
    BY <1>1, <1>2, <1>3, <1>4, <1>5, <1>6 DEF AdvanceStep

(* The execution that drives the current Run ends it, the others go on.     *)
LEMMA KnowDrive ==
  ASSUME TypeOK, ControlInv, StillInv, KnowInv, NEW e \in Execs,
         \/ RunSuspends(e) \/ RunCompletes(e) \/ RunFails(e) \/ RunTakesInput(e)
         \/ RunConsumes(e) \/ RunClaimsDecision(e) \/ RunAsksModel(e) \/ RunContinues(e)
         \/ RunAnswers(e) \/ DriveReturns(e) \/ TailReads(e) \/ TailContinues(e)
  PROVE  KnowInv'
  <1> USE ProcessNames, OneHolder DEF TypeOK, ExecTypes, AdvanceTypes
  <1>1. CASE RunSuspends(e) \/ RunCompletes(e) \/ RunFails(e)
    <2>1. /\ UNCHANGED <<current, runOf, snap, apc, cpc>>
          /\ epc[e] \in Working /\ epc' = [epc EXCEPT ![e] = "settled"]
          /\ \E t \in {"SUSPEND", "COMPLETE", "FAIL"} : status' = [status EXCEPT ![runOf[e]] = After(t, @)]
      BY <1>1 DEF RunSuspends, RunCompletes, RunFails, driveFrame, advVars, Working, Transit
    <2>2. runOf[e] = current /\ CurrentStatus = "running" /\ current \in Runs /\ status[current] = "running"
      <3>1. epc[e] \in Drives
        BY <2>1 DEF Working, Drives
      <3> QED
        BY <2>1, <3>1 DEF KnowInv, DriverKnowsCurrent, DriverRuns, CurrentStatus, StatusOf, Runs, NoRun, RunTypes
    <2>3. CurrentStatus' # "none"
      BY <2>1, <2>2 DEF CurrentStatus, StatusOf, After, Applies, RunTransition, RunTypes, Runs, NoRun
    <2>4. HoldersKnowCurrent' /\ DriverKnowsCurrent'
      BY <2>1 DEF KnowInv, HoldersKnowCurrent, DriverKnowsCurrent, Working, Drives
    <2>5. RunsAreKnown'
      BY <2>1, <2>3 DEF KnowInv, RunsAreKnown, Working
    <2>6. DriverRuns'
      <3>1. \A d \in Execs : epc[d] \in Working => d = e
        BY <2>1 DEF Working, Drives
      <3> QED
        BY <2>1, <3>1 DEF DriverRuns, Working
    <2>7. ReadingsHold'
      <3>1. epc[e] \in Drives
        BY <2>1 DEF Working, Drives
      <3>2. /\ \A a \in Advancers : apc[a] \notin Starting
            /\ cpc["resume"] # "start"
        BY <3>1
      <3>3. \A a \in Advancers : StaleReads /\ apc[a] = "decide" => snap[a].st = "running"
        BY <2>2 DEF KnowInv, ReadingsHold
      <3> QED
        BY <2>1, <3>2, <3>3 DEF ReadingsHold, Starting
    <2> QED
      BY <2>4, <2>5, <2>6, <2>7 DEF KnowInv
  <1>2. CASE \/ RunTakesInput(e) \/ RunConsumes(e) \/ RunClaimsDecision(e) \/ RunAsksModel(e)
             \/ RunContinues(e) \/ RunAnswers(e)
    <2>1. /\ UNCHANGED <<status, current, runOf, snap, apc, cpc>> /\ epc[e] \in Working
          /\ \/ UNCHANGED epc
             \/ \E to \in Working : epc' = [epc EXCEPT ![e] = to]
      BY <1>2 DEF RunTakesInput, RunConsumes, RunClaimsDecision, RunAsksModel, RunContinues,
         RunAnswers, driveFrame, advVars, runVars, execVars, Working
    <2> QED
      BY <2>1, KnowLeaves DEF Working, Drives
  <1>3. CASE DriveReturns(e)
    <2>1. /\ UNCHANGED <<status, current, snap, apc, cpc, runOf>>
          /\ epc[e] = "settled" /\ epc' = [epc EXCEPT ![e] = "tail"]
      BY <1>3 DEF DriveReturns, Release, StillInv, runVars, advVars
    <2> QED
      BY <2>1, KnowLeaves DEF Working, Drives
  <1>4. CASE TailReads(e) \/ TailContinues(e)
    <2>1. /\ UNCHANGED <<status, current, snap, cpc>> /\ epc[e] \in {"tail", "tailPending"}
          /\ apc' = apc \/ apc' = [apc EXCEPT ![e] = "gate"]
          /\ \/ epc' = EpcEnd(e) /\ runOf' = RunOfEnd(e)
             \/ UNCHANGED runOf /\ \E to \in Tails : epc' = [epc EXCEPT ![e] = to]
      BY <1>4 DEF TailReads, TailContinues, TailMoves, Finish, tailFrame, runVars, advVars, Tails
    <2>2. \A d \in Execs : /\ epc'[d] # "off" => epc[d] # "off" /\ runOf'[d] = runOf[d]
                           /\ epc'[d] \in Drives => epc[d] \in Drives
                           /\ epc'[d] \in Working => epc[d] \in Working
      BY <2>1 DEF EpcEnd, RunOfEnd, Tails, Drives, Working
    <2>3. \A a \in Advancers : apc'[a] \in Critical => apc[a] = apc'[a]
      BY <2>1 DEF Critical
    <2> QED
      BY <2>1, <2>2, <2>3, KnowLeaves
  <1> QED
    BY <1>1, <1>2, <1>3, <1>4

LEMMA KnowResume ==
  ASSUME TypeOK, ControlInv, KnowInv, ResumesARun, ResumeStep
  PROVE  KnowInv'
  <1> USE ProcessNames, OneHolder DEF TypeOK, CommandTypes
  <1>s. snap \in [Procs -> [run : 0..MaxRun, st : Statuses \cup {"none"}]]
    BY DEF RunTypes
  <1>0. /\ "resume" \in Commands /\ "resume" \in Procs
        /\ \A a \in Advancers : a # "resume" /\ a \in Procs
        /\ \A c \in Commands : c \in Procs
    BY Names DEF Procs
  <1>1. UNCHANGED <<current, apc>>
    BY DEF ResumeStep, ResumeTakesGate, ResumeDecides, ResumeTransits, ResumeStarts, cmdFrame,
       advVars, runVars
  <1>2. \A p \in Procs \ {"resume"} : snap'[p] = snap[p]
    <2>1. snap' = snap \/ Read("resume") \/ Settle("resume") \/ Forget("resume")
      BY DEF ResumeStep, ResumeTakesGate, ResumeDecides, ResumeTransits, ResumeStarts,
         CommandEnds
    <2> QED
      BY <1>s, <2>1 DEF Read, Settle, Forget
  <1>3. CASE ResumeTakesGate \/ ResumeDecides
    <2>1. /\ UNCHANGED <<status, epc, runOf>> /\ cpc["resume"] \in {"gate", "decide"}
          /\ \/ cpc' = [cpc EXCEPT !["resume"] = "off"]
             \/ cpc' = [cpc EXCEPT !["resume"] = "decide"] /\ snap'["resume"].run = current
             \/ /\ cpc' = [cpc EXCEPT !["resume"] = "transit"] /\ cpc["resume"] \in Holding
                /\ snap'["resume"].run = snap["resume"].run
      BY <1>0, <1>3, <1>s DEF ResumeTakesGate, ResumeDecides, CommandEnds, CommandMoves,
         runVars, execVars, Read, Settle, Holding
    <2>2. HoldersKnowCurrent' /\ DriverKnowsCurrent'
      BY <1>0, <1>1, <1>2, <2>1 DEF KnowInv, HoldersKnowCurrent, DriverKnowsCurrent, Holding
    <2>3. CurrentStatus' = CurrentStatus
      BY <1>1, <2>1 DEF CurrentStatus, StatusOf
    <2>4. RunsAreKnown' /\ DriverRuns'
      BY <1>1, <2>1, <2>3 DEF KnowInv, RunsAreKnown, DriverRuns
    <2>5. ReadingsHold'
      BY <1>0, <1>1, <1>2, <2>1, <2>3 DEF KnowInv, ReadingsHold
    <2> QED
      BY <2>2, <2>4, <2>5 DEF KnowInv
  <1>4. CASE ResumeTransits
    <2>1. /\ UNCHANGED <<epc, runOf>> /\ cpc["resume"] = "transit"
          /\ status' = [status EXCEPT ![snap["resume"].run] = After("RESUME", @)]
          /\ IF Applies("RESUME", status[snap["resume"].run])
             THEN cpc' = [cpc EXCEPT !["resume"] = "start"] /\ UNCHANGED snap
             ELSE cpc' = [cpc EXCEPT !["resume"] = "off"]
      BY <1>4 DEF ResumeTransits, CommandEnds, CommandMoves, execVars, Transit
    <2>2. snap["resume"].run = current /\ current \in Runs
      <3>1. snap["resume"].run = current
        BY <1>0, <2>1 DEF KnowInv, HoldersKnowCurrent, Holding
      <3>2. snap["resume"].run # NoRun
        BY <2>1 DEF ResumesARun
      <3> QED
        BY <1>0, <1>s, <3>1, <3>2 DEF Runs, NoRun
    <2>3. HoldersKnowCurrent' /\ DriverKnowsCurrent'
      BY <1>0, <1>1, <1>2, <2>1, <2>2 DEF KnowInv, HoldersKnowCurrent, DriverKnowsCurrent, Holding
    <2>4. \/ CurrentStatus' = "running"
          \/ CurrentStatus' = CurrentStatus /\ cpc'["resume"] = "off"
      BY <1>0, <1>1, <2>1, <2>2 DEF CurrentStatus, StatusOf, After, Applies, RunTransition, RunTypes, Runs, NoRun
    <2>5. /\ \A a \in Advancers : apc[a] \notin Critical
          /\ \A e \in Execs : epc[e] \notin Drives
      BY <1>0, <2>1 DEF Holding
    <2>6. RunsAreKnown' /\ DriverRuns'
      BY <1>1, <2>1, <2>4, <2>5 DEF KnowInv, RunsAreKnown, DriverRuns, Drives, Working
    <2>7. ReadingsHold'
      BY <1>1, <2>4, <2>5 DEF ReadingsHold, Critical
    <2> QED
      BY <2>3, <2>6, <2>7 DEF KnowInv
  <1>5. CASE ResumeStarts
    <2>1. /\ StartExecution("resume", snap["resume"].run, queue, FALSE)
          /\ UNCHANGED status /\ cpc["resume"] = "start"
          /\ cpc' = [cpc EXCEPT !["resume"] = "off"]
      BY <1>5 DEF ResumeStarts, runVars, CommandEnds
    <2>2. snap["resume"].run = current /\ CurrentStatus = "running"
      BY <1>0, <2>1 DEF KnowInv, HoldersKnowCurrent, ReadingsHold, Holding
    <2>3. /\ \A a \in Advancers : apc'[a] \notin Critical
          /\ \A c \in Commands : cpc'[c] \notin Holding
      BY <1>0, <1>1, <2>1 DEF Holding
    <2> QED
      BY <1>1, <2>1, <2>2, <2>3, KnowStarts
  <1> QED
    BY <1>3, <1>4, <1>5 DEF ResumeStep

LEMMA KnowOthers ==
  ASSUME TypeOK, StillInv, KnowInv,
         \/ LoopWakes \/ ResumeBegins \/ (\E c \in Classes : Put(c)) \/ (\E m \in queue : Withdraw(m))
         \/ UNCHANGED vars
  PROVE  KnowInv'
  <1> USE ProcessNames DEF TypeOK, AdvanceTypes, CommandTypes
  <1>1. UNCHANGED <<status, current, epc, runOf, snap>>
    BY DEF LoopWakes, Put, Withdraw, ResumeBegins, vars, runVars, execVars
  <1>2. apc' = apc \/ apc' = [apc EXCEPT !["loop"] = "gate"]
    BY DEF LoopWakes, LoopAdvances, Put, Withdraw, ResumeBegins, vars, cmdFrame, advVars
  <1>3. cpc' = cpc \/ cpc' = [cpc EXCEPT !["resume"] = "gate"]
    BY DEF LoopWakes, Put, Withdraw, ResumeBegins, vars
  <1>4. \A a \in Advancers : apc'[a] \in Critical => apc[a] = apc'[a]
    BY <1>2 DEF Critical
  <1>5. \A c \in Commands : cpc'[c] \in Holding => cpc[c] = cpc'[c]
    BY <1>3 DEF Holding
  <1> QED
    BY <1>1, <1>4, <1>5, KnowLeaves

LEMMA KnowNext ==
  ASSUME TypeOK, ControlInv, StillInv, KnowInv, ResumesARun, [Next]_vars
  PROVE  KnowInv'
  BY StillSteps, KnowAdvance, KnowDrive, KnowResume, KnowOthers

LEMMA ResumesNext ==
  ASSUME TypeOK, StillInv, ResumesARun, [Next]_vars
  PROVE  ResumesARun'
  <1> USE ProcessNames DEF TypeOK, CommandTypes
  <1>s. snap \in [Procs -> [run : 0..MaxRun, st : Statuses \cup {"none"}]]
    BY DEF RunTypes
  <1>0. /\ "resume" \in Commands /\ "resume" \in Procs
        /\ \A a \in Advancers : a # "resume" /\ a \in Procs
    BY Names DEF Procs
  <1>1. CASE ResumeStep
    <2>1. CASE ResumeDecides
      <3>1. cpc' = [cpc EXCEPT !["resume"] = "off"] \/ (snap["resume"].run # NoRun /\ Settle("resume"))
        BY <2>1 DEF ResumeDecides, CommandEnds
      <3> QED
        BY <1>0, <1>s, <3>1 DEF ResumesARun, Settle
    <2>2. CASE ResumeTakesGate \/ ResumeTransits \/ ResumeStarts
      <3>1. \E to \in {"off", "decide", "start"} : cpc' = [cpc EXCEPT !["resume"] = to]
        BY <2>2 DEF ResumeTakesGate, ResumeTransits, ResumeStarts, CommandEnds, CommandMoves
      <3> QED
        BY <1>0, <3>1 DEF ResumesARun
    <2> QED
      BY <1>1, <2>1, <2>2 DEF ResumeStep
  <1>2. ASSUME NEW a \in Advancers, AdvanceStep(a)
        PROVE  ResumesARun'
    <2>1. cpc' = cpc
      BY <1>2 DEF AdvanceStep, AdvanceTakesGate, AdvanceDelivers, AdvanceStays, AdvanceClaims, AdvanceWakes,
         AdvanceWakeMisses, AdvanceCreates, AdvanceStarts
    <2>2. snap' = snap \/ \E r : snap' = [snap EXCEPT ![a] = r]
      <3>1. snap' = snap \/ Read(a) \/ Settle(a) \/ Forget(a) \/ snap' = [snap EXCEPT ![a].run = current']
        BY <1>2 DEF AdvanceStep, AdvanceTakesGate, AdvanceDelivers, AdvanceStays, AdvanceClaims, AdvanceWakes,
           AdvanceWakeMisses, AdvanceCreates, AdvanceStarts, EndAdvance
      <3> QED
        BY <3>1 DEF Read, Settle, Forget
    <2> QED
      BY <1>0, <1>s, <2>1, <2>2 DEF ResumesARun
  <1>3. ASSUME ~ResumeStep, \A a \in Advancers : ~AdvanceStep(a)
        PROVE  ResumesARun'
    <2>1. snap' = snap /\ (cpc' = cpc \/ cpc' = [cpc EXCEPT !["resume"] = "gate"])
      BY <1>3, StillSteps DEF LoopWakes, RunSuspends, RunCompletes, RunFails, RunTakesInput, RunConsumes,
         RunClaimsDecision, RunAsksModel, RunContinues, RunAnswers, DriveReturns, Release, TailReads, TailContinues,
         ResumeBegins, Put, Withdraw, vars, driveFrame, tailFrame
    <2> QED
      BY <1>0, <2>1 DEF ResumesARun
  <1> QED
    BY <1>1, <1>2, <1>3

LEMMA QueueGrows ==
  ASSUME TypeOK, StillInv, [Next]_vars
  PROVE  /\ \/ UNCHANGED issued /\ queue' \subseteq queue
            \/ \E c \in Classes : Put(c)
         /\ current' = current \/ current' = current + 1
  <1>1. CASE \E c \in Classes : Put(c)
    BY <1>1 DEF Put, runVars
  <1>2. ASSUME NEW a \in Advancers, AdvanceStep(a)
        PROVE  UNCHANGED <<queue, issued>> /\ (current' = current \/ current' = current + 1)
    BY <1>2 DEF AdvanceStep, AdvanceTakesGate, AdvanceDelivers, AdvanceStays, AdvanceClaims, AdvanceWakes,
       AdvanceWakeMisses, AdvanceCreates, AdvanceStarts, OpenRun, rowVars, runVars
  <1>3. ASSUME NEW e \in Execs, RunConsumes(e) \/ RunClaimsDecision(e)
        PROVE  queue' \subseteq queue /\ UNCHANGED <<issued, current>>
    BY <1>3 DEF RunConsumes, RunClaimsDecision, Confirm, runVars
  <1>4. ASSUME NEW e \in Execs,
               \/ RunSuspends(e) \/ RunCompletes(e) \/ RunFails(e) \/ RunTakesInput(e) \/ RunAsksModel(e)
               \/ RunContinues(e) \/ RunAnswers(e) \/ DriveReturns(e) \/ TailReads(e) \/ TailContinues(e)
        PROVE  UNCHANGED <<queue, issued, current>>
    BY <1>4 DEF RunSuspends, RunCompletes, RunFails, RunTakesInput, RunAsksModel, RunContinues, RunAnswers,
       DriveReturns, Release, TailReads, TailContinues, rowVars, runVars
  <1>5. CASE ResumeStep \/ ResumeBegins \/ LoopWakes \/ UNCHANGED vars
    BY <1>5 DEF ResumeStep, ResumeTakesGate, ResumeDecides, ResumeTransits, ResumeStarts, ResumeBegins, LoopWakes,
       vars, rowVars, runVars
  <1>6. CASE \E m \in queue : Withdraw(m)
    BY <1>6 DEF Withdraw, runVars
  <1> QED
    BY <1>1, <1>2, <1>3, <1>4, <1>5, <1>6, StillSteps

LEMMA FirstNext ==
  ASSUME TypeOK, StillInv, FirstIsAnInput, [Next]_vars
  PROVE  FirstIsAnInput'
  <1> SUFFICES ASSUME current' = NoRun, NEW m \in queue', Wakes(m, NoRun)
               PROVE  m.kind \in LaunchKinds
    BY DEF FirstIsAnInput, Wakes
  <1>1. current = NoRun
    BY QueueGrows DEF TypeOK, RunTypes, NoRun
  <1>2. CASE m \in queue
    BY <1>1, <1>2 DEF FirstIsAnInput
  <1>3. CASE m \notin queue
    <2>1. PICK c \in Classes : Put(c)
      BY <1>3, QueueGrows
    <2>2. m.kind = c.kind /\ c.kind \in Kinds /\ c.kind \notin {"user_decision", "background_result"}
      BY <1>1, <1>3, <2>1, ActorAssumption DEF Put, Enqueue, Row, ActorAssumption
    <2>3. m.kind # "system_notice"
      BY <2>2 DEF Wakes
    <2> QED
      BY <2>2, <2>3 DEF Kinds, LaunchKinds
  <1> QED
    BY <1>2, <1>3

LEMMA FreshNext ==
  ASSUME TypeOK, StillInv, FreshIsPending, [Next]_vars
  PROVE  FreshIsPending'
  <1> USE DEF TypeOK, AdvanceTypes, FreshIsPending
  <1>1. CASE LoopWakes
    <2>1. /\ apending' = [apending EXCEPT !["loop"] = queue]
          /\ afresh' = [afresh EXCEPT !["loop"] = Fresh]
      BY <1>1 DEF LoopWakes, LoopAdvances, StillInv
    <2> QED
      BY <2>1 DEF Fresh
  <1>2. ASSUME NEW e \in Execs, TailContinues(e)
        PROVE  FreshIsPending'
    <2>1. \/ UNCHANGED <<apending, afresh>>
          \/ /\ apending' = [apending EXCEPT ![e] = queue]
             /\ afresh' = [afresh EXCEPT ![e] = queue]
      BY <1>2 DEF TailContinues, advVars
    <2> QED
      BY <2>1
  <1>3. ASSUME NEW a \in Advancers, AdvanceStep(a)
        PROVE  FreshIsPending'
    <2>1. \/ UNCHANGED <<apending, afresh>>
          \/ /\ apending' = [apending EXCEPT ![a] = {}]
             /\ afresh' = [afresh EXCEPT ![a] = {}]
      BY <1>3 DEF AdvanceStep, AdvanceTakesGate, AdvanceDelivers, AdvanceStays, AdvanceClaims, AdvanceWakes,
         AdvanceWakeMisses, AdvanceCreates, AdvanceStarts, EndAdvance
    <2> QED
      BY <2>1
  <1>4. ASSUME ~LoopWakes, \A e \in Execs : ~TailContinues(e), \A a \in Advancers : ~AdvanceStep(a)
        PROVE  FreshIsPending'
    <2>1. UNCHANGED <<apending, afresh>>
      BY <1>4, StillSteps DEF RunSuspends, RunCompletes, RunFails, RunTakesInput, RunConsumes,
         RunClaimsDecision, RunAsksModel, RunContinues, RunAnswers, DriveReturns, Release, TailReads,
         ResumeStep, ResumeTakesGate, ResumeDecides, ResumeTransits, ResumeStarts, ResumeBegins, Put, Withdraw,
         vars, driveFrame, advVars, cmdFrame
    <2> QED
      BY <2>1
  <1> QED
    BY <1>1, <1>2, <1>3, <1>4

-----------------------------------------------------------------------------
(* No message that should move the Task goes unseen: it is newer than the   *)
(* watermark of the loop, or an _advance that judges by the status the Run  *)
(* has holds it, or one is about to start a Run, or the execution that      *)
(* settled the current Run has yet to read the queue.                       *)
InScope(m) ==
  \/ CurrentStatus = "suspended" /\ m.delivery = "immediate" /\ Wakes(m, current)
  \/ CurrentStatus \in {"none", "completed"} /\ Wakes(m, NoRun)

Judges(a, m) ==
  /\ m \in afresh[a]
  /\ \/ apc[a] = "gate"
     \/ apc[a] = "decide" /\ ~Driving /\ Judged(a) = CurrentStatus

Claims(a) == apc[a] \in {"wake", "create"}

YetToRead(e) == epc[e] \in {"settled", "tail", "tailPending"} /\ runOf[e] = current /\ current # NoRun

Watched(m) == \/ m.id > watermark
              \/ \E a \in Advancers : Judges(a, m) \/ Claims(a)
              \/ \E e \in Execs : YetToRead(e)

Moves == \A m \in queue : InScope(m) => Watched(m)

MoveInv == /\ StillInv
           /\ KnowInv
           /\ ResumesARun
           /\ FirstIsAnInput
           /\ FreshIsPending
           /\ Moves

LEMMA ScopeStays ==
  ASSUME UNCHANGED <<status, current>>, NEW m
  PROVE  InScope(m)' <=> InScope(m)
  BY DEF InScope, CurrentStatus, StatusOf

(* No message is in scope while the current Run runs or has failed.         *)

LEMMA OutOfScope ==
  ASSUME CurrentStatus' \in {"running", "failed"}
  PROVE  Moves'
  BY DEF Moves, InScope

(* The advances and the executions that go on as they are watch what they   *)

(* watched before.                                                          *)
LEMMA WatchStays ==
  ASSUME Moves, queue' \subseteq queue, watermark' = watermark,
         UNCHANGED <<status, current, snap, afresh, apc, exec>>,
         \A e \in Execs : YetToRead(e) => YetToRead(e)'
  PROVE  Moves'
  <1>1. CurrentStatus' = CurrentStatus /\ Driving' = Driving
    BY DEF CurrentStatus, StatusOf, Driving
  <1>2. \A a \in Advancers, m \in queue : Judges(a, m) => Judges(a, m)'
    BY <1>1 DEF Judges, Judged, StatusOf
  <1>3. \A a \in Advancers : Claims(a) => Claims(a)'
    BY DEF Claims
  <1> SUFFICES ASSUME NEW m \in queue', InScope(m)'
               PROVE  Watched(m)'
    BY DEF Moves
  <1>4. Watched(m)
    BY ScopeStays DEF Moves
  <1> QED
    BY <1>2, <1>3, <1>4 DEF Watched

(* What an advance that ends leaves to the others.                          *)

LEMMA WatchLeaves ==
  ASSUME TypeOK, ControlInv, Moves, NEW a \in Advancers,
         UNCHANGED <<queue, status, current, exec, watermark>>,
         apc[a] \in Critical, apc' = [apc EXCEPT ![a] = "off"], afresh' = [afresh EXCEPT ![a] = {}],
         \A p \in Procs \ {a} : snap'[p] = snap[p],
         epc' = EpcEnd(a), runOf' = RunOfEnd(a),
         ~Claims(a), \A m \in queue : InScope(m) => ~Judges(a, m)
  PROVE  Moves'
  <1> USE ProcessNames DEF TypeOK, AdvanceTypes, ExecTypes
  <1>1. CurrentStatus' = CurrentStatus /\ Driving' = Driving
    BY DEF CurrentStatus, StatusOf, Driving
  <1>2. \A b \in Advancers, m \in queue : Judges(b, m) /\ b # a => Judges(b, m)'
    BY <1>1 DEF Judges, Judged, StatusOf
  <1>3. \A b \in Advancers : Claims(b) /\ b # a => Claims(b)'
    BY DEF Claims
  <1>4. \A e \in Execs : YetToRead(e) => YetToRead(e)'
    <2>1. \A e \in Execs : e = a => epc[e] = "advance"
      BY DEF ControlInv, AdvancesInTail, Critical
    <2> QED
      BY <2>1 DEF YetToRead, EpcEnd, RunOfEnd
  <1> SUFFICES ASSUME NEW m \in queue', InScope(m)'
               PROVE  Watched(m)'
    BY DEF Moves
  <1>5. InScope(m) /\ Watched(m)
    BY ScopeStays DEF Moves
  <1> QED
    BY <1>2, <1>3, <1>4, <1>5 DEF Watched

(* A set of rows that is not empty has an earliest one.                     *)

LEMMA EarliestExists ==
  ASSUME NEW S, S # {}, \A m \in S : m.id \in Nat
  PROVE  Earliest(S) # {}
  <1> DEFINE R == OpToRel(<, Nat)
             ids == {m.id : m \in S}
  <1>1. \A x, y \in Nat : <<x, y>> \in R <=> x < y
    BY DEF OpToRel
  <1>2. IsWellFoundedOn(R, Nat)
    BY NatLessThanWellFounded
  <1>3. ids \subseteq Nat /\ ids # {}
    OBVIOUS
  <1> HIDE DEF R, ids
  <1>4. PICK x \in ids : \A y \in ids : ~(<<y, x>> \in R)
    BY <1>2, <1>3, WFMin
  <1>5. PICK m \in S : m.id = x
    BY DEF ids
  <1>6. ASSUME NEW n \in S
        PROVE  m.id <= n.id
    <2>1. n.id \in ids /\ n.id \in Nat /\ x \in Nat
      BY <1>3 DEF ids
    <2>2. ~(<<n.id, x>> \in R)
      BY <1>4, <2>1
    <2>3. ~(n.id < x)
      BY <1>1, <2>1, <2>2
    <2> QED
      BY <1>5, <2>1, <2>3
  <1> QED
    BY <1>6 DEF Earliest

LEMMA InputsExist ==
  ASSUME NEW S \in SUBSET Rows, NEW m \in S, m.kind \in LaunchKinds
  PROVE  NextInput(S) # {}
  <1>1. \A n \in S : n.id \in Nat
    BY DEF Rows
  <1>2. m \in Inputs(S)
    BY DEF Inputs
  <1>3. \A T \in SUBSET S : T # {} => Earliest(T) # {}
    BY <1>1, EarliestExists
  <1>4. Inputs(S) \subseteq S /\ Immediate(Inputs(S)) \subseteq S
    BY DEF Inputs, Immediate
  <1> QED
    BY <1>2, <1>3, <1>4 DEF NextInput

(* An advance that judges by the true status moves the Task when one of its *)

(* fresh messages should.                                                   *)
LEMMA JudgesRight ==
  ASSUME TypeOK, ControlInv, KnowInv, FirstIsAnInput, FreshIsPending, NEW a \in Advancers,
         NEW m \in queue, InScope(m), Judges(a, m), apc[a] = "decide"
  PROVE  Decision(a) \in {"wake", "start"}
  <1>1. snap[a].run = current /\ ~Driving /\ Judged(a) = CurrentStatus /\ m \in afresh[a] /\ m \in apending[a]
    BY DEF Judges, KnowInv, HoldersKnowCurrent, Critical, FreshIsPending
  <1>2. CASE CurrentStatus = "suspended"
    <2>1. m \in Immediate(afresh[a]) /\ Wakes(m, current)
      BY <1>1, <1>2 DEF InScope, Immediate
    <2> QED
      BY <1>1, <1>2, <2>1 DEF Decision, NextAction, PhaseOf
  <1>3. CASE CurrentStatus \in {"none", "completed"}
    <2>1. Wakes(m, NoRun) /\ PhaseOf(Judged(a)) = "idle"
      BY <1>1, <1>3 DEF InScope, PhaseOf
    <2>2. NextInput(apending[a]) # {} \/ snap[a].run # NoRun
      <3>1. CASE current = NoRun
        <4>1. m.kind \in LaunchKinds
          BY <2>1, <3>1 DEF FirstIsAnInput
        <4>2. apending[a] \in SUBSET Rows
          BY DEF TypeOK, AdvanceTypes
        <4> QED
          BY <1>1, <4>1, <4>2, InputsExist
      <3> QED
        BY <1>1, <3>1
    <2> QED
      BY <1>1, <2>1, <2>2 DEF Decision, NextAction
  <1> QED
    BY <1>2, <1>3 DEF InScope

LEMMA MoveAdvance ==
  ASSUME TypeOK, ControlInv, MoveInv, NEW a \in Advancers, AdvanceStep(a)
  PROVE  Moves'
  <1> USE ProcessNames DEF TypeOK, AdvanceTypes, ExecTypes, MoveInv
  <1>s. snap \in [Procs -> [run : 0..MaxRun, st : Statuses \cup {"none"}]]
    BY DEF RunTypes
  <1>p. a \in Procs
    OBVIOUS
  <1>1. CASE AdvanceTakesGate(a)
    <2>1. /\ apc[a] = "gate" /\ apc' = [apc EXCEPT ![a] = "decide"]
          /\ UNCHANGED <<status, current, epc, runOf, exec, queue, watermark, afresh>>
          /\ Read(a)
      BY <1>1 DEF AdvanceTakesGate, runVars, execVars, rowVars, loopVars
    <2>2. /\ snap'[a].run = current /\ (StaleReads => snap'[a].st = CurrentStatus)
          /\ \A p \in Procs \ {a} : snap'[p] = snap[p]
      BY <1>s, <1>p, <2>1 DEF Read
    <2>3. CurrentStatus' = CurrentStatus /\ Driving' = Driving
      BY <2>1 DEF CurrentStatus, StatusOf, Driving
    <2>4. Judged(a)' = CurrentStatus'
      BY <2>1, <2>2, <2>3 DEF Judged, CurrentStatus
    <2>5. \A b \in Advancers, m \in queue : Judges(b, m) /\ (b = a => ~Driving) => Judges(b, m)'
      <3>1. \A b \in Advancers : b # a => apc'[b] = apc[b] /\ snap'[b] = snap[b]
        BY <2>1, <2>2
      <3>2. \A b \in Advancers : b # a => Judged(b)' = Judged(b)
        BY <2>1, <3>1 DEF Judged, StatusOf
      <3> QED
        BY <2>1, <2>3, <2>4, <3>1, <3>2 DEF Judges
    <2>6. \A b \in Advancers : Claims(b) => Claims(b)'
      BY <2>1 DEF Claims
    <2>7. \A e \in Execs : YetToRead(e) => YetToRead(e)'
      BY <2>1 DEF YetToRead
    <2>8. ASSUME Driving, NEW m, InScope(m)
          PROVE  \E e \in Execs : YetToRead(e)'
      <3>1. PICK e \in Execs : epc[e] \in Drives
        BY <2>8 DEF ControlInv, OneExecutor, Driving
      <3>2. epc[e] \notin Working
        BY <2>8 DEF KnowInv, DriverRuns, InScope
      <3>3. epc[e] = "settled"
        BY <3>1, <3>2 DEF Drives, Working, StillInv
      <3>4. runOf[e] = current /\ current # NoRun
        BY <3>1, <3>3 DEF KnowInv, DriverKnowsCurrent, RunsAreKnown, Runs, NoRun
      <3> QED
        BY <2>7, <3>3, <3>4 DEF YetToRead
    <2> SUFFICES ASSUME NEW m \in queue', InScope(m)'
                 PROVE  Watched(m)'
      BY DEF Moves
    <2>9. m \in queue /\ InScope(m) /\ Watched(m)
      BY <2>1, ScopeStays DEF Moves
    <2> QED
      BY <2>1, <2>5, <2>6, <2>7, <2>8, <2>9 DEF Watched
  <1>2. CASE AdvanceDelivers(a) \/ AdvanceStays(a)
    <2>1. /\ UNCHANGED <<queue, status, current, exec, watermark>> /\ apc[a] = "decide"
          /\ apc' = [apc EXCEPT ![a] = "off"] /\ Forget(a)
          /\ afresh' = [afresh EXCEPT ![a] = {}]
          /\ epc' = EpcEnd(a) /\ runOf' = RunOfEnd(a)
          /\ Decision(a) \notin {"wake", "start"}
      BY <1>2 DEF AdvanceDelivers, AdvanceStays, EndAdvance, runVars, rowVars
    <2>2. \A p \in Procs \ {a} : snap'[p] = snap[p]
      BY <1>s, <2>1 DEF Forget
    <2>3. \A m \in queue : InScope(m) => ~Judges(a, m)
      BY <2>1, JudgesRight
    <2> QED
      BY <2>1, <2>2, <2>3, WatchLeaves DEF Critical, Claims
  <1>3. CASE AdvanceClaims(a)
    <2>1. /\ UNCHANGED <<status, current, queue>> /\ apc[a] = "decide"
          /\ apc' = [apc EXCEPT ![a] = IF Decision(a) = "wake" THEN "wake" ELSE "create"]
      BY <1>3 DEF AdvanceClaims, runVars, rowVars
    <2>2. Claims(a)'
      BY <2>1 DEF Claims
    <2> QED
      BY <2>2 DEF Moves, Watched
  <1>4. CASE AdvanceWakes(a) \/ AdvanceCreates(a)
    <2>1. KnowInv' /\ apc'[a] \in {"startWoken", "startNew"}
      BY <1>4, KnowAdvance DEF AdvanceWakes, AdvanceCreates, AdvanceStep
    <2>2. CurrentStatus' = "running"
      BY <2>1 DEF KnowInv, ReadingsHold
    <2> QED
      BY <2>2, OutOfScope
  <1>5. CASE AdvanceWakeMisses(a)
    <2>1. apc[a] = "wake" /\ snap[a].run = current /\ CurrentStatus = "suspended"
      BY <1>5 DEF AdvanceWakeMisses, KnowInv, ReadingsHold, HoldersKnowCurrent, Critical
    <2>2. status[snap[a].run] = "suspended"
      BY <2>1 DEF CurrentStatus, StatusOf
    <2> QED
      BY <1>5, <2>2 DEF AdvanceWakeMisses, Applies, RunTransition
  <1>6. CASE AdvanceStarts(a)
    <2>1. UNCHANGED <<status, current>> /\ apc[a] \in {"startWoken", "startNew"}
      BY <1>6 DEF AdvanceStarts, runVars
    <2>2. CurrentStatus' = "running"
      BY <2>1 DEF KnowInv, ReadingsHold, CurrentStatus, StatusOf
    <2> QED
      BY <2>2, OutOfScope
  <1> QED
    BY <1>1, <1>2, <1>3, <1>4, <1>5, <1>6 DEF AdvanceStep

LEMMA MoveDrive ==
  ASSUME TypeOK, ControlInv, MoveInv, NEW e \in Execs,
         \/ RunSuspends(e) \/ RunCompletes(e) \/ RunFails(e) \/ RunTakesInput(e)
         \/ RunConsumes(e) \/ RunClaimsDecision(e) \/ RunAsksModel(e) \/ RunContinues(e)
         \/ RunAnswers(e) \/ DriveReturns(e)
  PROVE  Moves'
  <1> USE ProcessNames DEF TypeOK, ExecTypes, MoveInv
  <1>1. CASE RunSuspends(e) \/ RunCompletes(e) \/ RunFails(e)
    <2>1. /\ UNCHANGED <<current, runOf>>
          /\ epc[e] \in Working /\ epc' = [epc EXCEPT ![e] = "settled"]
      BY <1>1 DEF RunSuspends, RunCompletes, RunFails, Working
    <2>2. runOf[e] = current
      BY <2>1 DEF KnowInv, DriverKnowsCurrent, Working, Drives
    <2>3. current # NoRun
      BY <2>1, <2>2 DEF KnowInv, RunsAreKnown, Runs, NoRun, Working
    <2>4. YetToRead(e)'
      BY <2>1, <2>2, <2>3 DEF YetToRead
    <2> QED
      BY <2>4 DEF Moves, Watched
  <1>2. CASE \/ RunTakesInput(e) \/ RunConsumes(e) \/ RunClaimsDecision(e) \/ RunAsksModel(e)
             \/ RunContinues(e) \/ RunAnswers(e)
    <2>1. UNCHANGED <<status, current>> /\ epc[e] \in Working
      BY <1>2 DEF RunTakesInput, RunConsumes, RunClaimsDecision, RunAsksModel, RunContinues,
         RunAnswers, runVars, execVars, Working
    <2>2. CurrentStatus' = "running"
      BY <2>1 DEF KnowInv, DriverRuns, CurrentStatus, StatusOf
    <2> QED
      BY <2>2, OutOfScope
  <1>3. CASE DriveReturns(e)
    <2>1. /\ UNCHANGED <<status, current, runOf>>
          /\ epc[e] = "settled" /\ epc' = [epc EXCEPT ![e] = "tail"]
      BY <1>3 DEF DriveReturns, Release, StillInv, runVars
    <2>2. runOf[e] = current /\ current # NoRun
      BY <2>1 DEF KnowInv, DriverKnowsCurrent, Drives, RunsAreKnown, Runs, NoRun
    <2>3. YetToRead(e)'
      BY <2>1, <2>2 DEF YetToRead
    <2> QED
      BY <2>3 DEF Moves, Watched
  <1> QED
    BY <1>1, <1>2, <1>3

LEMMA MoveTail ==
  ASSUME TypeOK, ControlInv, MoveInv, NEW e \in Execs, TailReads(e) \/ TailContinues(e)
  PROVE  Moves'
  <1> USE ProcessNames DEF TypeOK, ExecTypes, AdvanceTypes, MoveInv
  <1>0. UNCHANGED <<queue, status, current, exec, snap, watermark>>
    BY DEF TailReads, TailContinues, tailFrame, runVars, rowVars, loopVars
  <1>1. CASE TailReads(e) /\ ~(YetToRead(e) /\ \E m \in queue : InScope(m))
    <2>1. UNCHANGED <<afresh, apc>> /\ \A d \in Execs \ {e} : epc'[d] = epc[d] /\ runOf'[d] = runOf[d]
      BY <1>1 DEF TailReads, TailMoves, Finish, EpcEnd, RunOfEnd, advVars
    <2>2. CASE ~YetToRead(e)
      <3>1. \A d \in Execs : YetToRead(d) => YetToRead(d)'
        BY <1>0, <2>1, <2>2 DEF YetToRead
      <3> QED
        BY <1>0, <2>1, <3>1, WatchStays
    <2>3. CASE \A m \in queue : ~InScope(m)
      BY <1>0, <2>3, ScopeStays DEF Moves
    <2> QED
      BY <1>1, <2>2, <2>3
  <1>2. CASE TailReads(e) /\ YetToRead(e) /\ \E m \in queue : InScope(m)
    <2>1. /\ epc[e] = "tail" /\ taken[e] = "none" /\ runOf[e] = current /\ current # NoRun
      BY <1>2 DEF TailReads, YetToRead, StillInv
    <2>2. SettledStatus(e) = CurrentStatus
      BY <2>1 DEF SettledStatus, CurrentStatus, StatusOf
    <2>3. CurrentStatus \in ContinueAfter
      BY <1>2, <2>1 DEF InScope, ContinueAfter, KnowInv, RunsAreKnown
    <2>4. epc' = [epc EXCEPT ![e] = "tailPending"] /\ UNCHANGED runOf
      BY <1>2, <2>1, <2>2, <2>3 DEF TailReads, TailMoves, ContinueAfter
    <2>5. YetToRead(e)'
      BY <1>0, <2>1, <2>4 DEF YetToRead
    <2> QED
      BY <2>5 DEF Moves, Watched
  <1>3. CASE TailContinues(e)
    <2>1. CASE queue = {}
      BY <1>0, <2>1 DEF Moves
    <2>2. CASE queue # {}
      <3>1. /\ apc' = [apc EXCEPT ![e] = "gate"]
            /\ afresh' = [afresh EXCEPT ![e] = queue]
        BY <1>3, <2>2 DEF TailContinues, StillInv
      <3>2. apc'[e] = "gate" /\ afresh'[e] = queue
        BY <3>1
      <3>3. \A m \in queue : Judges(e, m)'
        BY <3>2 DEF Judges
      <3> QED
        BY <1>0, <3>3 DEF Moves, Watched
    <2> QED
      BY <2>1, <2>2
  <1> QED
    BY <1>1, <1>2, <1>3

LEMMA MoveOthers ==
  ASSUME TypeOK, ControlInv, MoveInv,
         \/ LoopWakes \/ ResumeStep \/ ResumeBegins \/ (\E c \in Classes : Put(c)) \/ (\E m \in queue : Withdraw(m))
         \/ UNCHANGED vars
  PROVE  Moves'
  <1> USE ProcessNames DEF TypeOK, ExecTypes, AdvanceTypes, MoveInv
  <1>1. CASE LoopWakes
    <2>1. /\ UNCHANGED <<queue, status, current, exec, snap, epc, runOf>> /\ apc["loop"] = "off"
          /\ apc' = [apc EXCEPT !["loop"] = "gate"]
          /\ afresh' = [afresh EXCEPT !["loop"] = Fresh]
      BY <1>1 DEF LoopWakes, LoopAdvances, StillInv, runVars, rowVars, execVars
    <2>2. \A b \in Advancers, m \in queue : Judges(b, m) => Judges(b, m)'
      <3>1. ASSUME NEW b \in Advancers, NEW m \in queue, Judges(b, m)
            PROVE  Judges(b, m)'
        <4>1. b # "loop"
          BY <2>1, <3>1 DEF Judges
        <4>2. Driving' = Driving /\ CurrentStatus' = CurrentStatus /\ Judged(b)' = Judged(b)
          BY <2>1 DEF Driving, CurrentStatus, StatusOf, Judged
        <4>3. apc'[b] = apc[b] /\ afresh'[b] = afresh[b]
          BY <2>1, <4>1
        <4> QED
          BY <3>1, <4>2, <4>3 DEF Judges
      <3> QED
        BY <3>1
    <2>3. \A b \in Advancers : Claims(b) => Claims(b)'
      BY <2>1 DEF Claims
    <2>4. \A e \in Execs : YetToRead(e) => YetToRead(e)'
      BY <2>1 DEF YetToRead
    <2>5. \A m \in queue : m.id > watermark => Judges("loop", m)'
      <3>1. apc'["loop"] = "gate" /\ afresh'["loop"] = Fresh
        BY <2>1
      <3> QED
        BY <3>1 DEF Judges, Fresh
    <2> SUFFICES ASSUME NEW m \in queue', InScope(m)'
                 PROVE  Watched(m)'
      BY DEF Moves
    <2>6. m \in queue /\ Watched(m)
      BY <2>1, ScopeStays DEF Moves
    <2> QED
      BY <2>2, <2>3, <2>4, <2>5, <2>6 DEF Watched
  <1>2. CASE ResumeBegins \/ ResumeTakesGate \/ ResumeDecides
    <2>1. UNCHANGED <<queue, status, current, exec, epc, runOf, watermark, afresh, apc>>
      BY <1>2 DEF ResumeBegins, ResumeTakesGate, ResumeDecides, cmdFrame, rowVars, runVars, execVars, loopVars,
         advVars
    <2>2. \A a \in Advancers : snap'[a] = snap[a]
      <3>1. snap' = snap \/ Read("resume") \/ Settle("resume") \/ Forget("resume")
        BY <1>2 DEF ResumeBegins, ResumeTakesGate, ResumeDecides, CommandEnds
      <3>2. \A a \in Advancers : a # "resume"
        BY Names
      <3>3. snap \in [Procs -> [run : 0..MaxRun, st : Statuses \cup {"none"}]]
        BY DEF RunTypes
      <3> QED
        BY <3>1, <3>2, <3>3 DEF Read, Settle, Forget
    <2>3. CurrentStatus' = CurrentStatus /\ Driving' = Driving
      BY <2>1 DEF CurrentStatus, StatusOf, Driving
    <2>4. \A b \in Advancers, m \in queue : Judges(b, m) => Judges(b, m)'
      BY <2>1, <2>2, <2>3 DEF Judges, Judged, StatusOf
    <2>5. \A b \in Advancers : Claims(b) => Claims(b)'
      BY <2>1 DEF Claims
    <2>6. \A e \in Execs : YetToRead(e) => YetToRead(e)'
      BY <2>1 DEF YetToRead
    <2> SUFFICES ASSUME NEW m \in queue', InScope(m)'
                 PROVE  Watched(m)'
      BY DEF Moves
    <2>7. m \in queue /\ Watched(m)
      BY <2>1, ScopeStays DEF Moves
    <2> QED
      BY <2>1, <2>4, <2>5, <2>6, <2>7 DEF Watched
  <1>3. CASE ResumeTransits
    <2>1. CASE Applies("RESUME", status[snap["resume"].run])
      <3>1. KnowInv' /\ cpc'["resume"] = "start"
        BY <1>3, <2>1, KnowResume DEF ResumeTransits, ResumeStep, CommandMoves, CommandTypes
      <3>2. CurrentStatus' = "running"
        BY <3>1 DEF KnowInv, ReadingsHold
      <3> QED
        BY <3>2, OutOfScope
    <2>2. CASE ~Applies("RESUME", status[snap["resume"].run])
      <3>1. /\ UNCHANGED <<queue, current, exec, epc, runOf, watermark, afresh, apc>>
            /\ status' = [status EXCEPT ![snap["resume"].run] = After("RESUME", @)]
            /\ Forget("resume")
        BY <1>3, <2>2 DEF ResumeTransits, CommandEnds, cmdFrame, rowVars, execVars, loopVars, advVars, Transit
      <3>2. status' = status
        BY <2>2, <3>1 DEF After, RunTypes
      <3>3. \A a \in Advancers : snap'[a] = snap[a]
        <4>1. \A a \in Advancers : a # "resume"
          BY Names
        <4>2. snap \in [Procs -> [run : 0..MaxRun, st : Statuses \cup {"none"}]]
          BY DEF RunTypes
        <4> QED
          BY <3>1, <4>1, <4>2 DEF Forget
      <3>4. CurrentStatus' = CurrentStatus /\ Driving' = Driving
        BY <3>1, <3>2 DEF CurrentStatus, StatusOf, Driving
      <3>5. \A b \in Advancers, m \in queue : Judges(b, m) => Judges(b, m)'
        BY <3>1, <3>2, <3>3, <3>4 DEF Judges, Judged, StatusOf
      <3>6. \A b \in Advancers : Claims(b) => Claims(b)'
        BY <3>1 DEF Claims
      <3>7. \A e \in Execs : YetToRead(e) => YetToRead(e)'
        BY <3>1 DEF YetToRead
      <3> SUFFICES ASSUME NEW m \in queue', InScope(m)'
                   PROVE  Watched(m)'
        BY DEF Moves
      <3>8. m \in queue /\ Watched(m)
        BY <3>1, <3>2, ScopeStays DEF Moves
      <3> QED
        BY <3>1, <3>5, <3>6, <3>7, <3>8 DEF Watched
    <2> QED
      BY <2>1, <2>2
  <1>4. CASE ResumeStarts
    <2>1. UNCHANGED <<status, current>> /\ cpc["resume"] = "start"
      BY <1>4 DEF ResumeStarts, runVars
    <2>2. CurrentStatus' = "running"
      BY <2>1 DEF KnowInv, ReadingsHold, CurrentStatus, StatusOf
    <2> QED
      BY <2>2, OutOfScope
  <1>5. CASE \E c \in Classes : Put(c)
    <2>1. PICK c \in Classes : Put(c)
      BY <1>5
    <2>2. UNCHANGED <<status, current, exec, epc, runOf, snap, watermark, afresh, apc>>
      BY <2>1 DEF Put, runVars, execVars, loopVars, advVars
    <2>3. \A m \in queue' : m \in queue \/ m.id > watermark'
      BY <2>1, <2>2 DEF Put, Enqueue, Row, RowTypes
    <2>4. CurrentStatus' = CurrentStatus /\ Driving' = Driving
      BY <2>2 DEF CurrentStatus, StatusOf, Driving
    <2>5. \A b \in Advancers, m \in queue : Judges(b, m) => Judges(b, m)'
      BY <2>2, <2>4 DEF Judges, Judged, StatusOf
    <2>6. \A b \in Advancers : Claims(b) => Claims(b)'
      BY <2>2 DEF Claims
    <2>7. \A e \in Execs : YetToRead(e) => YetToRead(e)'
      BY <2>2 DEF YetToRead
    <2> SUFFICES ASSUME NEW m \in queue', InScope(m)', m \in queue
                 PROVE  Watched(m)'
      BY <2>3 DEF Moves, Watched
    <2>8. Watched(m)
      BY <2>2, ScopeStays DEF Moves
    <2> QED
      BY <2>2, <2>5, <2>6, <2>7, <2>8 DEF Watched
  <1>6. CASE (\E m \in queue : Withdraw(m)) \/ UNCHANGED vars
    <2>1. /\ queue' \subseteq queue
          /\ UNCHANGED <<status, current, exec, epc, runOf, snap, watermark, afresh, apc>>
      BY <1>6 DEF Withdraw, vars, rowVars, runVars, execVars, loopVars, advVars
    <2>2. \A e \in Execs : YetToRead(e) => YetToRead(e)'
      BY <2>1 DEF YetToRead
    <2> QED
      BY <2>1, <2>2, WatchStays
  <1> QED
    BY <1>1, <1>2, <1>3, <1>4, <1>5, <1>6 DEF ResumeStep

LEMMA MoveNext ==
  ASSUME TypeOK, ControlInv, MoveInv, [Next]_vars
  PROVE  MoveInv'
  <1>1. StillInv' /\ KnowInv' /\ ResumesARun' /\ FirstIsAnInput' /\ FreshIsPending'
    BY StillNext, KnowNext, ResumesNext, FirstNext, FreshNext DEF MoveInv
  <1>2. Moves'
    BY StillSteps, MoveAdvance, MoveDrive, MoveTail, MoveOthers DEF MoveInv
  <1> QED
    BY <1>1, <1>2 DEF MoveInv

LEMMA MoveInit == Undisturbed /\ Init => MoveInv
  <1> SUFFICES ASSUME Undisturbed, Init PROVE MoveInv
    OBVIOUS
  <1> USE ProcessNames DEF Init
  <1>0. CurrentStatus = "none"
    BY DEF CurrentStatus, StatusOf
  <1>1. StillInv
    BY DEF StillInv, Undisturbed
  <1>2. KnowInv
    BY <1>0 DEF KnowInv, HoldersKnowCurrent, DriverKnowsCurrent, RunsAreKnown, DriverRuns, ReadingsHold, Critical,
       Holding, Drives, Working
  <1>3. ResumesARun /\ FirstIsAnInput /\ FreshIsPending /\ Moves
    BY DEF ResumesARun, FirstIsAnInput, FreshIsPending, Moves
  <1> QED
    BY <1>1, <1>2, <1>3 DEF MoveInv

(* NothingForgotten (TaskActorProps): in a Task nobody interrupts - no      *)

(* cancel, no deletion, no failing database or model configuration - no     *)
(* message stays behind that wakes the suspended Run or opens the next one, *)
(* whatever messages come and go, however often a Run fails and is resumed, *)
(* and however stale the reads are: Moves holds at rest, and at rest nobody *)
(* watches any more.                                                        *)
THEOREM NothingForgottenAlways ==
  ASSUME Undisturbed
  PROVE  Spec => []NothingForgotten
  <1>1. TypeOK /\ ControlInv /\ MoveInv => NothingForgotten
    <2> SUFFICES ASSUME TypeOK, ControlInv, MoveInv, AtRest, lpc = "wait", NEW m \in queue, InScope(m)
                 PROVE  FALSE
      BY DEF NothingForgotten, InScope, Immediate
    <2>1. Watched(m)
      BY DEF MoveInv, Moves
    <2>2. ~(m.id > watermark)
      BY DEF AtRest, Fresh
    <2>3. \A a \in Advancers : apc[a] = "off"
      BY DEF AtRest, ControlInv, AdvancesInTail, Advancers
    <2>4. \A e \in Execs : epc[e] = "off"
      BY DEF AtRest
    <2> QED
      BY <2>1, <2>2, <2>3, <2>4 DEF Watched, Judges, Claims, YetToRead
  <1>2. Init => MoveInv
    BY MoveInit
  <1>3. TypeOK /\ ControlInv /\ MoveInv /\ [Next]_vars => MoveInv'
    BY MoveNext
  <1> QED
    BY <1>1, <1>2, <1>3, TypeCorrect, ControlAlways, PTL DEF Spec

=============================================================================
