----------------------------- MODULE TaskContext -----------------------------
(***************************************************************************)
(* The conversation a Task shows its model: the rows of                    *)
(* conversation_task_contexts and the working copy of them that            *)
(* RuntimeMessageContextManager keeps while a Run is driven. Rows are      *)
(* written by the nodes of the Run, by an edit that takes the last turn    *)
(* back (exclude_from), by the recovery of a restart and, outside every    *)
(* Run, by the settlement of the card of a deferred call                   *)
(* (settle_placeholders). A request can be built only while every tool     *)
(* result in the context follows the call it answers                       *)
(* (plan_tool_call_closures); a fork copies a prefix of the rows.          *)
(***************************************************************************)
EXTENDS Naturals, Sequences, FiniteSets
LOCAL INSTANCE SequencesExt
LOCAL INSTANCE FiniteSetsExt
LOCAL INSTANCE Functions

CONSTANTS ToolCalls,       \* the call ids a model may issue, each of them once
          NoToolCall,
          MaxRuns,         \* bound: Runs of the Task
          MaxRows,         \* bound: the sequence numbers in use
          MaxMessages,     \* bound: user inputs
          SettleIsAtomic   \* whether settle_placeholders reads and writes in one transaction

ASSUME ContextAssumption ==
  /\ NoToolCall \notin ToolCalls
  /\ {MaxRuns, MaxRows, MaxMessages} \subseteq Nat
  /\ SettleIsAtomic \in BOOLEAN

VARIABLES
  stored,      \* sequence -> row: the stored context of the Task
  memory,      \* _entries: the sequences of the working copy, in request order
  draft,       \* _draft_response: the row the model streams into, 0 when none
  nextRow,     \* _message_sequence
  drive,       \* where the driven Run is, "idle" when none is driven
  latestRun,   \* the number of the latest Run
  latestState, \* its status, "none" before the first
  waits,       \* wait_for_input
  remark,      \* a model_continuation notice lies in the mailbox
  typed,       \* user inputs that wait in the queue
  turns,       \* user inputs so far
  deferred,    \* what became of the work a call left behind
  readRow      \* the row settle_placeholders read for a call, if it has not written it yet

contextVars == <<stored, memory, draft, nextRow, drive, latestRun, latestState, waits, remark,
                 typed, turns, deferred, readRow>>

Roles == {"input", "assistant", "tool", "conclusion", "notice"}
RowStatus == {"none", "done", "pending", "completed", "cancelled"}
Row == [role : Roles, run : 1..MaxRuns, calls : SUBSET ToolCalls,
        call : ToolCalls \cup {NoToolCall}, status : RowStatus,
        included : BOOLEAN, shown : BOOLEAN]
DeferredStates == {"none", "live", "queued", "settling", "read", "over"}
NoRow == <<>>

ContextTypeOK ==
  /\ DOMAIN stored \subseteq 1..MaxRows
  /\ \A s \in DOMAIN stored : stored[s] \in Row
  /\ memory \in Seq(1..(MaxRows + 1))
  /\ draft \in 0..MaxRows
  /\ nextRow \in 1..(MaxRows + 2)
  /\ drive \in {"idle", "prepare", "stream", "tools"}
  /\ latestRun \in 0..MaxRuns
  /\ latestState \in {"none", "running", "suspended", "ended"}
  /\ waits \in BOOLEAN /\ remark \in BOOLEAN
  /\ typed \in 0..MaxMessages /\ turns \in 0..MaxMessages
  /\ deferred \in [ToolCalls -> DeferredStates]
  /\ \A k \in ToolCalls : readRow[k] \in {NoRow} \cup ((1..MaxRows) \X Row)

(***************************************************************************)
(* Reading the rows.                                                       *)
(***************************************************************************)
InOrder(S) == [i \in 1..Cardinality(S) |-> CHOOSE s \in S : Cardinality({x \in S : x < s}) = i - 1]
Included == {s \in DOMAIN stored : stored[s].included}
MaxSequence == Max(DOMAIN stored \cup {0})

IsTool(s) == stored[s].role = "tool"
Issues(s, k) == stored[s].role = "assistant" /\ k \in stored[s].calls
IssuedIn(k) == stored[CHOOSE s \in DOMAIN stored : Issues(s, k)].run

(* A tool row answers a call that the entries before it issue in its Run,  *)
(* and it is the first one to do so.                                       *)
Paired(entries) ==
  \A i \in DOMAIN entries : IsTool(entries[i]) =>
    /\ \E j \in 1..(i - 1) :
         Issues(entries[j], stored[entries[i]].call) /\ stored[entries[j]].run = stored[entries[i]].run
    /\ \A j \in 1..(i - 1) :
         IsTool(entries[j]) => stored[entries[j]].call # stored[entries[i]].call

AnswersIn(entries, k) == {s \in Range(entries) : IsTool(s) /\ stored[s].call = k}
CallsOf(s) == SetToSeq(stored[s].calls)

(* The calls of the entries without a result, in the order of the entries. *)
Missing(entries) ==
  LET called == FlattenSeq([i \in DOMAIN entries |-> CallsOf(entries[i])])
  IN  SelectSeq(called, LAMBDA k : AnswersIn(entries, k) = {})

(* Every batch of calls directly followed by its results, the others in    *)
(* their order; answer says which row answers a call.                      *)
Normalised(entries, answer) ==
  LET kept == SelectSeq(entries, LAMBDA s : ~IsTool(s))
      group(s) == <<s>> \o [j \in DOMAIN CallsOf(s) |-> answer[CallsOf(s)[j]]]
  IN  FlattenSeq([i \in DOMAIN kept |-> group(kept[i])])

AnswerRows(entries) ==
  [k \in ToolCalls |->
     IF AnswersIn(entries, k) = {} THEN 0 ELSE Max(AnswersIn(entries, k))]

(* A call of a Run whose conclusion was not written yet.                   *)
AwaitsBackground(run) ==
  \E s \in Included : stored[s].status = "pending" /\ stored[s].run = run

ContextInit ==
  /\ stored = <<>> /\ memory = <<>> /\ draft = 0 /\ nextRow = 1
  /\ drive = "idle" /\ latestRun = 0 /\ latestState = "none"
  /\ waits = FALSE /\ remark = FALSE
  /\ typed = 0 /\ turns = 0
  /\ deferred = [k \in ToolCalls |-> "none"]
  /\ readRow = [k \in ToolCalls |-> NoRow]

(***************************************************************************)
(* Writing a row.                                                          *)
(***************************************************************************)
NewRow(role, run, call, status, shown) ==
  [role |-> role, run |-> run, calls |-> {}, call |-> call, status |-> status,
   included |-> TRUE, shown |-> shown]

WithRow(table, s, row) == [x \in DOMAIN table \cup {s} |-> IF x = s THEN row ELSE table[x]]

(* _append_message of a row that joins the context: the working copy and   *)
(* the number follow the write.                                            *)
Appended(row) ==
  /\ stored' = WithRow(stored, nextRow, row)
  /\ memory' = Append(memory, nextRow)
  /\ nextRow' = nextRow + 1

(* Rows are bounded; a free number is left for each closing placeholder.    *)
HasRoom == nextRow + Cardinality(ToolCalls) <= MaxRows

SetStatus(table, S, status) ==
  [s \in DOMAIN table |-> IF s \in S THEN [table[s] EXCEPT !.status = status] ELSE table[s]]
PendingOf(K) == {s \in DOMAIN stored : IsTool(s) /\ stored[s].status = "pending" /\ stored[s].call \in K}

(* The Run ends and nothing of it is driven any more.                      *)
DriveEnds(state) == drive' = "idle" /\ latestState' = state

(***************************************************************************)
(* A Run is driven: its working copy is always built from the rows, for a  *)
(* new Run and for a suspended one that goes on.                           *)
(***************************************************************************)
SomethingWaits == typed > 0 \/ \E k \in ToolCalls : deferred[k] = "queued"

Rebuilds ==
  /\ memory' = InOrder(Included)
  /\ nextRow' = MaxSequence + 1
  /\ draft' = 0

RunIsDriven ==
  /\ drive = "idle" /\ SomethingWaits
  /\ IF latestState = "suspended" THEN UNCHANGED latestRun
     ELSE latestRun < MaxRuns /\ latestRun' = latestRun + 1
  /\ Rebuilds
  /\ drive' = "prepare" /\ latestState' = "running"
  /\ waits' = FALSE /\ remark' = FALSE
  /\ UNCHANGED <<stored, typed, turns, deferred, readRow>>

UserTypes ==
  /\ turns < MaxMessages
  /\ typed' = typed + 1 /\ turns' = turns + 1
  /\ UNCHANGED <<stored, memory, draft, nextRow, drive, latestRun, latestState, waits, remark,
                 deferred, readRow>>

(***************************************************************************)
(* prepare_input writes what waits, each message in one transaction with   *)
(* its confirmation.                                                       *)
(***************************************************************************)
WritesInput ==
  /\ drive = "prepare" /\ typed > 0 /\ HasRoom
  /\ Appended(NewRow("input", latestRun, NoToolCall, "none", TRUE))
  /\ typed' = typed - 1
  /\ waits' = FALSE
  /\ UNCHANGED <<draft, drive, latestRun, latestState, remark, turns, deferred, readRow>>

(* The conclusion of deferred work is a message of its own; the card of    *)
(* the call is settled in the same transaction.                            *)
WritesConclusion(k) ==
  /\ drive = "prepare" /\ deferred[k] = "queued" /\ HasRoom
  /\ LET settled == {s \in PendingOf({k}) : s \in Range(memory)}
         row == NewRow("conclusion", latestRun, k, "none", FALSE)
     IN  /\ stored' = WithRow(SetStatus(stored, settled, "completed"), nextRow, row)
         /\ memory' = Append(memory, nextRow)
         /\ nextRow' = nextRow + 1
  /\ deferred' = [deferred EXCEPT ![k] = "over"]
  /\ waits' = FALSE
  /\ UNCHANGED <<draft, drive, latestRun, latestState, remark, typed, turns, readRow>>

(* The transaction is rolled back after the working copy went ahead: the   *)
(* Run fails, the message stays.                                           *)
WriteFails ==
  /\ drive = "prepare" /\ SomethingWaits /\ HasRoom
  /\ memory' = Append(memory, nextRow) /\ nextRow' = nextRow + 1
  /\ DriveEnds("ended")
  /\ UNCHANGED <<stored, draft, latestRun, waits, remark, typed, turns, deferred, readRow>>

WritesRemark ==
  /\ drive = "prepare" /\ remark /\ (waits => SomethingWaits) /\ HasRoom
  /\ Appended(NewRow("notice", latestRun, NoToolCall, "none", FALSE))
  /\ remark' = FALSE
  /\ UNCHANGED <<draft, drive, latestRun, latestState, waits, typed, turns, deferred, readRow>>

StepSuspends ==
  /\ drive = "prepare" /\ waits /\ ~SomethingWaits
  /\ DriveEnds("suspended")
  /\ UNCHANGED <<stored, memory, draft, nextRow, latestRun, waits, remark, typed, turns,
                 deferred, readRow>>

(***************************************************************************)
(* load_message: the calls without a result are closed by placeholder rows *)
(* of the Run of the call, the working copy is put into protocol order. An *)
(* entry that answers no call ends the Run instead.                        *)
(***************************************************************************)
(* Mutant of PlaceholderRun: the placeholder belongs to the Run that loads. *)
LoadingRun(k) == latestRun

(* "占位必须归属同一个 Run": a cold read pairs calls and results by Run.     *)
PlaceholderRun(k) == IssuedIn(k)

CloseMissing ==
  LET missing == Missing(memory)
      row(k) == NewRow("tool", PlaceholderRun(k), k, "cancelled", TRUE)
      numbers == nextRow..(nextRow + Len(missing) - 1)
      answer == [k \in ToolCalls |->
                   IF \E j \in DOMAIN missing : missing[j] = k
                   THEN nextRow - 1 + (CHOOSE j \in DOMAIN missing : missing[j] = k)
                   ELSE AnswerRows(memory)[k]]
  IN  /\ stored' = [s \in DOMAIN stored \cup numbers |->
                      IF s \in numbers THEN row(missing[s - nextRow + 1]) ELSE stored[s]]
      /\ memory' = Normalised(memory, answer)
      /\ nextRow' = nextRow + Len(missing)

LoadsContext ==
  /\ drive = "prepare" /\ ~SomethingWaits /\ ~waits /\ ~remark
  /\ Paired(memory)
  /\ nextRow + Len(Missing(memory)) <= MaxRows + 1
  /\ CloseMissing
  /\ drive' = "stream"
  /\ UNCHANGED <<draft, latestRun, latestState, waits, remark, typed, turns, deferred, readRow>>

LoadFails ==
  /\ drive = "prepare" /\ ~SomethingWaits /\ ~waits /\ ~remark
  /\ ~Paired(memory)
  /\ DriveEnds("ended")
  /\ UNCHANGED <<stored, memory, draft, nextRow, latestRun, waits, remark, typed, turns,
                 deferred, readRow>>

(***************************************************************************)
(* The model streams into one row, outside the context until the response  *)
(* is complete.                                                            *)
(***************************************************************************)
Streams ==
  /\ drive = "stream" /\ draft = 0 /\ HasRoom
  /\ stored' = WithRow(stored, nextRow,
       [NewRow("assistant", latestRun, NoToolCall, "none", TRUE) EXCEPT !.included = FALSE])
  /\ draft' = nextRow /\ nextRow' = nextRow + 1
  /\ UNCHANGED <<memory, drive, latestRun, latestState, waits, remark, typed, turns, deferred,
                 readRow>>

(* save_model_response with include_in_context: the row of the draft joins *)
(* the context, the next response starts a row of its own.                 *)
Admitted(calls) ==
  /\ stored' = [stored EXCEPT ![draft].included = TRUE, ![draft].calls = calls]
  /\ memory' = Append(memory, draft)
  /\ draft' = 0
  /\ UNCHANGED nextRow

AsksTools(calls) ==
  /\ drive = "stream" /\ draft # 0
  /\ calls # {} /\ \A s \in DOMAIN stored : stored[s].calls \cap calls = {}
  /\ Admitted(calls)
  /\ drive' = "tools"
  /\ UNCHANGED <<latestRun, latestState, waits, remark, typed, turns, deferred, readRow>>

AnswersFinally ==
  /\ drive = "stream" /\ draft # 0 /\ ~AwaitsBackground(latestRun)
  /\ Admitted({})
  /\ DriveEnds("ended")
  /\ UNCHANGED <<latestRun, waits, remark, typed, turns, deferred, readRow>>

(* abandon_model_response: the row stays for the reader, the next response *)
(* starts another one.                                                     *)
Abandoned == draft' = 0 /\ UNCHANGED <<stored, memory, nextRow>>

(* The response is intermediate while a conclusion of the Run is awaited.  *)
AwaitsConclusion ==
  /\ drive = "stream" /\ draft # 0 /\ AwaitsBackground(latestRun)
  /\ Abandoned
  /\ drive' = "prepare" /\ waits' = TRUE
  /\ UNCHANGED <<latestRun, latestState, remark, typed, turns, deferred, readRow>>

(* The stream broke off without a reason and without calls.                *)
IsCutShort ==
  /\ drive = "stream" /\ draft # 0
  /\ Abandoned
  /\ drive' = "prepare" /\ remark' = TRUE
  /\ UNCHANGED <<latestRun, latestState, waits, typed, turns, deferred, readRow>>

(***************************************************************************)
(* The tools of the batch run, then observe writes their results one by    *)
(* one; a call that left work behind is answered by a receipt.             *)
(***************************************************************************)
Batch == stored[Max({s \in Range(memory) : stored[s].role = "assistant"})].calls
Unobserved == {k \in Batch : AnswersIn(memory, k) = {}}

WorkStarts(k) ==
  /\ drive = "tools" /\ Unobserved = Batch /\ k \in Batch /\ deferred[k] = "none"
  /\ deferred' = [deferred EXCEPT ![k] = "live"]
  /\ UNCHANGED <<stored, memory, draft, nextRow, drive, latestRun, latestState, waits, remark,
                 typed, turns, readRow>>

ObservesCall(k) ==
  /\ drive = "tools" /\ k \in Unobserved
  /\ Appended(NewRow("tool", latestRun, k,
                     IF deferred[k] = "none" THEN "done" ELSE "pending", TRUE))
  /\ drive' = IF Unobserved = {k} THEN "prepare" ELSE drive
  /\ UNCHANGED <<draft, latestRun, latestState, waits, remark, typed, turns, deferred, readRow>>

(***************************************************************************)
(* The Run fails, or it is stopped and everything it left behind with it.  *)
(***************************************************************************)
RunFails ==
  /\ drive # "idle"
  /\ DriveEnds("ended")
  /\ UNCHANGED <<stored, memory, draft, nextRow, latestRun, waits, remark, typed, turns,
                 deferred, readRow>>

LiveWork == {k \in ToolCalls : deferred[k] = "live"}
Dropped(K) == [k \in ToolCalls |-> IF k \in K THEN "over" ELSE deferred[k]]

RunIsStopped ==
  /\ latestState \in {"running", "suspended"}
  /\ DriveEnds("ended")
  /\ deferred' = Dropped(LiveWork)
  /\ stored' = SetStatus(stored, PendingOf(LiveWork), "cancelled")
  /\ UNCHANGED <<memory, draft, nextRow, latestRun, waits, remark, typed, turns, readRow>>

(***************************************************************************)
(* Deferred work ends, or the user stops it. The receipt of a stop goes to *)
(* the Run of the call only; once that is over the card is settled here.   *)
(***************************************************************************)
WorkEnds(k) ==
  /\ deferred[k] = "live"
  /\ deferred' = [deferred EXCEPT ![k] = "queued"]
  /\ UNCHANGED <<stored, memory, draft, nextRow, drive, latestRun, latestState, waits, remark,
                 typed, turns, readRow>>

UserStopsWork(k) ==
  /\ deferred[k] = "live"
  /\ deferred' = [deferred EXCEPT ![k] =
       IF latestState \in {"running", "suspended"} /\ IssuedIn(k) = latestRun
       THEN "queued" ELSE "settling"]
  /\ UNCHANGED <<stored, memory, draft, nextRow, drive, latestRun, latestState, waits, remark,
                 typed, turns, readRow>>

(* settle_placeholders writes back the whole row it read: its flags too.   *)
SettledFrom(row, s) == WithRow(stored, s, [row EXCEPT !.status = "cancelled"])

SettleReads(k) ==
  /\ deferred[k] = "settling"
  /\ LET found == PendingOf({k})
         s == Max(found)
     IN  IF found = {}
         THEN /\ deferred' = [deferred EXCEPT ![k] = "over"]
              /\ UNCHANGED <<stored, readRow>>
         ELSE IF SettleIsAtomic
         THEN /\ deferred' = [deferred EXCEPT ![k] = "over"]
              /\ stored' = SettledFrom(stored[s], s)
              /\ UNCHANGED readRow
         ELSE /\ deferred' = [deferred EXCEPT ![k] = "read"]
              /\ readRow' = [readRow EXCEPT ![k] = <<s, stored[s]>>]
              /\ UNCHANGED stored
  /\ UNCHANGED <<memory, draft, nextRow, drive, latestRun, latestState, waits, remark, typed, turns>>

SettleWrites(k) ==
  /\ deferred[k] = "read"
  /\ stored' = SettledFrom(readRow[k][2], readRow[k][1])
  /\ deferred' = [deferred EXCEPT ![k] = "over"]
  /\ readRow' = [readRow EXCEPT ![k] = NoRow]
  /\ UNCHANGED <<memory, draft, nextRow, drive, latestRun, latestState, waits, remark, typed, turns>>

(***************************************************************************)
(* An edit of the latest input, only while nothing is driven or suspended: *)
(* its turn leaves the context, except what answers an earlier call; the   *)
(* work of its calls is withdrawn and the new input queued.                *)
(***************************************************************************)
LatestInput == {s \in Included : stored[s].role = "input"}

(* The rows from the input on that answer a call issued before it.         *)
KeptByEdit(from) ==
  {s \in DOMAIN stored :
     /\ s >= from /\ stored[s].role = "conclusion"
     /\ \E x \in DOMAIN stored : x < from /\ Issues(x, stored[s].call)}

Excluded(from) ==
  [s \in DOMAIN stored |->
     IF s >= from /\ s \notin KeptByEdit(from)
     THEN [stored[s] EXCEPT !.included = FALSE, !.shown = FALSE] ELSE stored[s]]

CallsFrom(from) == UNION {stored[s].calls : s \in {x \in DOMAIN stored : x >= from}}

EditsInput ==
  /\ drive = "idle" /\ latestState = "ended"
  /\ turns < MaxMessages /\ LatestInput # {}
  /\ LET from == Max(LatestInput)
     IN  /\ stored' = Excluded(from)
         /\ deferred' = Dropped(LiveWork \cap CallsFrom(from))
  /\ typed' = typed + 1 /\ turns' = turns + 1
  /\ UNCHANGED <<memory, draft, nextRow, drive, latestRun, latestState, waits, remark, readRow>>

(***************************************************************************)
(* The process dies. The restart cancels the running Run and closes its    *)
(* calls among the rows of that Run; every card that waits for a result is *)
(* settled unless its conclusion is queued.                                *)
(***************************************************************************)
Lost == {k \in ToolCalls : deferred[k] \in {"live", "settling", "read"}}
OfRun(run) == InOrder({s \in Included : stored[s].run = run})

ClosedByRecovery ==
  LET entries == OfRun(latestRun)
      missing == IF latestState = "running" /\ Paired(entries) THEN Missing(entries) ELSE <<>>
      last == MaxSequence
      numbers == (last + 1)..(last + Len(missing))
      table == SetStatus(stored, PendingOf({k \in ToolCalls : deferred[k] # "queued"}), "cancelled")
  IN  [s \in DOMAIN stored \cup numbers |->
         IF s \in numbers
         THEN NewRow("tool", latestRun, missing[s - last], "cancelled", TRUE) ELSE table[s]]

ProcessRestarts ==
  /\ drive # "idle" \/ Lost # {}
  /\ stored' = ClosedByRecovery
  /\ memory' = <<>> /\ draft' = 0 /\ nextRow' = 1
  /\ drive' = "idle" /\ latestState' = IF latestState = "running" THEN "ended" ELSE latestState
  /\ waits' = FALSE /\ remark' = FALSE
  /\ deferred' = Dropped(Lost)
  /\ readRow' = [k \in ToolCalls |-> NoRow]
  /\ UNCHANGED <<latestRun, typed, turns>>

(***************************************************************************)
(* A fork takes over the rows that still belong to the conversation up to  *)
(* the last visible row of the turn it is made at (_resolve_fork_cut). A   *)
(* card that still waits is marked as not inherited.                       *)
(***************************************************************************)
TurnFrom(start) ==
  {s \in DOMAIN stored :
     /\ stored[s].shown /\ stored[s].run = stored[start].run /\ s >= start
     /\ \A x \in DOMAIN stored :
          (x > start /\ x <= s /\ stored[x].shown /\ stored[x].run = stored[start].run)
            => stored[x].role # "input"}

ForkPoints ==
  IF latestState \in {"none", "ended"}
  THEN {s \in DOMAIN stored : stored[s].role = "input" /\ stored[s].shown} ELSE {}

Uninherited(row) == IF row.status = "pending" THEN [row EXCEPT !.status = "cancelled"] ELSE row

ForkedAt(start) ==
  LET copied == {s \in DOMAIN stored :
                   /\ s <= Max(TurnFrom(start))
                   /\ stored[s].included \/ stored[s].shown
                   /\ stored[s].run <= stored[start].run}
  IN  [s \in copied |-> Uninherited(stored[s])]

ContextNext ==
  \/ RunIsDriven \/ UserTypes \/ WritesInput \/ WriteFails \/ WritesRemark \/ StepSuspends
  \/ LoadsContext \/ LoadFails \/ Streams \/ AnswersFinally \/ AwaitsConclusion \/ IsCutShort
  \/ \E calls \in SUBSET ToolCalls : AsksTools(calls)
  \/ \E k \in ToolCalls : \/ WritesConclusion(k) \/ WorkStarts(k) \/ ObservesCall(k) \/ WorkEnds(k)
                          \/ UserStopsWork(k) \/ SettleReads(k) \/ SettleWrites(k)
  \/ RunFails \/ RunIsStopped \/ EditsInput \/ ProcessRestarts

ContextSpec == ContextInit /\ [][ContextNext]_contextVars

(***************************************************************************)
(* Properties.                                                             *)
(***************************************************************************)
(* Whatever was stopped, failed, crashed, edited or settled: every result  *)
(* in the context follows its call, once. Otherwise each later request of  *)
(* the Task ends in ContextProtocolError (plan_tool_call_closures), and    *)
(* nothing repairs it.                                                     *)
ContextIsWhole == Paired(InOrder(Included))

(* What a driven Run would send is what a Run rebuilt from the rows would  *)
(* send: the working copy accepts only stored rows, and a response that    *)
(* was broken off never lends its place to the next one.                   *)
RequestIsRebuildable ==
  drive # "idle" /\ Paired(memory) /\ ContextIsWhole =>
    LET entries == InOrder(Included)
        shownIn(q) == Normalised(q, AnswerRows(q))
    IN  shownIn(memory) = shownIn(entries)

(* A card that says its work is completed has the conclusion in the        *)
(* context: an edit of a later turn keeps it ("否则那次调用的占位已推到     *)
(* 终态、结果却再也进不了上下文").                                          *)
ConclusionIsKept ==
  \A s \in Included : stored[s].status = "completed" =>
    \E x \in Included : stored[x].role = "conclusion" /\ stored[x].call = stored[s].call

(* The same of every fork of the conversation: its context agrees with the *)
(* source up to the cut, conclusions included (clone_for_fork).            *)
ForkKeepsConclusions ==
  \A start \in ForkPoints :
    LET fork == ForkedAt(start)
    IN  \A s \in DOMAIN fork : fork[s].included /\ fork[s].status = "completed" =>
          \E x \in DOMAIN fork : /\ fork[x].included /\ fork[x].role = "conclusion"
                                 /\ fork[x].call = fork[s].call

(* The context pairs calls and results, is what a rebuild gives, and keeps  *)
(* the conclusions of earlier turns.                                        *)
ContextIsSound == ContextIsWhole /\ RequestIsRebuildable /\ ConclusionIsKept
=============================================================================
