------------------------------ MODULE Projection ------------------------------
(***************************************************************************)
(* The snapshot of a Task is made in two ways: the planners                *)
(* (assistant_transport/projection) change the working copy event by event *)
(* while the workflow runs, and the rebuilder                              *)
(* (conversation_task_state_rebuilder.py) makes it anew from the Runs and  *)
(* the rows of the context when there is no working copy. A fact is        *)
(* committed first and its event is projected after: "due" are the events  *)
(* of the execution, "late" those of a thread that settles background      *)
(* calls, and in between a viewer comes or goes. What a snapshot shows of  *)
(* texts is only that there is some.                                       *)
(***************************************************************************)
EXTENDS Integers, Sequences, FiniteSets
LOCAL INSTANCE SequencesExt

CONSTANTS CallIds,
          NoTool,
          Said,             \* what the user says
          Banned,           \* calls of tools that are not admitted in this turn
          Window,           \* Constant.Transport.HISTORY_WINDOW_MESSAGES
          MostRuns,         \* bound: Runs
          MaxRequests,      \* bound: requests to the model
          LosesBanned,      \* whether a Run may end before it has observed a banned call
          FailsWhileAsked   \* whether a Run may fail while the user is asked for a decision

ASSUME ProjectionAssumption ==
  /\ NoTool \notin CallIds /\ Banned \subseteq CallIds
  /\ Window \in Nat \ {0} /\ {MostRuns, MaxRequests} \subseteq Nat
  /\ {LosesBanned, FailsWhileAsked} \subseteq BOOLEAN

VARIABLES
  ledger,    \* the status of every Run
  rows,      \* the rows of inputs and of responses, in order
  results,   \* the row of the result of every call
  stage,     \* where the execution is
  tooling,   \* what the tools of the batch have come to
  requests,
  due,       \* events of the execution that are not projected yet
  late,      \* events of a settlement from outside
  viewed,    \* whether somebody subscribes
  shown      \* the working copy

factVars == <<ledger, rows, results>>
projectionVars == <<factVars, stage, tooling, requests, due, late, viewed, shown>>

-----------------------------------------------------------------------------
(* The facts.                                                               *)

Ended     == {"completed", "failed", "cancelled"}
RunStates == Ended \cup {"running", "suspended"}
CallStates == {"pending", "running", "completed", "failed", "cancelled"}

Result(status, bg) == [status |-> status, hidden |-> FALSE, bg |-> bg]
NoResult == Result("none", FALSE)

InputRow(run, i) == [run |-> run, said |-> {i}, text |-> FALSE, calls |-> {}]
DraftRow(run)    == [run |-> run, said |-> {}, text |-> FALSE, calls |-> {}]

NewestRun == Len(ledger)
Draft == rows[Len(rows)]

-----------------------------------------------------------------------------
(* The snapshot: the current activity and a flat list of messages.          *)

TextPart(status) == [tool |-> NoTool, status |-> status, bg |-> FALSE]
CallPart(k, result) == [tool |-> k, status |-> result.status, bg |-> result.bg]

NoOne == "nobody"   \* who said the message before the first input of a Run
Message(role, i, run, parts) ==
  [role |-> role, of |-> i, run |-> run, parts |-> parts, outcome |-> "none"]

NoActivity == [run |-> 0, status |-> "none"]
Nothing == [there |-> FALSE, activity |-> NoActivity, messages |-> <<>>]

(* last_assistant_index.                                                    *)
Replies(s, run) == {n \in DOMAIN s.messages : s.messages[n].run = run /\ s.messages[n].role = "assistant"}
LastReply(s, run) == CHOOSE n \in Replies(s, run) : \A m \in Replies(s, run) : m <= n

(* find_tool.                                                               *)
Places(s, k) ==
  {<<n, p>> \in UNION {{n} \X DOMAIN s.messages[n].parts : n \in DOMAIN s.messages} :
     s.messages[n].parts[p].tool = k}
Place(s, k) == CHOOSE place \in Places(s, k) : TRUE

-----------------------------------------------------------------------------
(* validate_snapshot: what may be published. The id of a message is made of *)
(* its role, its input and its Run.                                         *)
ValidActivity(activity) ==
  activity = NoActivity \/ (activity.run > 0 /\ activity.status \in RunStates)

ValidPart(part) ==
  part.status \in IF part.tool = NoTool THEN {"running", "completed"} ELSE CallStates

ValidMessage(message) ==
  /\ message.outcome # "none" => message.role = "assistant" /\ message.outcome \in Ended
  /\ \A p \in DOMAIN message.parts : ValidPart(message.parts[p])

Identity(message) == <<message.role, message.of, message.run>>
OwnIdentities(messages) ==
  \A n, m \in DOMAIN messages : Identity(messages[n]) = Identity(messages[m]) => n = m

ValidSnapshot(s) ==
  /\ ValidActivity(s.activity) /\ OwnIdentities(s.messages)
  /\ \A n \in DOMAIN s.messages : ValidMessage(s.messages[n])

-----------------------------------------------------------------------------
(* The rebuilder.                                                           *)

(* build_pair_tool_part: a call without a result counts as cancelled, and a *)
(* hidden one is left out.                                                  *)
PairedPart(k) ==
  CallPart(k, IF results[k].status = "none" THEN Result("cancelled", FALSE) ELSE results[k])
Shows(k) == ~results[k].hidden

(* _append_assistant_parts.                                                 *)
PartsOf(row) ==
  (IF row.text THEN <<TextPart("completed")>> ELSE <<>>)
  \o SetToSeq({PairedPart(k) : k \in {k \in row.calls : Shows(k)}})

(* _run_messages: the responses after an input are one reply; so are those  *)
(* before the first input of the Run.                                       *)
AddRow(acc, row) ==
  IF row.said = {}
  THEN [acc EXCEPT !.reply.parts = @ \o PartsOf(row)]
  ELSE LET i == CHOOSE i \in row.said : TRUE IN
       [messages |-> (IF acc.reply.parts = <<>> THEN acc.messages ELSE Append(acc.messages, acc.reply))
                     \o <<Message("user", i, row.run, <<>>)>>,
        reply |-> Message("assistant", i, row.run, <<>>)]

RunMessages(run) ==
  LET acc == FoldLeft(AddRow, [messages |-> <<>>, reply |-> Message("assistant", NoOne, run, <<>>)],
                      SelectSeq(rows, LAMBDA row : row.run = run)) IN
  IF acc.reply.of = NoOne /\ acc.reply.parts = <<>> THEN acc.messages
  ELSE Append(acc.messages, acc.reply)

(* The outcome of a Run that has ended is on its last reply.                *)
WithOutcome(messages, run) ==
  IF ledger[run] \notin Ended \/ messages = <<>> THEN messages
  ELSE [messages EXCEPT ![Len(messages)].outcome = ledger[run]]

Rebuild ==
  [there |-> TRUE,
   activity |-> IF NewestRun = 0 THEN NoActivity ELSE [run |-> NewestRun, status |-> ledger[NewestRun]],
   messages |-> FlattenSeq([run \in DOMAIN ledger |-> WithOutcome(RunMessages(run), run)])]

(* get_working_snapshot.                                                    *)
Copy == IF shown.there THEN shown ELSE Rebuild

-----------------------------------------------------------------------------
(* The planners.                                                            *)

(* active_run_id: the Run is the current activity and has not ended.        *)
IsActive(s, run) == s.activity.run = run /\ s.activity.status \notin Ended

(* plan_run_initialized.                                                    *)
PlanInitialized(s, e) ==
  IF s.activity.run >= e.run \/ (s.activity.run # 0 /\ s.activity.status \notin Ended) THEN s
  ELSE [s EXCEPT !.activity = [run |-> e.run, status |-> "running"]]

(* Mutant of AllowedRun: what has ended stays ended.                        *)
AllowedRunForward(from, to) == from = to \/ from = "running" \/ (from = "suspended" /\ to # "failed")

(* _ALLOWED_RUN_STATUS_TRANSITIONS.                                         *)
AllowedRun(from, to) ==
  \/ from = to
  \/ from = "running"
  \/ from = "suspended" /\ to \in {"running", "cancelled"}
  \/ from \in {"cancelled", "failed"} /\ to = "running"

ClosedParts(parts) ==
  [p \in DOMAIN parts |-> IF parts[p].tool = NoTool THEN [parts[p] EXCEPT !.status = "completed"] ELSE parts[p]]

(* plan_run_status_changed, and _plan_historical_status for a Run that is   *)
(* no longer the activity: the outcome is written with the end, and taken   *)
(* away when the Run goes on.                                               *)
PlanRunStatus(s, e) ==
  LET replied == Replies(s, e.run) # {}
      last == LastReply(s, e.run) IN
  IF s.activity.run # e.run
  THEN IF ~replied \/ e.status \notin Ended THEN s
       ELSE IF s.messages[last].outcome = "none" \/ ~AllowedRun(s.messages[last].outcome, e.status) THEN s
       ELSE [s EXCEPT !.messages[last].outcome = e.status]
  ELSE IF ~AllowedRun(s.activity.status, e.status) THEN s
  ELSE IF ~replied THEN [s EXCEPT !.activity.status = e.status]
  ELSE [s EXCEPT !.activity.status = e.status,
                 !.messages[last].outcome = IF e.status \in Ended THEN e.status ELSE "none",
                 !.messages[last].parts = IF e.status \in Ended THEN ClosedParts(@) ELSE @]

(* plan_input_consumed: the message and the place of its reply; an empty    *)
(* place before it is replaced.                                             *)
PlanConsumed(s, e) ==
  LET count == Len(s.messages)
      vacant == /\ count > 0 /\ s.messages[count].role = "assistant"
                /\ s.messages[count].run = e.run /\ s.messages[count].parts = <<>>
      before == IF vacant THEN SubSeq(s.messages, 1, count - 1) ELSE s.messages IN
  IF \E n \in DOMAIN s.messages : s.messages[n].role = "user" /\ s.messages[n].of = e.of THEN s
  ELSE [s EXCEPT !.messages = before \o <<Message("user", e.of, e.run, <<>>),
                                          Message("assistant", e.of, e.run, <<>>)>>]

(* ensure_assistant, and a part at the end of the reply.                    *)
AddPart(s, run, part) ==
  IF Replies(s, run) = {}
  THEN [s EXCEPT !.messages = Append(@, Message("assistant", NoOne, run, <<part>>))]
  ELSE [s EXCEPT !.messages[LastReply(s, run)].parts = Append(@, part)]

OpenTexts(s, run) ==
  IF Replies(s, run) = {} THEN {}
  ELSE LET parts == s.messages[LastReply(s, run)].parts IN
       {p \in DOMAIN parts : parts[p].tool = NoTool /\ parts[p].status = "running"}

(* plan_assistant_text_delta and plan_assistant_part_closed.                *)
PlanDelta(s, e) ==
  IF ~IsActive(s, e.run) \/ OpenTexts(s, e.run) # {} THEN s ELSE AddPart(s, e.run, TextPart("running"))

PlanClosed(s, e) ==
  IF ~IsActive(s, e.run) \/ OpenTexts(s, e.run) = {} THEN s
  ELSE [s EXCEPT !.messages[LastReply(s, e.run)].parts = ClosedParts(@)]

(* plan_tool_call_created.                                                  *)
PlanCreated(s, e) ==
  IF ~IsActive(s, e.run) \/ Places(s, e.tool) # {} THEN s
  ELSE AddPart(s, e.run, CallPart(e.tool, Result("pending", FALSE)))

(* _ALLOWED_TOOL_STATUS_TRANSITIONS.                                        *)
AllowedCall(from, to) ==
  from = to \/ from \in {"pending", "running"} \/ (from = "cancelled" /\ to \in {"completed", "failed"})

(* plan_tool_call_status_changed: what is known of the background stays.    *)
PlanCall(s, e) ==
  IF Places(s, e.tool) = {} THEN s
  ELSE LET place == Place(s, e.tool)
           part == s.messages[place[1]].parts[place[2]] IN
       IF ~AllowedCall(part.status, e.status) THEN s
       ELSE [s EXCEPT !.messages[place[1]].parts[place[2]] =
               [part EXCEPT !.status = e.status, !.bg = @ \/ e.bg]]

(* plan_tool_calls_settled: what still waits, but not in the background.    *)
PlanSettled(s, e) ==
  [s EXCEPT !.messages = [n \in DOMAIN s.messages |->
     IF s.messages[n].run # e.run THEN s.messages[n]
     ELSE [s.messages[n] EXCEPT !.parts = [p \in DOMAIN s.messages[n].parts |->
            LET part == s.messages[n].parts[p] IN
            IF part.tool # NoTool /\ part.status \in {"pending", "running"} /\ ~part.bg
            THEN [part EXCEPT !.status = e.status] ELSE part]]]]

(* Events.                                                                  *)
Event(kind, run, k, status, bg, i) ==
  [kind |-> kind, run |-> run, tool |-> k, status |-> status, bg |-> bg, of |-> i]
RunEvent(run, status) == Event("run_status_changed", run, NoTool, status, FALSE, NoOne)
CallEvent(run, k, status, bg) == Event("tool_call_status_changed", run, k, status, bg, NoOne)
PartEvent(kind, run) == Event(kind, run, NoTool, "none", FALSE, NoOne)

(* plan_event.                                                              *)
Plan(s, e) ==
  CASE e.kind = "run_initialized"          -> PlanInitialized(s, e)
    [] e.kind = "run_status_changed"       -> PlanRunStatus(s, e)
    [] e.kind = "input_consumed"           -> PlanConsumed(s, e)
    [] e.kind = "assistant_text_delta"     -> PlanDelta(s, e)
    [] e.kind = "assistant_part_closed"    -> PlanClosed(s, e)
    [] e.kind = "tool_call_created"        -> PlanCreated(s, e)
    [] e.kind = "tool_call_status_changed" -> PlanCall(s, e)
    [] e.kind = "tool_calls_settled"       -> PlanSettled(s, e)

(* _unload_if_unwatched.                                                    *)
Kept(s, watched) == IF watched \/ s.activity.status = "running" THEN s ELSE Nothing

(* apply_planned, under the lock of the state service.                      *)
Applied(e) ==
  LET next == Plan(Copy, e) IN
  IF e.kind = "run_status_changed" THEN Kept(next, viewed) ELSE next

-----------------------------------------------------------------------------
(* The window of a history: the newest messages, and pages before them.     *)

LargestOf(S) == CHOOSE n \in S : \A m \in S : m <= n

(* _turn_start: back to the message of a user that opened the turn.         *)
TurnStart(messages, start) ==
  LET opens == {n \in 0..start : messages[n + 1].role = "user"} IN
  IF start <= 0 THEN 0 ELSE IF opens = {} THEN start ELSE LargestOf(opens)

(* history_page: from where the page before position "end" begins.          *)
PageStart(messages, end) == TurnStart(messages, end - Window)
=============================================================================
