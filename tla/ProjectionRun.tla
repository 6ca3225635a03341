---------------------------- MODULE ProjectionRun ----------------------------
(***************************************************************************)
(* One Task at work: what its execution, a settlement of background calls  *)
(* and a viewer do to the facts, and in which order the events of the      *)
(* facts reach the working copy. What is not projected yet of one actor    *)
(* keeps that actor from its next step (projection is synchronous); the    *)
(* steps of the others come in between.                                    *)
(***************************************************************************)
EXTENDS Projection
LOCAL INSTANCE SequencesExt

ProjectionInit ==
  /\ ledger = <<>> /\ rows = <<>> /\ results = [k \in CallIds |-> NoResult]
  /\ stage = "rest" /\ tooling = [k \in CallIds |-> "none"] /\ requests = 0
  /\ due = <<>> /\ late = <<>> /\ viewed = FALSE /\ shown = Nothing

Stages == {"rest", "prepare", "model", "answered", "awaited", "stopping", "tools", "deciding",
           "failing"}

ProjectionTypeOK ==
  /\ \A run \in DOMAIN ledger : ledger[run] \in RunStates
  /\ NewestRun <= MostRuns
  /\ \A n \in DOMAIN rows : rows[n].run \in 1..NewestRun /\ rows[n].calls \subseteq CallIds
  /\ results \in [CallIds -> [status : CallStates \cup {"none"}, hidden : BOOLEAN, bg : BOOLEAN]]
  /\ stage \in Stages /\ requests \in 0..MaxRequests
  /\ tooling \in [CallIds -> {"none", "waiting", "started", "observed", "pending", "background"} \cup Ended]
  /\ viewed \in BOOLEAN /\ shown.there \in BOOLEAN

-----------------------------------------------------------------------------
(* Steps of the execution, and of the actor while there is no execution.    *)

Free == due = <<>>

(* ConversationRunLedger.transition: the status is committed, its event is  *)
(* due; the execution goes on at "next".                                    *)
Transits(status, next) ==
  /\ ledger' = [ledger EXCEPT ![NewestRun] = status]
  /\ due' = <<RunEvent(NewestRun, status)>>
  /\ stage' = next
  /\ UNCHANGED <<rows, results, tooling, requests>>

(* create_run.                                                              *)
CreatesRun ==
  /\ stage = "rest" /\ Free /\ NewestRun < MostRuns
  /\ \A run \in DOMAIN ledger : ledger[run] \in Ended
  /\ ledger' = Append(ledger, "running")
  /\ due' = <<PartEvent("run_initialized", NewestRun + 1)>>
  /\ stage' = "prepare"
  /\ UNCHANGED <<rows, results, tooling, requests>>

(* The user resumes a Run, a message wakes one, and the actor cancels one   *)
(* that is suspended.                                                       *)
Resumes ==
  /\ stage = "rest" /\ Free /\ NewestRun > 0 /\ requests < MaxRequests
  /\ ledger[NewestRun] \in {"cancelled", "failed", "suspended"}
  /\ Transits("running", "prepare")

CancelsSuspended ==
  /\ stage = "rest" /\ Free /\ NewestRun > 0 /\ ledger[NewestRun] = "suspended"
  /\ Transits("cancelled", "rest")

(* prepare_input: a stop, an input of the user, the conclusion of a call in *)
(* the background, a decision, or nothing more to wait for.                 *)
StopsBefore == stage = "prepare" /\ Free /\ Transits("cancelled", "rest")

HasSaid(i) == \E n \in DOMAIN rows : i \in rows[n].said

TakesInput(i) ==
  /\ stage = "prepare" /\ Free /\ ~HasSaid(i)
  /\ rows' = Append(rows, InputRow(NewestRun, i))
  /\ due' = <<Event("input_consumed", NewestRun, NoTool, "none", FALSE, i)>>
  /\ UNCHANGED <<ledger, results, stage, tooling, requests>>

(* A settled row tells its card, unless it is hidden.                       *)
ToolEventOf(k, result) ==
  IF result.hidden THEN <<>> ELSE <<CallEvent(NewestRun, k, result.status, result.bg)>>

Settles(k, status) ==
  LET result == [results[k] EXCEPT !.status = status] IN
  /\ results' = [results EXCEPT ![k] = result]
  /\ due' = ToolEventOf(k, result)

(* settle_background_placeholder.                                           *)
TakesConclusion(k) ==
  /\ stage = "prepare" /\ Free /\ results[k].bg /\ results[k].status = "pending"
  /\ \E status \in Ended : Settles(k, status)
  /\ UNCHANGED <<ledger, rows, stage, tooling, requests>>

(* The user is asked for a decision (awaiting_decision).                    *)
Asked(k) == ~results[k].bg /\ results[k].status = "pending"

(* _route_decision: a call that waits for the user is run.                  *)
TakesDecision(k) ==
  /\ stage = "prepare" /\ Free /\ Asked(k)
  /\ Settles(k, "running")
  /\ stage' = "deciding" /\ tooling' = [tooling EXCEPT ![k] = "started"]
  /\ UNCHANGED <<ledger, rows, requests>>

(* settle_decision_observation: it ended in the executor, and is settled;   *)
(* it may go on in the background.                                          *)
SettlesDecision(k) ==
  /\ stage = "deciding" /\ Free /\ tooling[k] = "started"
  /\ \/ \E status \in Ended : Settles(k, status)
     \/ /\ results' = [results EXCEPT ![k].status = "pending", ![k].bg = TRUE]
        /\ due' = ToolEventOf(k, results'[k])
  /\ stage' = "prepare" /\ tooling' = [tooling EXCEPT ![k] = "observed"]
  /\ UNCHANGED <<ledger, rows, requests>>

(* _finalize_max_steps: the bound of the requests fails the Run without a   *)
(* word on its cards.                                                       *)
FailsAtLimit ==
  /\ stage = "prepare" /\ Free /\ requests = MaxRequests
  /\ Transits("failed", "rest")

Suspends ==
  /\ stage = "prepare" /\ Free /\ \E k \in CallIds : results[k].status = "pending"
  /\ Transits("suspended", "rest")

AsksModel ==
  /\ stage = "prepare" /\ Free /\ requests < MaxRequests
  /\ requests' = requests + 1 /\ stage' = "model"
  /\ rows' = Append(rows, DraftRow(NewestRun))
  /\ UNCHANGED <<ledger, results, tooling, due>>

(* The stream: the draft is saved, and then the parts are told.             *)
TextIsOpen == Draft.text /\ Draft.calls = {}
ClosesText == IF TextIsOpen THEN <<PartEvent("assistant_part_closed", NewestRun)>> ELSE <<>>

StreamsText ==
  /\ stage = "model" /\ Free /\ ~Draft.text /\ Draft.calls = {}
  /\ rows' = [rows EXCEPT ![Len(rows)].text = TRUE]
  /\ due' = <<PartEvent("assistant_text_delta", NewestRun)>>
  /\ UNCHANGED <<ledger, results, stage, tooling, requests>>

IsNewCall(k) == \A n \in DOMAIN rows : k \notin rows[n].calls

(* StreamingPartStateMachine.tool_call: a card for what is admitted.        *)
StreamsCall(k) ==
  /\ stage = "model" /\ Free /\ IsNewCall(k)
  /\ rows' = [rows EXCEPT ![Len(rows)].calls = @ \cup {k}]
  /\ due' = ClosesText \o
       (IF k \in Banned THEN <<>> ELSE <<Event("tool_call_created", NewestRun, k, "none", FALSE, NoOne)>>)
  /\ tooling' = [tooling EXCEPT ![k] = "waiting"]
  /\ UNCHANGED <<ledger, results, stage, requests>>

(* The response is whole: without calls it answers, or what it says is not  *)
(* the end yet.                                                             *)
ResponseEnds ==
  /\ stage = "model" /\ Free
  /\ due' = ClosesText
  /\ stage' \in (IF Draft.calls = {} THEN {"answered", "awaited"} ELSE {"tools"})
  /\ UNCHANGED <<ledger, rows, results, tooling, requests>>

Completes == stage = "answered" /\ Free /\ Transits("completed", "rest")

AwaitsMore ==
  /\ stage = "awaited" /\ Free /\ stage' = "prepare"
  /\ UNCHANGED <<ledger, rows, results, tooling, requests, due>>

(* Whether the batch holds a card that would be lost: see LosesBanned.      *)
MayEndEarly == LosesBanned \/ Draft.calls \cap Banned = {}

Cards == Draft.calls \ Banned
CancelEvents == SetToSeq({CallEvent(NewestRun, k, "cancelled", FALSE) : k \in Cards})

(* StreamingPartStateMachine.cancel: the cards of this request first, then  *)
(* their rows, then the Run.                                                *)
StreamIsStopped ==
  /\ stage = "model" /\ Free /\ MayEndEarly
  /\ due' = ClosesText \o CancelEvents
  /\ stage' = "stopping"
  /\ UNCHANGED <<ledger, rows, results, tooling, requests>>

StoppedInStream ==
  /\ stage = "stopping" /\ Free
  /\ results' = [k \in CallIds |-> IF k \in Cards THEN Result("cancelled", FALSE) ELSE results[k]]
  /\ tooling' = [k \in CallIds |-> IF k \in Draft.calls THEN "observed" ELSE tooling[k]]
  /\ ledger' = [ledger EXCEPT ![NewestRun] = "cancelled"]
  /\ due' = <<RunEvent(NewestRun, "cancelled")>>
  /\ stage' = "rest"
  /\ UNCHANGED <<rows, requests>>

(* A tool is admitted and shown as running, or denied; it ends, and its end *)
(* is told before it is stored. It may wait for the user, or go on in the   *)
(* background.                                                              *)
Outcomes == Ended \cup {"pending", "background"}
ToolEvent(k, outcome) ==
  IF k \in Banned THEN <<>>
  ELSE <<CallEvent(NewestRun, k, IF outcome = "background" THEN "pending" ELSE outcome, outcome = "background")>>

ToolStarts(k) ==
  /\ stage = "tools" /\ Free /\ k \in Draft.calls \ Banned /\ tooling[k] = "waiting"
  /\ tooling' = [tooling EXCEPT ![k] = "started"]
  /\ due' = <<CallEvent(NewestRun, k, "running", FALSE)>>
  /\ UNCHANGED <<ledger, rows, results, stage, requests>>

ToolEnds(k) ==
  /\ stage = "tools" /\ Free /\ k \in Draft.calls
  /\ \E outcome \in (IF tooling[k] = "started" THEN Outcomes ELSE {"failed"}) :
       /\ tooling[k] \in {"started", "waiting"}
       /\ tooling' = [tooling EXCEPT ![k] = outcome]
       /\ due' = ToolEvent(k, outcome)
  /\ UNCHANGED <<ledger, rows, results, stage, requests>>

(* The row of a result, from what the tool came to.                         *)
Observed(k) ==
  [status |-> IF tooling[k] = "background" THEN "pending" ELSE tooling[k],
   hidden |-> k \in Banned, bg |-> tooling[k] = "background"]

(* settle_observations: the row, then its card once more.                   *)
Observes(k) ==
  /\ stage = "tools" /\ Free /\ k \in Draft.calls /\ tooling[k] \in Outcomes
  /\ \A d \in Draft.calls : tooling[d] \in Outcomes \cup {"observed"}
  /\ results' = [results EXCEPT ![k] = Observed(k)]
  /\ due' = ToolEventOf(k, results'[k])
  /\ tooling' = [tooling EXCEPT ![k] = "observed"]
  /\ UNCHANGED <<ledger, rows, stage, requests>>

BatchEnds ==
  /\ stage = "tools" /\ Free /\ \A k \in Draft.calls : tooling[k] = "observed"
  /\ stage' = "prepare"
  /\ UNCHANGED <<ledger, rows, results, tooling, requests, due>>

(* RunDriver._settle_failure: the stream closes its part on the way out;    *)
(* then the Run fails, and the cards that still wait are settled. A failure *)
(* before a result that was told is stored is left out.                     *)
RunFails ==
  /\ stage \in {"model", "tools", "prepare"} /\ Free
  /\ stage # "prepare" => MayEndEarly
  /\ FailsWhileAsked \/ ~\E k \in CallIds : Asked(k)
  /\ stage = "tools" => \A k \in Draft.calls : tooling[k] \notin Outcomes
  /\ stage' = "failing"
  /\ due' = IF stage = "model" THEN ClosesText ELSE <<>>
  /\ tooling' = [k \in CallIds |-> IF tooling[k] \in {"waiting", "started"} THEN "observed" ELSE tooling[k]]
  /\ UNCHANGED <<ledger, rows, results, requests>>

SettledEvents(run) ==
  <<RunEvent(run, "failed"), Event("tool_calls_settled", run, NoTool, "cancelled", FALSE, NoOne)>>

FailureIsSettled ==
  /\ stage = "failing" /\ Free
  /\ ledger' = [ledger EXCEPT ![NewestRun] = "failed"]
  /\ due' = SettledEvents(NewestRun)
  /\ stage' = "rest"
  /\ UNCHANGED <<rows, results, tooling, requests>>

-----------------------------------------------------------------------------
(* cancel_placeholders, in a thread of its own: calls in the background     *)
(* that still wait, and decisions that are being carried out.               *)
SettlesPlaceholder(k) ==
  /\ late = <<>>
  /\ results[k].bg /\ results[k].status = "pending"
  /\ results' = [results EXCEPT ![k].status = "cancelled"]
  /\ late' = ToolEventOf(k, results'[k])
  /\ UNCHANGED <<ledger, rows, stage, tooling, requests, due, viewed, shown>>

(* The sink of the execution, and the projector of the settlement.          *)
Projects ==
  /\ \/ due # <<>> /\ shown' = Applied(Head(due)) /\ due' = Tail(due) /\ UNCHANGED late
     \/ /\ late # <<>> /\ late' = Tail(late) /\ UNCHANGED due
        /\ shown' = IF shown.there THEN Applied(Head(late)) ELSE shown
  /\ UNCHANGED <<factVars, stage, tooling, requests, viewed>>

(* subscribe_with_snapshot, and its unsubscribe.                            *)
Subscribes ==
  /\ ~viewed /\ viewed' = TRUE /\ shown' = Copy
  /\ UNCHANGED <<factVars, stage, tooling, requests, due, late>>

Unsubscribes ==
  /\ viewed /\ viewed' = FALSE
  /\ shown' = IF shown.there THEN Kept(shown, FALSE) ELSE shown
  /\ UNCHANGED <<factVars, stage, tooling, requests, due, late>>

Works ==
  /\ \/ FailsAtLimit \/ CreatesRun \/ Resumes \/ CancelsSuspended \/ StopsBefore \/ Suspends \/ AsksModel
     \/ StreamsText \/ ResponseEnds \/ Completes \/ AwaitsMore
     \/ StreamIsStopped \/ StoppedInStream \/ BatchEnds \/ RunFails \/ FailureIsSettled
     \/ \E i \in Said : TakesInput(i)
     \/ \E k \in CallIds :
          \/ TakesConclusion(k) \/ TakesDecision(k) \/ SettlesDecision(k)
          \/ StreamsCall(k) \/ ToolStarts(k) \/ ToolEnds(k) \/ Observes(k)
  /\ UNCHANGED <<late, viewed, shown>>

ProjectionNext ==
  \/ Works \/ Projects \/ Subscribes \/ Unsubscribes
  \/ \E k \in CallIds : SettlesPlaceholder(k)

-----------------------------------------------------------------------------
(* What the two ways have in common: texts are there or not, and the order  *)
(* of the parts of a reply is free.                                         *)
Facts(parts) ==
  {<<parts[p].tool, IF parts[p].tool = NoTool THEN "some" ELSE parts[p].status>> : p \in DOMAIN parts}

Essence(s) ==
  [activity |-> s.activity,
   messages |-> [n \in DOMAIN s.messages |-> [s.messages[n] EXCEPT !.parts = Facts(@)]]]

(* A client that has followed the events sees what a client sees that comes *)
(* when the snapshot is made anew: no outcome, card or reply is lost,       *)
(* invented or left waiting, whoever looks when.                            *)
SnapshotIsCanonical ==
  (shown.there /\ stage = "rest" /\ due = <<>> /\ late = <<>>) => Essence(shown) = Essence(Rebuild)

(* However events and a rebuild come together, the working copy passes      *)
(* validate_snapshot: no message or reply is there twice, none but a reply  *)
(* has an outcome.                                                          *)
SnapshotIsValid == shown.there => ValidSnapshot(shown)

(* What tool_call_event_projection.py says of a Run that has failed: a card *)
(* that was settled with it waits for nobody, live and rebuilt alike.       *)
SettledWaitsForNobody ==
  (shown.there /\ stage = "rest" /\ due = <<>> /\ late = <<>>) =>
    \A k \in CallIds : Places(shown, k) # {} =>
      LET place == Place(shown, k) IN
      shown.messages[place[1]].parts[place[2]].status = "cancelled" => ~Asked(k)

(* Pages fit together: each is shorter than what is left, and none begins   *)
(* within a turn.                                                           *)
PagesKeepTurns ==
  \A end \in 1..Len(shown.messages) :
    LET start == PageStart(shown.messages, end) IN
    /\ start < end
    /\ start > 0 => \/ shown.messages[start + 1].role = "user"
                    \/ \A n \in 1..start : shown.messages[n].role # "user"

=============================================================================
