---------------------------- MODULE DispatchPolicy ----------------------------
(***************************************************************************)
(* The scheduling rules of a Task (core/workflow/message_queue/            *)
(* dispatch_policy.py): pure operators from the execution phase, the       *)
(* current Run and the unconfirmed queue rows to what the actor does next. *)
(*                                                                         *)
(* A queue row is the record                                               *)
(*   [id, kind, delivery, owner]                                           *)
(* where owner is BackgroundResultBody.wake_run_id (0 when it is None).    *)
(* Sets of rows stand for the lists the code passes: a list is always in   *)
(* id order, so "earliest" is the least id.                                *)
(***************************************************************************)
EXTENDS Naturals

Kinds == {"user_input", "agent_message", "background_result",
          "user_decision", "system_notice"}

(* LAUNCH_INPUT_BODIES: the inputs that carry a launch configuration. *)
LaunchKinds == {"user_input", "agent_message"}

Deliveries == {"immediate", "next_run"}

Phases == {"driving", "suspended", "idle"}

Messages == [id : Nat \ {0}, kind : Kinds, delivery : Deliveries, owner : Nat]

NoRun == 0

(* TaskMessage.wakes: a result addressed to one Run wakes only that Run; any *)
(* other message follows the WAKES switch of its kind.                       *)
Wakes(m, run) ==
  IF m.kind = "background_result" /\ m.owner # NoRun
  THEN m.owner = run
  ELSE m.kind # "system_notice"

Immediate(pending) == {m \in pending : m.delivery = "immediate"}

Inputs(pending) == {m \in pending : m.kind \in LaunchKinds}

(* The row put first; a set, so that there is none when S is empty.        *)
Earliest(S) == {m \in S : \A n \in S : m.id <= n.id}

(* Mutant of NextInput: the last input instead of the first.               *)
LastInput(pending) ==
  {m \in Inputs(pending) : \A n \in Inputs(pending) : n.id <= m.id}

(* next_input, as the set of at most one row: the earliest immediate launch *)
(* input, failing that the earliest queued one.                             *)
NextInput(pending) ==
  LET inputs == Inputs(pending)
      now    == Immediate(inputs)
  IN  IF now # {} THEN Earliest(now) ELSE Earliest(inputs)

(* initial_messages: a new Run takes every message that is not a launch     *)
(* input and the one launch input selected for it; a woken or resumed Run   *)
(* only the immediate ones.                                                 *)
InitialMessages(pending, freshRun) ==
  IF freshRun
  THEN (pending \ Inputs(pending)) \cup NextInput(pending)
  ELSE Immediate(pending)

(* next_action. "inheritable" says that RunLaunch.from_run(current) finds a *)
(* configuration to start a Run that consumes no launch input.              *)
NextAction(phase, current, pending, fresh, inheritable) ==
  CASE phase = "driving" -> "deliver"
    [] phase = "suspended" ->
         IF \E m \in Immediate(fresh) : Wakes(m, current) THEN "wake" ELSE "stay"
    [] phase = "idle" ->
         IF /\ \E m \in fresh : Wakes(m, NoRun)
            /\ NextInput(pending) # {} \/ inheritable
         THEN "start" ELSE "stay"

=============================================================================
