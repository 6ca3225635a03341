---------------------------- MODULE TerminalInput ----------------------------
(***************************************************************************)
(* Who types into one terminal session: the user, whose keys are never     *)
(* refused (user_input), and the calls of the Agent, which must not fall   *)
(* into a line or a program of the user (write, _admit_agent_input). What  *)
(* is accepted goes through one bounded queue to the worker                *)
(* (worker_client.py), and so do the sizes of the panel. The worker        *)
(* reports where commands begin and end; a report does not say who typed   *)
(* the command.                                                            *)
(***************************************************************************)
EXTENDS Integers, Sequences, FiniteSets

CONSTANTS WriteCalls,      \* the write calls of the Agent: their operation_ids
          InputSize,       \* MAX_INPUT_QUEUE_FRAMES
          MaxTyped,        \* bound: inputs of the user
          MaxSizes,        \* bound: sizes of the panel
          MaxTries,        \* bound: how often a call is made
          Interferes,      \* whether the user enters a line while the Agent's input is on its way
          AcksAreLate,     \* whether a signal is confirmed after five seconds
          ResizesAtStart   \* whether the panel changes while the start sends a size again

ASSUME TerminalInputAssumption ==
  /\ {InputSize, MaxTyped, MaxSizes, MaxTries} \subseteq Nat
  /\ {Interferes, AcksAreLate, ResizesAtStart} \subseteq BOOLEAN

VARIABLES
  session,   \* "starting", "running", "ended"
  inputs,    \* _input_queue: [by, kind, of]
  front,     \* the program in front: "shell", or who typed the command that is running
  half,      \* the user has typed a part of a line
  events,    \* reports of the shell that the session has not read yet
  command,   \* observation: started_by of the active command, "none" without one
  lastInput, \* _last_input_by
  typing,    \* _user_typing: the last key is less than three seconds ago
  kind, call, tries,
  accepted,  \* _accepted_writes
  applied,   \* history: how often the input of a call has reached the terminal
  typed,
  asked, pending, again, size, sizes

typingVars == <<session, inputs, front, half, events, command, lastInput, typing, kind, call,
                tries, accepted, applied, typed>>
sizeVars == <<asked, pending, again, size, sizes>>
inputVars == <<typingVars, sizeVars>>

Panel == "panel"
Sources == {"agent", "user"}
Frame(by, what, of) == [by |-> by, kind |-> what, of |-> of]
Frames == [by : Sources, kind : {"line", "signal"}, of : WriteCalls]
          \cup [by : {"user"}, kind : {"keys", "line", "erase"}, of : {Panel}]
          \cup [by : {"user"}, kind : {"size"}, of : 1..MaxSizes]

Under == {"waiting", "admitted", "sent", "unsure"}

InputTypeOK ==
  /\ session \in {"starting", "running", "ended"}
  /\ Len(inputs) <= InputSize /\ \A n \in DOMAIN inputs : inputs[n] \in Frames
  /\ front \in Sources \cup {"shell"} /\ half \in BOOLEAN /\ events \in Seq({"started", "returned"})
  /\ command \in Sources \cup {"none"} /\ lastInput \in Sources \cup {"none"} /\ typing \in BOOLEAN
  /\ kind \in [WriteCalls -> {"line", "signal"}]
  /\ call \in [WriteCalls -> Under \cup {"new", "accepted", "failed"}]
  /\ tries \in [WriteCalls -> 0..MaxTries] /\ accepted \subseteq WriteCalls
  /\ applied \in [WriteCalls -> 0..MaxTries] /\ typed \in 0..MaxTyped
  /\ {asked, pending, again, size, sizes} \subseteq 0..MaxSizes

InputInit ==
  /\ session = "starting" /\ inputs = <<>> /\ front = "shell" /\ half = FALSE /\ events = <<>>
  /\ command = "none" /\ lastInput = "none" /\ typing = FALSE
  /\ kind \in [WriteCalls -> {"line", "signal"}]
  /\ call = [w \in WriteCalls |-> "new"] /\ tries = [w \in WriteCalls |-> 0]
  /\ accepted = {} /\ applied = [w \in WriteCalls |-> 0] /\ typed = 0
  /\ asked = 0 /\ pending = 0 /\ again = 0 /\ size = 0 /\ sizes = 0

-----------------------------------------------------------------------------
(* Mutant of HasRoom: one more than the queue holds.                        *)
HasRoomForOneMore == Len(inputs) <= InputSize

(* _enqueue: one order for everything, and no waiting when it is full.      *)
HasRoom == Len(inputs) < InputSize
Enqueue(frame) == inputs' = Append(inputs, frame)

Reach(w, where) == call' = [call EXCEPT ![w] = where]

(* Nothing of a line that the user entered is still to be reported.         *)
UserIsReported == events = <<>> /\ \A n \in DOMAIN inputs : inputs[n].kind # "line" \/ inputs[n].by # "user"
AgentIsReported ==
  /\ events = <<>> /\ \A w \in WriteCalls : call[w] \notin Under
  /\ \A n \in DOMAIN inputs : inputs[n].by # "agent"

AgentOnlyWaits ==
  /\ events = <<>> /\ \A w \in WriteCalls : call[w] \in Under => call[w] = "waiting"
  /\ \A n \in DOMAIN inputs : inputs[n].by # "agent"

(* user_input: queued, and only then remembered as the last input.          *)
UserTypes ==
  /\ session = "running" /\ typed < MaxTyped /\ HasRoom
  /\ \E what \in (IF half THEN {"keys", "line", "erase"} ELSE {"keys", "line"}) :
       /\ Interferes \/ AgentIsReported \/ (what = "erase" /\ AgentOnlyWaits)
       /\ Enqueue(Frame("user", what, Panel))
  /\ typing' = TRUE /\ lastInput' = "user" /\ typed' = typed + 1
  /\ UNCHANGED <<session, front, half, events, command, kind, call, tries, accepted, applied, sizeVars>>

(* Three seconds without a key. What the user typed has been applied and    *)
(* reported by then, and no line is left half typed.                        *)
UserPauses ==
  /\ typing /\ ~half /\ events = <<>> /\ \A n \in DOMAIN inputs : inputs[n].kind = "size"
  /\ typing' = FALSE
  /\ UNCHANGED <<session, inputs, front, half, events, command, lastInput, kind, call, tries, accepted,
                 applied, typed, sizeVars>>

-----------------------------------------------------------------------------
(* write: what was accepted before is not sent again.                       *)

IsDuplicate(w) == w \in accepted

(* _admit_agent_input: not into a command that the user started.            *)
Admissible == command # "user"

Admit(w) == Reach(w, "admitted") /\ lastInput' = "agent"

Calls(w) ==
  /\ call[w] \in {"new", "failed", "accepted"} /\ tries[w] < MaxTries
  /\ \A v \in WriteCalls : call[v] \notin Under
  /\ Interferes \/ UserIsReported
  /\ tries' = [tries EXCEPT ![w] = @ + 1]
  /\ IF IsDuplicate(w) THEN Reach(w, "accepted") /\ UNCHANGED lastInput
     ELSE IF session # "running" \/ ~Admissible THEN Reach(w, "failed") /\ UNCHANGED lastInput
     ELSE IF typing THEN Reach(w, "waiting") /\ UNCHANGED lastInput
     ELSE Admit(w)
  /\ UNCHANGED <<session, inputs, front, half, events, command, typing, kind, accepted, applied, typed, sizeVars>>

(* The user keeps typing, the Run is cancelled or the session is over; or   *)
(* the user pauses, and the call goes on.                                   *)
WaitEnds(w) ==
  /\ call[w] = "waiting"
  /\ \/ Reach(w, "failed") /\ UNCHANGED lastInput
     \/ ~typing /\ Admit(w)
  /\ UNCHANGED <<session, inputs, front, half, events, command, typing, kind, tries, accepted, applied, typed, sizeVars>>

(* _deliver_agent_input, without the lock of the session.                   *)
Delivers(w) ==
  /\ call[w] = "admitted"
  /\ IF session = "running" /\ HasRoom
     THEN Enqueue(Frame("agent", kind[w], w)) /\ Reach(w, IF kind[w] = "signal" THEN "unsure" ELSE "sent")
     ELSE UNCHANGED inputs /\ Reach(w, "failed")
  /\ UNCHANGED <<session, front, half, events, command, lastInput, typing, kind, tries, accepted, applied, typed, sizeVars>>

(* signal: the worker confirms, or five seconds are over.                   *)
AckIsLate(w) ==
  /\ call[w] = "unsure" /\ AcksAreLate
  /\ Reach(w, "failed")
  /\ UNCHANGED <<session, inputs, front, half, events, command, lastInput, typing, kind, tries, accepted, applied, typed, sizeVars>>

Accepts(w) ==
  /\ call[w] = "sent"
  /\ accepted' = accepted \cup {w} /\ Reach(w, "accepted")
  /\ UNCHANGED <<session, inputs, front, half, events, command, lastInput, typing, kind, tries, applied, typed, sizeVars>>

-----------------------------------------------------------------------------
(* The worker and the shell.                                                *)

Begun(by) == front' = by /\ events' = Append(events, "started")

(* _write_events and the worker: a line at the prompt starts a program, or  *)
(* says nothing to the shell; elsewhere it goes to what is in front.        *)
Applies ==
  /\ session = "running" /\ inputs # <<>>
  /\ inputs' = Tail(inputs)
  /\ LET frame == Head(inputs) IN
     /\ applied' = IF frame.by = "agent" THEN [applied EXCEPT ![frame.of] = @ + 1] ELSE applied
     /\ call' = IF frame.by = "agent" /\ frame.kind = "signal" /\ call[frame.of] = "unsure"
                THEN [call EXCEPT ![frame.of] = "sent"] ELSE call
     /\ size' = IF frame.kind = "size" THEN frame.of ELSE size
     /\ half' = (front = "shell" /\ (frame.kind = "keys" \/ (half /\ frame.kind = "size")))
     /\ IF frame.kind = "line" /\ front = "shell"
        THEN Begun(frame.by) \/ UNCHANGED <<front, events>>
        ELSE IF frame.kind = "signal" /\ front # "shell"
             THEN front' = "shell" /\ events' = Append(events, "returned")
             ELSE UNCHANGED <<front, events>>
  /\ UNCHANGED <<session, command, lastInput, typing, kind, tries, accepted, typed,
                 asked, pending, again, sizes>>

ProgramReturns ==
  /\ session = "running" /\ front # "shell"
  /\ front' = "shell" /\ events' = Append(events, "returned")
  /\ UNCHANGED <<session, inputs, half, command, lastInput, typing, kind, call, tries, accepted, applied, typed, sizeVars>>

(* shell_event: the last input is taken for the one that began the command. *)
StartedBy == lastInput

ShellReports ==
  /\ events # <<>> /\ events' = Tail(events)
  /\ command' = IF Head(events) = "started" THEN StartedBy ELSE "none"
  /\ UNCHANGED <<session, inputs, front, half, lastInput, typing, kind, call, tries, accepted, applied, typed, sizeVars>>

(* finish, and close of the worker: what is queued is thrown away, and who  *)
(* waits for a confirmation is told.                                        *)
SessionEnds ==
  /\ session # "ended" /\ session' = "ended"
  /\ inputs' = <<>> /\ events' = <<>> /\ command' = "none"
  /\ call' = [w \in WriteCalls |-> IF call[w] \in {"waiting", "unsure"} THEN "failed" ELSE call[w]]
  /\ UNCHANGED <<front, half, lastInput, typing, kind, tries, accepted, applied, typed, sizeVars>>

-----------------------------------------------------------------------------
(* Sizes.                                                                   *)

(* resize: remembered while the worker starts.                              *)
PanelChanges ==
  /\ session # "ended" /\ sizes < MaxSizes /\ sizes' = sizes + 1
  /\ ResizesAtStart \/ again = 0
  /\ IF session = "starting" THEN pending' = sizes' /\ asked' = sizes' /\ UNCHANGED inputs
     ELSE IF HasRoom THEN Enqueue(Frame("user", "size", sizes')) /\ asked' = sizes' /\ UNCHANGED pending
     ELSE UNCHANGED <<inputs, asked, pending>>
  /\ UNCHANGED <<session, front, half, events, command, lastInput, typing, kind, call, tries, accepted,
                 applied, typed, again, size>>

TakenUp == pending

(* start: the size is taken up with the new status, and sent without the    *)
(* lock.                                                                    *)
Starts ==
  /\ session = "starting" /\ session' = "running"
  /\ again' = TakenUp /\ pending' = 0
  /\ UNCHANGED <<inputs, front, half, events, command, lastInput, typing, kind, call, tries, accepted,
                 applied, typed, asked, size, sizes>>

SendsAgain ==
  /\ again # 0 /\ session = "running" /\ HasRoom
  /\ Enqueue(Frame("user", "size", again)) /\ again' = 0
  /\ UNCHANGED <<session, front, half, events, command, lastInput, typing, kind, call, tries, accepted,
                 applied, typed, asked, pending, size, sizes>>

InputNext ==
  \/ UserTypes \/ UserPauses \/ Applies \/ ProgramReturns \/ ShellReports \/ SessionEnds
  \/ PanelChanges \/ Starts \/ SendsAgain
  \/ \E w \in WriteCalls : Calls(w) \/ WaitEnds(w) \/ Delivers(w) \/ AckIsLate(w) \/ Accepts(w)

InputSpec == InputInit /\ [][InputNext]_inputVars

-----------------------------------------------------------------------------
(* An input of the Agent never reaches a program that the user started, nor *)
(* the half of a line that the user has typed.                              *)
AgentStaysOut ==
  [][(inputs # <<>> /\ inputs' = Tail(inputs) /\ Head(inputs).by = "agent") =>
       (front # "user" /\ ~half)]_inputVars

(* When all is reported, a command that runs is attributed to who typed it. *)
CommandIsAttributed ==
  (session = "running" /\ events = <<>>) => command = (IF front = "shell" THEN "none" ELSE front)

(* An operation reaches the terminal once, however often the call is made.  *)
AppliedOnce == \A w \in WriteCalls : applied[w] <= 1

(* When nothing is under way, the terminal has the size that was asked last.*)
SizeIsLast ==
  (session = "running" /\ again = 0 /\ \A n \in DOMAIN inputs : inputs[n].kind # "size") => size = asked
=============================================================================
