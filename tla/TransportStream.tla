--------------------------- MODULE TransportStream ---------------------------
(***************************************************************************)
(* How the conversation of one Task reaches a client that is attached to   *)
(* it: the working copy of the snapshot                                    *)
(* (conversation_task_state_service.py), the bounded queue of a subscriber *)
(* (stream/subscriber.py), the text buffered while a model streams         *)
(* (streaming_part_state_machine.py), and the commands that change the     *)
(* conversation. The database, the working copy and the screen of the      *)
(* client each hold a conversation: the length of the streamed text, the   *)
(* inputs that were said and the inputs that are queued.                   *)
(***************************************************************************)
EXTENDS Integers, Sequences

CONSTANTS Inputs,       \* the inputs of the user
          None,
          FrameLimit,   \* Subscriber.mutation_limit
          MaxText,      \* bound: the chunks a model streams
          MaxReruns,    \* bound: how often an input is edited and run again
          MaxAttached,  \* bound: how often the client attaches
          MaxOffers,    \* bound: frames that wait for the loop of the subscriber
          RerunWaits    \* whether a rerun is published before its Run begins

ASSUME StreamAssumption ==
  /\ None \notin Inputs
  /\ FrameLimit \in Nat \ {0}
  /\ {MaxText, MaxReruns, MaxAttached, MaxOffers} \subseteq Nat
  /\ RerunWaits \in BOOLEAN

VARIABLES
  rowsOf,     \* the canonical records: a conversation
  buffered,   \* chunks that are stored and not yet emitted as a delta
  chunks,     \* how many chunks were streamed
  running,    \* whether a Run is running
  taking,     \* the input that is stored as said and not yet projected
  refreshDue, \* whether the queue changed and the projection was not refreshed
  publishDue, \* whether a rerun is committed and not yet published
  reruns,
  copy,       \* the working copy of the snapshot, or None
  subscribed, \* whether a subscriber is registered
  attached,   \* how often the client has attached
  offers,     \* frames on their way to the subscriber's loop (call_soon_threadsafe)
  frames,     \* Subscriber._mutation_queue
  control,    \* Subscriber._control_frame
  screen      \* what the client shows

taskVars   == <<rowsOf, buffered, chunks, running, taking, refreshDue, publishDue, reruns>>
clientVars == <<subscribed, attached, frames, control, screen>>
streamVars == <<taskVars, copy, offers, clientVars>>

Conversation == [text : Nat, said : SUBSET Inputs, queued : SUBSET Inputs]
Empty == [text |-> 0, said |-> {}, queued |-> {}]

(* Frames: three kinds of mutation, and two of control.                     *)
AppendText(n)    == [kind |-> "append", n |-> n]
SetQueued(v)     == [kind |-> "queued", v |-> v]
Consumed(i)      == [kind |-> "consumed", i |-> i]
Status           == [kind |-> "status"]
Full(s)          == [kind |-> "full", state |-> s]
ResyncRequired   == [kind |-> "resync_required"]

ControlFrames == {ResyncRequired} \cup [kind : {"full"}, state : Conversation]

ASSUME NoneIsNothing == None \notin Conversation \cup ControlFrames

(* What a frame does to a conversation, in the working copy and at the      *)
(* client alike.                                                            *)
Apply(s, m) ==
  CASE m.kind = "append"   -> [s EXCEPT !.text = @ + m.n]
    [] m.kind = "queued"   -> [s EXCEPT !.queued = m.v]
    [] m.kind = "consumed" -> [s EXCEPT !.said = @ \cup {m.i}, !.queued = @ \ {m.i}]
    [] m.kind = "full"     -> m.state
    [] OTHER               -> s

StreamInit ==
  /\ rowsOf = Empty
  /\ buffered = 0 /\ chunks = 0 /\ running = FALSE /\ taking = None
  /\ refreshDue = FALSE /\ publishDue = FALSE /\ reruns = 0
  /\ copy = None /\ subscribed = FALSE /\ attached = 0
  /\ offers = <<>> /\ frames = <<>> /\ control = None /\ screen = None

-----------------------------------------------------------------------------
(* The state service; every step of it is taken under its lock.             *)

(* The working copy, rebuilt from the records when there is none.           *)
Working == IF copy = None THEN rowsOf ELSE copy

(* _publish: the frame is sent to the loop of every subscriber.             *)
Publish(m) ==
  /\ Len(offers) < MaxOffers
  /\ offers' = IF subscribed THEN Append(offers, m) ELSE offers

(* apply_planned of an event that is one mutation.                          *)
Project(m) == copy' = Apply(Working, m) /\ Publish(m)

(* Mutant of Unwatched: a Run that still streams does not matter.           *)
UnwatchedAnyway(watched, live) == ~watched

(* _unload_if_unwatched: nobody subscribes and no Run is running.           *)
Unwatched(watched, live) == ~watched /\ ~live

(* The model streams a chunk: it is stored, and waits in the buffer.        *)
Chunk ==
  /\ running /\ taking = None /\ chunks < MaxText
  /\ chunks' = chunks + 1
  /\ rowsOf' = [rowsOf EXCEPT !.text = @ + 1]
  /\ buffered' = buffered + 1
  /\ UNCHANGED <<running, taking, refreshDue, publishDue, reruns, copy, offers, clientVars>>

(* _flush_pending: what is buffered is emitted as one delta.                *)
Flush ==
  /\ running /\ buffered > 0
  /\ Project(AppendText(buffered))
  /\ buffered' = 0
  /\ UNCHANGED <<rowsOf, chunks, running, taking, refreshDue, publishDue, reruns, clientVars>>

(* A Run begins or ends; the part that was open is closed before, and the   *)
(* working copy may be let go after.                                        *)
RunBegins ==
  /\ ~running
  /\ RerunWaits => ~publishDue
  /\ running' = TRUE
  /\ Project(Status)
  /\ UNCHANGED <<rowsOf, buffered, chunks, taking, refreshDue, publishDue, reruns, clientVars>>

RunEnds ==
  /\ running /\ buffered = 0 /\ taking = None
  /\ running' = FALSE
  /\ Publish(Status)
  /\ copy' = IF Unwatched(subscribed, FALSE) THEN None ELSE Working
  /\ UNCHANGED <<rowsOf, buffered, chunks, taking, refreshDue, publishDue, reruns, clientVars>>

(* A command queues an input, and refreshes the projection of the queue.    *)
Queue(i) ==
  /\ i \notin rowsOf.said \cup rowsOf.queued
  /\ rowsOf' = [rowsOf EXCEPT !.queued = @ \cup {i}]
  /\ refreshDue' = TRUE
  /\ UNCHANGED <<buffered, chunks, running, taking, publishDue, reruns, copy, offers, clientVars>>

(* delete_queued: an input is taken back from the queue.                    *)
TakeBack(i) ==
  /\ i \in rowsOf.queued
  /\ rowsOf' = [rowsOf EXCEPT !.queued = @ \ {i}]
  /\ refreshDue' = TRUE
  /\ UNCHANGED <<buffered, chunks, running, taking, publishDue, reruns, copy, offers, clientVars>>

(* refresh_queued_messages: the queue is read under the lock. A copy that   *)
(* does not exist is not built for it.                                      *)
Refresh ==
  /\ refreshDue
  /\ refreshDue' = FALSE
  /\ IF copy # None /\ copy.queued # rowsOf.queued
     THEN Project(SetQueued(rowsOf.queued))
     ELSE UNCHANGED <<copy, offers>>
  /\ UNCHANGED <<rowsOf, buffered, chunks, running, taking, publishDue, reruns, clientVars>>

(* The Run takes an input: it is stored as said and leaves the queue in one *)
(* transaction, and then the event is projected.                            *)
TakeInput(i) ==
  /\ running /\ taking = None /\ buffered = 0
  /\ i \in rowsOf.queued
  /\ rowsOf' = [rowsOf EXCEPT !.queued = @ \ {i}, !.said = @ \cup {i}]
  /\ taking' = i
  /\ UNCHANGED <<buffered, chunks, running, refreshDue, publishDue, reruns, copy, offers, clientVars>>

Taken ==
  /\ taking # None
  /\ Project(Consumed(taking))
  /\ taking' = None
  /\ UNCHANGED <<rowsOf, buffered, chunks, running, refreshDue, publishDue, reruns, clientVars>>

(* rerun: the latest input and what follows leave the conversation and the  *)
(* input is queued again, while the Task is at rest.                        *)
Rerun(i) ==
  /\ ~running /\ reruns < MaxReruns
  /\ i \in rowsOf.said
  /\ rowsOf' = [text |-> 0, said |-> rowsOf.said \ {i}, queued |-> rowsOf.queued \cup {i}]
  /\ publishDue' = TRUE
  /\ reruns' = reruns + 1
  /\ UNCHANGED <<buffered, chunks, running, taking, refreshDue, copy, offers, clientVars>>

(* republish_from_canonical: rebuilt and published under one lock, after    *)
(* the gate of the Task was given back.                                     *)
Republish ==
  /\ publishDue
  /\ publishDue' = FALSE
  /\ copy' = rowsOf
  /\ Publish(Full(rowsOf))
  /\ UNCHANGED <<rowsOf, buffered, chunks, running, taking, refreshDue, reruns, clientVars>>

-----------------------------------------------------------------------------
(* The subscriber and its client.                                           *)

(* subscribe_with_snapshot: the first frame is the whole working copy.      *)
Attach ==
  /\ ~subscribed /\ attached < MaxAttached
  /\ subscribed' = TRUE /\ attached' = attached + 1
  /\ copy' = Working /\ screen' = Working
  /\ offers' = <<>> /\ frames' = <<>> /\ control' = None
  /\ UNCHANGED taskVars

(* unsubscribe: the subscriber is closed; frames on their way find it so.   *)
Detached ==
  /\ subscribed' = FALSE
  /\ screen' = None /\ frames' = <<>> /\ control' = None /\ offers' = <<>>
  /\ copy' = IF copy # None /\ Unwatched(FALSE, running) THEN None ELSE copy
  /\ UNCHANGED <<taskVars, attached>>

Leave == subscribed /\ Detached

Coalesces(m) ==
  frames # <<>> /\ m.kind = "append" /\ frames[Len(frames)].kind = "append"

(* Subscriber.offer: a full frame is a new boundary; behind a demand to     *)
(* resync nothing is kept; neighbouring text is merged; a full queue is     *)
(* thrown away and the client told to attach anew.                          *)
Offered(m) ==
  IF m.kind = "full" THEN frames' = <<>> /\ control' = m
  ELSE IF control = ResyncRequired THEN UNCHANGED <<frames, control>>
  ELSE IF Coalesces(m)
       THEN frames' = [frames EXCEPT ![Len(frames)].n = @ + m.n] /\ UNCHANGED control
  ELSE IF Len(frames) >= FrameLimit THEN frames' = <<>> /\ control' = ResyncRequired
  ELSE frames' = Append(frames, m) /\ UNCHANGED control

Offer ==
  /\ offers # <<>>
  /\ Offered(Head(offers))
  /\ offers' = Tail(offers)
  /\ UNCHANGED <<taskVars, copy, subscribed, attached, screen>>

(* Subscriber.get: control before mutations. The stream ends with a demand  *)
(* to resync.                                                               *)
GetsControl ==
  /\ subscribed /\ control # None
  /\ IF control = ResyncRequired
     THEN Detached
     ELSE /\ screen' = Apply(screen, control)
          /\ control' = None
          /\ UNCHANGED <<taskVars, copy, offers, subscribed, attached, frames>>

GetsMutation ==
  /\ subscribed /\ control = None /\ frames # <<>>
  /\ screen' = Apply(screen, Head(frames))
  /\ frames' = Tail(frames)
  /\ UNCHANGED <<taskVars, copy, offers, subscribed, attached, control>>

StreamNext ==
  \/ Chunk \/ Flush \/ RunBegins \/ RunEnds \/ Taken \/ Refresh \/ Republish
  \/ \E i \in Inputs : Queue(i) \/ TakeBack(i) \/ TakeInput(i) \/ Rerun(i)
  \/ Attach \/ Leave \/ Offer \/ GetsControl \/ GetsMutation

StreamSpec == StreamInit /\ [][StreamNext]_streamVars

-----------------------------------------------------------------------------

StreamTypeOK ==
  /\ rowsOf \in Conversation /\ rowsOf.text <= MaxText
  /\ buffered \in 0..MaxText /\ chunks \in 0..MaxText
  /\ taking \in Inputs \cup {None}
  /\ {copy, screen} \subseteq Conversation \cup {None}
  /\ control \in ControlFrames \cup {None}
  /\ Len(frames) <= FrameLimit
  /\ subscribed => copy # None

Settled == buffered = 0 /\ taking = None /\ ~refreshDue /\ ~publishDue
NothingOnItsWay == offers = <<>> /\ frames = <<>> /\ control = None

(* Once nothing is on its way, an attached client shows the conversation as *)
(* it is stored, whatever was buffered, merged, thrown away, rebuilt or let *)
(* go in between: no text is missing and none is shown twice                *)
(* (refresh_queued_messages: a rebuild during streaming would show text     *)
(* early and append it again).                                              *)
ScreenIsTrue == subscribed /\ Settled /\ NothingOnItsWay => screen = rowsOf
=============================================================================
