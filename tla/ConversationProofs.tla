-------------------------- MODULE ConversationProofs --------------------------
(***************************************************************************)
(* The Runs of a Task as one machine, what a window that follows the       *)
(* conversation shows, and the Agent Team a Run may start.                 *)
(***************************************************************************)
EXTENDS RunLifecycle, TransportStream, TeamRun, TLAPS

VARIABLE doubled  \* history: whether the working copy holds text that is still to be
                  \* emitted (StreamWatch)

-----------------------------------------------------------------------------
(***************************************************************************)
(* What RunLifecycle promises, for any number of Runs.                     *)
(***************************************************************************)

(* Only the latest Run may be running or suspended; every earlier one has  *)
(* given the Task back.                                                    *)
EarlierRunsInactive == \A r \in Runs : r # current => status[r] \notin Active

LifecycleInv == TypeOK /\ EarlierRunsInactive

LEMMA LifecycleNext ==
  ASSUME MaxRun \in Nat, LifecycleInv, [Next]_vars
  PROVE  LifecycleInv'
  <1> USE DEF LifecycleInv, TypeOK, EarlierRunsInactive, Runs, Active, Statuses
  <1>1. CASE Open
    <2>1. /\ current + 1 \in Runs /\ current' = current + 1
          /\ status' = [status EXCEPT ![current + 1] = "running"]
      BY <1>1 DEF Open
    <2>2. \A r \in Runs : r # current + 1 => status[r] \notin Active
      BY <1>1 DEF Open
    <2> QED
      BY <2>1, <2>2
  <1>2. ASSUME NEW t \in Transitions, Transit(t) PROVE LifecycleInv'
    <2>1. RunTransition[t].to \in Statuses
      BY <1>2 DEF RunTransition, Transitions
    <2>2. /\ current \in Runs /\ current' = current
          /\ status' = [status EXCEPT ![current] = RunTransition[t].to]
      BY <1>2 DEF Transit
    <2> QED
      BY <2>1, <2>2
  <1>3. CASE UNCHANGED vars
    BY <1>3 DEF vars
  <1> QED
    BY <1>1, <1>2, <1>3 DEF Next

(* At most one Run of a Task is running or suspended at a time             *)
(* (conversation_run_status.py: ACTIVE_RUN_STATUSES hold the Task), however *)
(* many Runs it opens, resumes and cancels.                                *)
THEOREM LifecycleExclusive ==
  ASSUME MaxRun \in Nat
  PROVE  Spec => [](TypeOK /\ AtMostOneActive)
  <1>1. Init => LifecycleInv
    BY DEF Init, LifecycleInv, TypeOK, EarlierRunsInactive, Runs, Active, Statuses
  <1>2. LifecycleInv /\ [Next]_vars => LifecycleInv'
    BY LifecycleNext
  <1>3. LifecycleInv => TypeOK /\ AtMostOneActive
    BY DEF LifecycleInv, EarlierRunsInactive, AtMostOneActive
  <1> QED
    BY <1>1, <1>2, <1>3, PTL DEF Spec

-----------------------------------------------------------------------------
(***************************************************************************)
(* The stream of a subscriber, for any inputs, any limit of its queue and  *)
(* any bounds: the frames that are still on their way lead from what the   *)
(* window shows to what is canonical.                                      *)
(***************************************************************************)

(***************************************************************************)
(* The stream of a subscriber, for any inputs, any limit of its queue and  *)
(* any bounds.                                                             *)
(***************************************************************************)

Mutations ==
  [kind : {"append"}, n : Nat] \cup [kind : {"queued"}, v : SUBSET Inputs]
    \cup [kind : {"consumed"}, i : Inputs] \cup [kind : {"status"}]

AnyFrames == Mutations \cup [kind : {"full"}, state : Conversation]

(* The frames ms, one after the other, turn the conversation s into t.      *)
Leads(s, ms, t) ==
  \E p \in [0..Len(ms) -> Conversation] :
    /\ p[0] = s /\ p[Len(ms)] = t
    /\ \A i \in 1..Len(ms) : p[i] = Apply(p[i - 1], ms[i])

-----------------------------------------------------------------------------
(* The inductive invariant.                                                 *)

StreamTypes ==
  /\ rowsOf \in Conversation /\ rowsOf.text <= chunks
  /\ chunks \in 0..MaxText /\ buffered \in 0..chunks
  /\ running \in BOOLEAN /\ refreshDue \in BOOLEAN /\ publishDue \in BOOLEAN
  /\ subscribed \in BOOLEAN
  /\ reruns \in Nat /\ attached \in Nat
  /\ taking \in Inputs \cup {None}
  /\ copy \in Conversation \cup {None}
  /\ screen \in Conversation \cup {None}
  /\ offers \in Seq(AnyFrames)
  /\ frames \in Seq(Mutations) /\ Len(frames) <= FrameLimit
  /\ control \in ControlFrames \cup {None}

(* What is buffered, or stored as said and not yet projected, belongs to a  *)
(* Run that is running; and the working copy is not let go while somebody   *)
(* needs it.                                                                *)
WorkHasRun ==
  /\ ~running => buffered = 0 /\ taking = None
  /\ taking # None => buffered = 0 /\ taking \in rowsOf.said
  /\ running \/ subscribed => copy # None
  /\ subscribed => screen # None
  /\ rowsOf.said \cap rowsOf.queued = {}

(* What the working copy still lacks is exactly what is buffered, or due to *)
(* be refreshed; an input that is taken it may have already.                *)
CopyLacksWhatIsDue ==
  copy # None /\ ~publishDue =>
    /\ ~doubled => copy.text + buffered = rowsOf.text
    /\ copy.said \ {taking} = rowsOf.said \ {taking}
    /\ ~refreshDue => copy.queued \ {taking} = rowsOf.queued

(* The screen, the queue of the subscriber and what is on its way to it end *)
(* at the working copy, unless the client is about to be told to resync.    *)
Boundary == IF control = None THEN screen ELSE control.state

WireEndsAtCopy ==
  subscribed =>
    \E mid \in Conversation :
      /\ Leads(mid, offers, copy)
      /\ control # ResyncRequired => Leads(Boundary, frames, mid)

StreamInv == StreamTypes /\ WorkHasRun /\ CopyLacksWhatIsDue /\ WireEndsAtCopy

(* The copy doubles text when it is rebuilt from the records while a Run    *)
(* still has text of them to emit; it is right again once it is rebuilt at  *)
(* another time.                                                            *)
DoublingStep ==
  doubled' = IF Republish /\ buffered > 0 THEN TRUE
             ELSE IF Republish \/ copy' = None THEN FALSE
             ELSE doubled

watchedVars == <<streamVars, doubled>>

StreamWatch == doubled = FALSE /\ [][DoublingStep]_watchedVars

-----------------------------------------------------------------------------
(* Frames and the conversations they lead through.                          *)

LEMMA ApplyType ==
  ASSUME NEW s \in Conversation, NEW m \in AnyFrames
  PROVE  Apply(s, m) \in Conversation
  <1> USE DEF Conversation, AnyFrames, Mutations
  <1>1. CASE m.kind = "append"
    <2>1. Apply(s, m) = [s EXCEPT !.text = @ + m.n] /\ m.n \in Nat
      BY <1>1 DEF Apply
    <2> QED
      BY <2>1
  <1>2. CASE m.kind = "queued"
    <2>1. Apply(s, m) = [s EXCEPT !.queued = m.v] /\ m.v \in SUBSET Inputs
      BY <1>2 DEF Apply
    <2> QED
      BY <2>1
  <1>3. CASE m.kind = "consumed"
    <2>1. Apply(s, m) = [s EXCEPT !.said = @ \cup {m.i}, !.queued = @ \ {m.i}] /\ m.i \in Inputs
      BY <1>3 DEF Apply
    <2>2. s.said \cup {m.i} \in SUBSET Inputs /\ s.queued \ {m.i} \in SUBSET Inputs
      BY <2>1
    <2> QED
      BY <2>1, <2>2
  <1>4. CASE m.kind = "status"
    BY <1>4 DEF Apply
  <1>5. CASE m.kind = "full"
    BY <1>5 DEF Apply
  <1> QED
    BY <1>1, <1>2, <1>3, <1>4, <1>5

(* No frame: the conversation stays.                                        *)
LEMMA LeadsNowhere ==
  /\ \A s \in Conversation : Leads(s, <<>>, s)
  /\ \A s, t : Leads(s, <<>>, t) => s = t
  <1>1. ASSUME NEW s \in Conversation PROVE Leads(s, <<>>, s)
    <2> DEFINE p == [i \in 0..0 |-> s]
    <2>1. p \in [0..Len(<<>>) -> Conversation] /\ p[0] = s
      OBVIOUS
    <2>2. \A i \in 1..Len(<<>>) : p[i] = Apply(p[i - 1], <<>>[i])
      OBVIOUS
    <2> QED
      BY <2>1, <2>2 DEF Leads
  <1>2. ASSUME NEW s, NEW t, Leads(s, <<>>, t) PROVE s = t
    BY <1>2 DEF Leads
  <1> QED
    BY <1>1, <1>2

(* One frame more at the end.                                               *)
LEMMA LeadsAppend ==
  ASSUME NEW ms \in Seq(AnyFrames), NEW s, NEW t, Leads(s, ms, t), NEW m \in AnyFrames
  PROVE  Leads(s, Append(ms, m), Apply(t, m)) /\ Apply(t, m) \in Conversation
  <1>1. PICK p \in [0..Len(ms) -> Conversation] :
          /\ p[0] = s /\ p[Len(ms)] = t
          /\ \A i \in 1..Len(ms) : p[i] = Apply(p[i - 1], ms[i])
    BY DEF Leads
  <1> DEFINE n == Len(ms)
             q == [i \in 0..n + 1 |-> IF i = n + 1 THEN Apply(t, m) ELSE p[i]]
  <1>2. n \in Nat /\ Len(Append(ms, m)) = n + 1
        /\ \A i \in 1..n : Append(ms, m)[i] = ms[i]
        /\ Append(ms, m)[n + 1] = m
    OBVIOUS
  <1>3. t \in Conversation
    BY <1>1, <1>2
  <1>4. Apply(t, m) \in Conversation
    BY <1>3, ApplyType
  <1> HIDE DEF n
  <1>5. q \in [0..n + 1 -> Conversation] /\ q[0] = s /\ q[n + 1] = Apply(t, m)
    BY <1>1, <1>2, <1>4 DEF n
  <1>6. ASSUME NEW i \in 1..n + 1 PROVE q[i] = Apply(q[i - 1], Append(ms, m)[i])
    <2>1. CASE i = n + 1
      BY <2>1, <1>1, <1>2 DEF n
    <2>2. CASE i # n + 1
      BY <2>2, <1>1, <1>2 DEF n
    <2> QED
      BY <2>1, <2>2
  <1> HIDE DEF q
  <1> QED
    BY <1>2, <1>4, <1>5, <1>6 DEF Leads

(* The first frame is applied.                                              *)
LEMMA LeadsTail ==
  ASSUME NEW ms \in Seq(AnyFrames), ms # <<>>, NEW s, NEW t, Leads(s, ms, t)
  PROVE  Leads(Apply(s, Head(ms)), Tail(ms), t) /\ Apply(s, Head(ms)) \in Conversation
  <1>1. PICK p \in [0..Len(ms) -> Conversation] :
          /\ p[0] = s /\ p[Len(ms)] = t
          /\ \A i \in 1..Len(ms) : p[i] = Apply(p[i - 1], ms[i])
    BY DEF Leads
  <1> DEFINE n == Len(ms) - 1
             q == [i \in 0..n |-> p[i + 1]]
  <1>2. n \in Nat /\ Len(Tail(ms)) = n /\ Len(ms) = n + 1 /\ Head(ms) = ms[1]
        /\ \A i \in 1..n : Tail(ms)[i] = ms[i + 1]
    OBVIOUS
  <1> HIDE DEF n
  <1>3. p[1] = Apply(s, Head(ms)) /\ p[1] \in Conversation
    BY <1>1, <1>2
  <1>4. q \in [0..n -> Conversation] /\ q[0] = p[1] /\ q[n] = t
    BY <1>1, <1>2
  <1>5. ASSUME NEW i \in 1..n PROVE q[i] = Apply(q[i - 1], Tail(ms)[i])
    <2>1. i + 1 \in 1..Len(ms) /\ i \in 0..n /\ i - 1 \in 0..n
      BY <1>2
    <2>2. p[i + 1] = Apply(p[i + 1 - 1], ms[i + 1])
      BY <2>1, <1>1
    <2> QED
      BY <2>1, <2>2, <1>2
  <1> HIDE DEF q
  <1> QED
    BY <1>2, <1>3, <1>4, <1>5 DEF Leads

(* Neighbouring texts are one text.                                         *)
LEMMA LeadsMerged ==
  ASSUME NEW ms \in Seq(Mutations), ms # <<>>, NEW s, NEW t, Leads(s, ms, t),
         NEW m \in Mutations, m.kind = "append", ms[Len(ms)].kind = "append"
  PROVE  LET merged == [ms EXCEPT ![Len(ms)].n = @ + m.n]
         IN merged \in Seq(Mutations) /\ Len(merged) = Len(ms) /\ Leads(s, merged, Apply(t, m))
  <1>1. PICK p \in [0..Len(ms) -> Conversation] :
          /\ p[0] = s /\ p[Len(ms)] = t
          /\ \A i \in 1..Len(ms) : p[i] = Apply(p[i - 1], ms[i])
    BY DEF Leads
  <1> DEFINE n == Len(ms)
             last == [ms[n] EXCEPT !.n = @ + m.n]
             merged == [ms EXCEPT ![n].n = @ + m.n]
             q == [i \in 0..n |-> IF i = n THEN Apply(t, m) ELSE p[i]]
  <1>2. n \in Nat \ {0} /\ ms[n] \in Mutations
    OBVIOUS
  <1>3. m.n \in Nat /\ ms[n].n \in Nat /\ ms[n] \in [kind : {"append"}, n : Nat]
    BY <1>2 DEF Mutations
  <1>4. last \in Mutations /\ last.kind = "append" /\ last.n = ms[n].n + m.n
    BY <1>3 DEF Mutations
  <1>5. merged = [ms EXCEPT ![n] = last]
    OBVIOUS
  <1> HIDE DEF last, merged
  <1>6. /\ merged \in Seq(Mutations) /\ Len(merged) = n /\ merged[n] = last
        /\ \A i \in 1..n : i # n => merged[i] = ms[i]
    BY <1>2, <1>4, <1>5
  <1>7. t \in Conversation /\ p[n - 1] \in Conversation /\ t = Apply(p[n - 1], ms[n])
    BY <1>1, <1>2
  <1>8. Apply(t, m) = Apply(p[n - 1], last)
    <2> DEFINE s0 == p[n - 1]
    <2>1. t = [s0 EXCEPT !.text = @ + ms[n].n]
      BY <1>7 DEF Apply
    <2>2. Apply(t, m) = [t EXCEPT !.text = @ + m.n]
      BY DEF Apply
    <2>3. Apply(s0, last) = [s0 EXCEPT !.text = @ + last.n]
      BY <1>4 DEF Apply
    <2>4. s0 \in Conversation /\ s0.text \in Nat
      BY <1>7 DEF Conversation
    <2>5. \A a \in Nat : [s0 EXCEPT !.text = a] \in Conversation
                          /\ [s0 EXCEPT !.text = a].text = a
                          /\ \A b \in Nat : [[s0 EXCEPT !.text = a] EXCEPT !.text = b]
                                            = [s0 EXCEPT !.text = b]
      BY <2>4 DEF Conversation
    <2> HIDE DEF s0
    <2>6. t = [s0 EXCEPT !.text = s0.text + ms[n].n]
      BY <2>1
    <2>7. Apply(t, m) = [t EXCEPT !.text = s0.text + ms[n].n + m.n]
      BY <2>2, <2>4, <2>5, <2>6, <1>3
    <2>8. Apply(t, m) = [s0 EXCEPT !.text = s0.text + ms[n].n + m.n]
      BY <2>4, <2>5, <2>6, <2>7, <1>3
    <2>9. s0.text + ms[n].n + m.n = s0.text + last.n
      BY <2>4, <1>3, <1>4
    <2>10. Apply(t, m) = Apply(s0, last)
      BY <2>3, <2>8, <2>9
    <2> QED
      BY <2>10 DEF s0
  <1>9. Apply(t, m) \in Conversation
    BY <1>7, ApplyType DEF AnyFrames
  <1>10. q \in [0..n -> Conversation] /\ q[0] = s /\ q[n] = Apply(t, m)
    BY <1>1, <1>2, <1>9
  <1>11. ASSUME NEW i \in 1..n PROVE q[i] = Apply(q[i - 1], merged[i])
    <2>1. CASE i = n
      BY <2>1, <1>1, <1>2, <1>6, <1>8
    <2>2. CASE i # n
      BY <2>2, <1>1, <1>2, <1>6
    <2> QED
      BY <2>1, <2>2
  <1> HIDE DEF q
  <1>12. Leads(s, merged, Apply(t, m))
    BY <1>6, <1>10, <1>11 DEF Leads
  <1> QED
    BY <1>6, <1>12 DEF merged

-----------------------------------------------------------------------------

(* The records and the working copy.                                        *)

LEMMA NoneIsApart ==
  /\ None \notin Conversation /\ None \notin Inputs
  /\ None # ResyncRequired /\ \A s \in Conversation : None # Full(s)
  /\ \A s : ResyncRequired # Full(s)
  /\ \A c \in ControlFrames \cup {None} :
       c # None /\ c # ResyncRequired => c.kind = "full" /\ c.state \in Conversation /\ c = Full(c.state)
  BY NoneIsNothing, StreamAssumption DEF ControlFrames, Full, ResyncRequired

LEMMA WorkingType ==
  ASSUME StreamTypes
  PROVE  Working \in Conversation
  BY DEF StreamTypes, Working

LEMMA PublishType ==
  ASSUME StreamTypes, NEW m \in AnyFrames, Publish(m)
  PROVE  offers' \in Seq(AnyFrames)
  BY DEF StreamTypes, Publish

LEMMA ProjectType ==
  ASSUME StreamTypes, NEW m \in AnyFrames, Project(m)
  PROVE  copy' = Apply(Working, m) /\ copy' \in Conversation /\ offers' \in Seq(AnyFrames)
  BY WorkingType, ApplyType, PublishType DEF Project

LEMMA FramesOfRecords ==
  ASSUME StreamTypes
  PROVE  /\ AppendText(buffered) \in AnyFrames /\ Status \in AnyFrames
         /\ SetQueued(rowsOf.queued) \in AnyFrames /\ Full(rowsOf) \in AnyFrames
         /\ taking # None => Consumed(taking) \in AnyFrames
  <1>1. buffered \in Nat /\ rowsOf.queued \in SUBSET Inputs /\ rowsOf \in Conversation
        /\ taking \in Inputs \cup {None}
    BY StreamAssumption DEF StreamTypes, Conversation
  <1> QED
    BY <1>1 DEF AnyFrames, Mutations, AppendText, Status, SetQueued, Full, Consumed

LEMMA BoundsAreNumbers ==
  MaxText \in Nat /\ MaxReruns \in Nat /\ MaxAttached \in Nat /\ MaxOffers \in Nat
    /\ FrameLimit \in Nat \ {0}
  BY StreamAssumption

LEMMA StreamTypesInit ==
  StreamInit => StreamTypes
  <1> USE BoundsAreNumbers
  <1>1. <<>> \in Seq(AnyFrames) /\ <<>> \in Seq(Mutations) /\ Len(<<>>) = 0
    OBVIOUS
  <1>2. Empty \in Conversation /\ Empty.text = 0
    BY DEF Empty, Conversation
  <1> SUFFICES ASSUME StreamInit PROVE StreamTypes
    OBVIOUS
  <1>3. rowsOf \in Conversation /\ rowsOf.text <= chunks /\ chunks \in 0..MaxText /\ buffered \in 0..chunks
    BY <1>2 DEF StreamInit
  <1>4. offers \in Seq(AnyFrames) /\ frames \in Seq(Mutations) /\ Len(frames) <= FrameLimit
    BY <1>1 DEF StreamInit
  <1> QED
    BY <1>3, <1>4 DEF StreamInit, StreamTypes

(* A frame that Subscriber.offer takes in.                                  *)
LEMMA OfferedType ==
  ASSUME StreamTypes, offers # <<>>, Offered(Head(offers))
  PROVE  /\ frames' \in Seq(Mutations) /\ Len(frames') <= FrameLimit
         /\ control' \in ControlFrames \cup {None}
  <1> DEFINE m == Head(offers)
  <1>1. m \in AnyFrames
    BY DEF StreamTypes
  <1> HIDE DEF m
  <1>2. <<>> \in Seq(Mutations) /\ Len(<<>>) <= FrameLimit
    BY StreamAssumption
  <1>3. CASE m.kind = "full"
    <2>1. m \in [kind : {"full"}, state : Conversation]
      BY <1>1, <1>3 DEF AnyFrames, Mutations
    <2> QED
      BY <1>2, <1>3, <2>1 DEF Offered, m, ControlFrames
  <1>4. CASE m.kind # "full"
    <2>1. m \in Mutations
      BY <1>1, <1>4 DEF AnyFrames
    <2>2. CASE control = ResyncRequired
      BY <1>4, <2>2 DEF Offered, m, StreamTypes
    <2>3. CASE control # ResyncRequired /\ Coalesces(m)
      <3>1. frames' = [frames EXCEPT ![Len(frames)].n = @ + m.n] /\ control' = control
        BY <1>4, <2>3 DEF Offered, m
      <3>2. frames # <<>> /\ m.kind = "append" /\ frames[Len(frames)].kind = "append"
        BY <2>3 DEF Coalesces
      <3>3. frames \in Seq(Mutations) /\ Len(frames) \in 1..Len(frames) /\ Len(frames) <= FrameLimit
        BY <3>2 DEF StreamTypes
      <3>4. m.n \in Nat /\ frames[Len(frames)] \in [kind : {"append"}, n : Nat]
        BY <2>1, <3>2, <3>3 DEF Mutations
      <3> DEFINE last == [frames[Len(frames)] EXCEPT !.n = @ + m.n]
      <3>5. last \in Mutations
        BY <3>4 DEF Mutations
      <3>6. frames' = [frames EXCEPT ![Len(frames)] = last]
        BY <3>1
      <3> HIDE DEF last
      <3>7. frames' \in Seq(Mutations) /\ Len(frames') = Len(frames)
        BY <3>3, <3>5, <3>6
      <3> QED
        BY <3>1, <3>3, <3>7 DEF StreamTypes
    <2>4. CASE control # ResyncRequired /\ ~Coalesces(m) /\ Len(frames) >= FrameLimit
      BY <1>2, <1>4, <2>4 DEF Offered, m, ControlFrames
    <2>5. CASE control # ResyncRequired /\ ~Coalesces(m) /\ ~(Len(frames) >= FrameLimit)
      <3>1. frames' = Append(frames, m) /\ control' = control
        BY <1>4, <2>5 DEF Offered, m
      <3>2. frames \in Seq(Mutations) /\ Len(frames) < FrameLimit
        BY <2>5, StreamAssumption DEF StreamTypes
      <3> QED
        BY <2>1, <3>1, <3>2, StreamAssumption DEF StreamTypes
    <2> QED
      BY <2>2, <2>3, <2>4, <2>5
  <1> QED
    BY <1>3, <1>4

LEMMA StreamTypesNext ==
  ASSUME StreamTypes, WorkHasRun, [StreamNext]_streamVars
  PROVE  StreamTypes'
  <1> USE BoundsAreNumbers
  <1>0. StreamTypes
    OBVIOUS
  <1>1. CASE Chunk
    <2>1. rowsOf \in Conversation /\ rowsOf.text \in Nat
      BY DEF StreamTypes, Conversation
    <2>2. rowsOf' \in Conversation /\ rowsOf'.text = rowsOf.text + 1
      BY <1>1, <2>1 DEF Chunk, Conversation
    <2>3. rowsOf'.text <= chunks' /\ chunks' \in 0..MaxText /\ buffered' \in 0..chunks'
      <3>1. /\ chunks \in Nat /\ chunks < MaxText /\ chunks' = chunks + 1
            /\ buffered \in Nat /\ buffered <= chunks /\ buffered' = buffered + 1
            /\ rowsOf.text <= chunks
        BY <1>1 DEF Chunk, StreamTypes
      <3> QED
        BY <2>1, <2>2, <3>1
    <2> QED
      BY <1>1, <2>2, <2>3 DEF Chunk, StreamTypes, clientVars
  <1>2. CASE Flush
    <2>1. copy' \in Conversation /\ offers' \in Seq(AnyFrames)
      BY <1>2, FramesOfRecords, ProjectType DEF Flush
    <2> QED
      BY <1>2, <2>1 DEF Flush, StreamTypes, clientVars
  <1>3. CASE RunBegins
    <2>1. copy' \in Conversation /\ offers' \in Seq(AnyFrames)
      BY <1>3, FramesOfRecords, ProjectType DEF RunBegins
    <2> QED
      BY <1>3, <2>1 DEF RunBegins, StreamTypes, clientVars
  <1>4. CASE RunEnds
    <2>1. copy' \in Conversation \cup {None} /\ offers' \in Seq(AnyFrames)
      BY <1>4, FramesOfRecords, PublishType, WorkingType DEF RunEnds
    <2> QED
      BY <1>4, <2>1 DEF RunEnds, StreamTypes, clientVars
  <1>5. CASE Taken
    <2>1. copy' \in Conversation /\ offers' \in Seq(AnyFrames)
      BY <1>5, FramesOfRecords, ProjectType DEF Taken
    <2> QED
      BY <1>5, <2>1 DEF Taken, StreamTypes, clientVars
  <1>6. CASE Refresh
    <2>1. copy' \in Conversation \cup {None} /\ offers' \in Seq(AnyFrames)
      <3>1. CASE copy # None /\ copy.queued # rowsOf.queued
        BY <1>6, <3>1, FramesOfRecords, ProjectType DEF Refresh
      <3>2. CASE ~(copy # None /\ copy.queued # rowsOf.queued)
        BY <1>6, <3>2 DEF Refresh, StreamTypes
      <3> QED
        BY <3>1, <3>2
    <2> QED
      BY <1>6, <2>1 DEF Refresh, StreamTypes, clientVars
  <1>7. CASE Republish
    <2>1. copy' \in Conversation /\ offers' \in Seq(AnyFrames)
      BY <1>7, FramesOfRecords, PublishType DEF Republish, StreamTypes
    <2> QED
      BY <1>7, <2>1 DEF Republish, StreamTypes, clientVars
  <1>8. ASSUME NEW i \in Inputs, Queue(i) \/ TakeBack(i) PROVE StreamTypes'
    <2>1. PICK q \in SUBSET Inputs : rowsOf' = [rowsOf EXCEPT !.queued = q]
      <3>1. rowsOf.queued \in SUBSET Inputs
        BY DEF StreamTypes, Conversation
      <3>2. /\ rowsOf.queued \cup {i} \in SUBSET Inputs /\ rowsOf.queued \ {i} \in SUBSET Inputs
            /\ \/ rowsOf' = [rowsOf EXCEPT !.queued = rowsOf.queued \cup {i}]
               \/ rowsOf' = [rowsOf EXCEPT !.queued = rowsOf.queued \ {i}]
        BY <1>8, <3>1 DEF Queue, TakeBack
      <3> QED
        BY <3>2
    <2>2. rowsOf' \in Conversation /\ rowsOf'.text = rowsOf.text
      BY <2>1 DEF StreamTypes, Conversation
    <2> QED
      BY <1>8, <2>2 DEF Queue, TakeBack, StreamTypes, clientVars
  <1>9. ASSUME NEW i \in Inputs, TakeInput(i) PROVE StreamTypes'
    <2>1. rowsOf \in Conversation /\ rowsOf.queued \ {i} \in SUBSET Inputs /\ rowsOf.said \cup {i} \in SUBSET Inputs
      BY DEF StreamTypes, Conversation
    <2>2. rowsOf' = [rowsOf EXCEPT !.queued = rowsOf.queued \ {i}, !.said = rowsOf.said \cup {i}]
      BY <1>9 DEF TakeInput
    <2>3. rowsOf' \in Conversation /\ rowsOf'.text = rowsOf.text
      BY <2>1, <2>2 DEF Conversation
    <2> QED
      BY <1>9, <2>3 DEF TakeInput, StreamTypes, clientVars
  <1>10. ASSUME NEW i \in Inputs, Rerun(i) PROVE StreamTypes'
    <2>1. rowsOf' \in Conversation /\ rowsOf'.text = 0
      BY <1>10 DEF Rerun, StreamTypes, Conversation
    <2> QED
      BY <1>10, <2>1 DEF Rerun, StreamTypes, clientVars
  <1>11. CASE Attach
    <2>1. <<>> \in Seq(AnyFrames) /\ <<>> \in Seq(Mutations) /\ Len(<<>>) = 0
      OBVIOUS
    <2> QED
      BY <1>11, <2>1, WorkingType DEF Attach, StreamTypes, taskVars
  <1>12. CASE Detached
    <2>1. <<>> \in Seq(AnyFrames) /\ <<>> \in Seq(Mutations) /\ Len(<<>>) = 0
      OBVIOUS
    <2>2. copy' \in {copy, None}
      BY <1>12 DEF Detached
    <2>3. frames' \in Seq(Mutations) /\ Len(frames') <= FrameLimit /\ offers' \in Seq(AnyFrames)
      BY <1>12, <2>1 DEF Detached
    <2>4. /\ copy' \in Conversation \cup {None} /\ screen' \in Conversation \cup {None}
          /\ control' \in ControlFrames \cup {None} /\ subscribed' \in BOOLEAN
      BY <1>12, <2>2 DEF Detached, StreamTypes
    <2>5. UNCHANGED <<taskVars, attached>>
      BY <1>12 DEF Detached
    <2> QED
      BY <2>3, <2>4, <2>5 DEF StreamTypes, taskVars
  <1>13. CASE Offer
    <2>1. offers' \in Seq(AnyFrames)
      BY <1>13 DEF Offer, StreamTypes
    <2>2. frames' \in Seq(Mutations) /\ Len(frames') <= FrameLimit
          /\ control' \in ControlFrames \cup {None}
      BY <1>13, OfferedType DEF Offer
    <2> QED
      BY <1>13, <2>1, <2>2 DEF Offer, StreamTypes, taskVars
  <1>14. CASE GetsControl /\ ~Detached
    <2>1. control # None /\ control # ResyncRequired /\ screen' = Apply(screen, control) /\ control' = None
          /\ UNCHANGED <<taskVars, copy, offers, subscribed, attached, frames>>
      BY <1>14 DEF GetsControl
    <2>2. screen' \in Conversation
      BY <2>1, NoneIsApart DEF StreamTypes, Apply
    <2> QED
      BY <2>1, <2>2 DEF StreamTypes, taskVars
  <1>15. CASE GetsMutation
    <2>1. screen \in Conversation
      BY <1>15 DEF GetsMutation, WorkHasRun, StreamTypes
    <2>2. frames # <<>> /\ frames \in Seq(Mutations) /\ Len(frames) <= FrameLimit
      BY <1>15 DEF GetsMutation, StreamTypes
    <2>3. Head(frames) \in AnyFrames
      BY <2>2 DEF AnyFrames
    <2>4. screen' \in Conversation
      BY <1>15, <2>1, <2>3, ApplyType DEF GetsMutation
    <2>5. Tail(frames) \in Seq(Mutations) /\ Len(Tail(frames)) <= FrameLimit
      BY <2>2
    <2> QED
      BY <1>15, <2>4, <2>5 DEF GetsMutation, StreamTypes, taskVars
  <1>16. CASE UNCHANGED streamVars
    BY <1>16 DEF streamVars, taskVars, clientVars, StreamTypes
  <1> QED
    BY <1>1, <1>2, <1>3, <1>4, <1>5, <1>6, <1>7, <1>8, <1>9, <1>10, <1>11, <1>12, <1>13, <1>14,
       <1>15, <1>16 DEF StreamNext, Leave

-----------------------------------------------------------------------------
(* The Run, the records and the working copy.                               *)

LEMMA AppliedParts ==
  ASSUME NEW s \in Conversation
  PROVE  /\ Apply(s, Status) = s
         /\ \A n \in Nat : LET t == Apply(s, AppendText(n))
                           IN t.text = s.text + n /\ t.said = s.said /\ t.queued = s.queued
         /\ \A v \in SUBSET Inputs : LET t == Apply(s, SetQueued(v))
                                     IN t.text = s.text /\ t.said = s.said /\ t.queued = v
         /\ \A i \in Inputs : LET t == Apply(s, Consumed(i))
                              IN t.text = s.text /\ t.said = s.said \cup {i} /\ t.queued = s.queued \ {i}
  BY DEF Conversation, Apply, Status, AppendText, SetQueued, Consumed

LEMMA WorkNext ==
  ASSUME StreamTypes, WorkHasRun, [StreamNext]_streamVars
  PROVE  WorkHasRun'
  <1>0. /\ rowsOf \in Conversation
        /\ rowsOf.said \in SUBSET Inputs /\ rowsOf.queued \in SUBSET Inputs
        /\ None \notin Inputs /\ None \notin Conversation /\ Working \in Conversation
    BY NoneIsApart, WorkingType DEF StreamTypes, Conversation
  <1> USE DEF WorkHasRun
  <1>1. CASE Chunk
    BY <1>0, <1>1 DEF Chunk, clientVars, Conversation
  <1>2. CASE Flush \/ Taken
    <2>1. copy' \in Conversation
      BY <1>2, ProjectType, FramesOfRecords DEF Flush, Taken
    <2> QED
      BY <1>0, <1>2, <2>1 DEF Flush, Taken, clientVars
  <1>3. CASE RunBegins
    <2>1. copy' \in Conversation
      BY <1>3, ProjectType, FramesOfRecords DEF RunBegins
    <2> QED
      BY <1>0, <1>3, <2>1 DEF RunBegins, clientVars
  <1>4. CASE RunEnds
    <2>1. subscribed => copy' \in Conversation
      BY <1>0, <1>4 DEF RunEnds, Unwatched
    <2> QED
      BY <1>0, <1>4, <2>1 DEF RunEnds, clientVars
  <1>5. CASE Refresh
    <2>1. copy # None => copy' # None
      BY <1>0, <1>5, ProjectType, FramesOfRecords DEF Refresh
    <2> QED
      BY <1>0, <1>5, <2>1 DEF Refresh, clientVars
  <1>6. CASE Republish
    BY <1>0, <1>6 DEF Republish, clientVars
  <1>7. ASSUME NEW i \in Inputs, Queue(i) \/ TakeBack(i) \/ TakeInput(i) \/ Rerun(i)
        PROVE  WorkHasRun'
    <2>1. CASE Queue(i) \/ TakeBack(i)
      <3>1. rowsOf'.said = rowsOf.said /\ rowsOf'.queued \subseteq rowsOf.queued \cup ({i} \ rowsOf.said)
        BY <1>0, <2>1 DEF Queue, TakeBack, Conversation
      <3> QED
        BY <1>0, <2>1, <3>1 DEF Queue, TakeBack, clientVars
    <2>2. CASE TakeInput(i)
      <3>1. rowsOf'.said = rowsOf.said \cup {i} /\ rowsOf'.queued = rowsOf.queued \ {i}
        BY <1>0, <2>2 DEF TakeInput, Conversation
      <3> QED
        BY <1>0, <2>2, <3>1 DEF TakeInput, clientVars
    <2>3. CASE Rerun(i)
      BY <1>0, <2>3 DEF Rerun, clientVars
    <2> QED
      BY <1>7, <2>1, <2>2, <2>3
  <1>8. CASE Attach
    BY <1>0, <1>8 DEF Attach, taskVars
  <1>9. CASE Detached
    BY <1>9 DEF Detached, Unwatched, taskVars
  <1>10. CASE Offer
    BY <1>10 DEF Offer, taskVars
  <1>11. CASE GetsControl /\ ~Detached
    <2>1. screen' = Apply(screen, control) /\ control # None /\ control # ResyncRequired
          /\ UNCHANGED <<taskVars, copy, subscribed>>
      BY <1>11 DEF GetsControl
    <2>2. screen' \in Conversation
      BY <2>1, NoneIsApart DEF StreamTypes, Apply
    <2> QED
      BY <1>0, <2>1, <2>2 DEF taskVars
  <1>12. CASE GetsMutation
    <2>1. screen \in Conversation /\ frames \in Seq(Mutations) /\ frames # <<>>
          /\ screen' = Apply(screen, Head(frames)) /\ UNCHANGED <<taskVars, copy, subscribed>>
      BY <1>12 DEF GetsMutation, StreamTypes
    <2>2. screen' \in Conversation
      BY <2>1, ApplyType DEF AnyFrames
    <2> QED
      BY <1>0, <2>1, <2>2 DEF taskVars
  <1>13. CASE UNCHANGED streamVars
    BY <1>13 DEF streamVars, taskVars, clientVars
  <1> QED
    BY <1>1, <1>2, <1>3, <1>4, <1>5, <1>6, <1>7, <1>8, <1>9, <1>10, <1>11, <1>12, <1>13
       DEF StreamNext, Leave

LEMMA RecordsNext ==
  ASSUME StreamTypes, WorkHasRun, CopyLacksWhatIsDue,
         [StreamNext]_streamVars, [DoublingStep]_watchedVars
  PROVE  CopyLacksWhatIsDue'
  <1> DEFINE Goal == CopyLacksWhatIsDue'
  <1>d. publishDue' = publishDue /\ copy' # None => doubled' = doubled
    <2> SUFFICES ASSUME publishDue' = publishDue, copy' # None PROVE doubled' = doubled
      OBVIOUS
    <2>1. ~Republish
      BY Zenon DEF Republish
    <2> QED
      BY <2>1 DEF DoublingStep, watchedVars
  <1>0. /\ rowsOf \in Conversation /\ rowsOf.text \in Nat
        /\ rowsOf.said \in SUBSET Inputs /\ rowsOf.queued \in SUBSET Inputs
        /\ buffered \in Nat /\ taking \in Inputs \cup {None} /\ None \notin Inputs
        /\ copy \in Conversation \cup {None} /\ None \notin Conversation
        /\ copy # None => copy.text \in Nat /\ copy.said \in SUBSET Inputs /\ copy.queued \in SUBSET Inputs
        /\ running \in BOOLEAN /\ refreshDue \in BOOLEAN /\ publishDue \in BOOLEAN /\ subscribed \in BOOLEAN
    BY NoneIsApart, StreamAssumption DEF StreamTypes, Conversation
  <1> USE DEF WorkHasRun, CopyLacksWhatIsDue
  <1>1. CASE Chunk
    <2>1. rowsOf'.text = rowsOf.text + 1 /\ rowsOf'.said = rowsOf.said /\ rowsOf'.queued = rowsOf.queued
      BY <1>0, <1>d, <1>1 DEF Chunk, Conversation
    <2> QED
      BY <1>0, <1>d, <1>1, <2>1 DEF Chunk, clientVars
  <1>2. CASE Flush
    <2>1. copy # None /\ copy \in Conversation /\ copy' = Apply(copy, AppendText(buffered)) /\ copy' \in Conversation
      BY <1>0, <1>2, ProjectType, FramesOfRecords DEF Flush, Project, Working
    <2>2. copy'.text = copy.text + buffered /\ copy'.said = copy.said /\ copy'.queued = copy.queued
      BY <1>0, <1>d, <2>1, AppliedParts
    <2> QED
      BY <1>0, <1>d, <1>2, <2>1, <2>2 DEF Flush, clientVars
  <1>3. CASE RunBegins
    <2>1. copy' = Working /\ Working \in Conversation
      BY <1>3, WorkingType, AppliedParts DEF RunBegins, Project
    <2> QED
      BY <1>0, <1>d, <1>3, <2>1 DEF RunBegins, Working, clientVars
  <1>4. CASE RunEnds
    <2>1. copy' \in {copy, None} /\ (subscribed => copy' = copy)
      BY <1>0, <1>d, <1>4 DEF RunEnds, Working, Unwatched
    <2> QED
      BY <1>0, <1>d, <1>4, <2>1 DEF RunEnds, clientVars
  <1>5. CASE Taken
    <2>1. copy # None /\ copy \in Conversation /\ copy' = Apply(copy, Consumed(taking))
          /\ taking \in Inputs /\ copy' \in Conversation
      BY <1>0, <1>5, ProjectType, FramesOfRecords DEF Taken, Project, Working
    <2>2. copy'.text = copy.text /\ copy'.said = copy.said \cup {taking} /\ copy'.queued = copy.queued \ {taking}
      BY <2>1, AppliedParts
    <2> QED
      BY <1>0, <1>d, <1>5, <2>1, <2>2 DEF Taken, clientVars
  <1>6. CASE Refresh
    <2>1. CASE copy # None /\ copy.queued # rowsOf.queued
      <3>1. copy \in Conversation /\ copy' = Apply(copy, SetQueued(rowsOf.queued)) /\ copy' \in Conversation
        BY <1>0, <1>6, <2>1, ProjectType, FramesOfRecords DEF Refresh, Project, Working
      <3>2. copy'.text = copy.text /\ copy'.said = copy.said /\ copy'.queued = rowsOf.queued
        BY <1>0, <1>d, <3>1, AppliedParts
      <3> QED
        BY <1>0, <1>d, <1>6, <2>1, <3>1, <3>2 DEF Refresh, clientVars
    <2>2. CASE ~(copy # None /\ copy.queued # rowsOf.queued)
      BY <1>0, <1>d, <1>6, <2>2 DEF Refresh, clientVars
    <2> QED
      BY <2>1, <2>2
  <1>7. CASE Republish
    <2>1. DoublingStep
      BY <1>7 DEF Republish, watchedVars, streamVars, taskVars
    <2>2. ~doubled' => buffered = 0
      BY <1>0, <1>7, <2>1 DEF DoublingStep
    <2> QED
      BY <1>0, <1>7, <2>2 DEF Republish, clientVars
  <1>8. ASSUME NEW i \in Inputs, Queue(i) PROVE Goal
    <2>1. rowsOf'.text = rowsOf.text /\ rowsOf'.said = rowsOf.said /\ rowsOf'.queued = rowsOf.queued \cup {i}
      BY <1>0, <1>d, <1>8 DEF Queue, Conversation
    <2> QED
      BY <1>0, <1>d, <1>8, <2>1 DEF Queue, clientVars
  <1>9. ASSUME NEW i \in Inputs, TakeBack(i) PROVE Goal
    <2>1. rowsOf'.text = rowsOf.text /\ rowsOf'.said = rowsOf.said /\ rowsOf'.queued = rowsOf.queued \ {i}
      BY <1>0, <1>d, <1>9 DEF TakeBack, Conversation
    <2> QED
      BY <1>0, <1>d, <1>9, <2>1 DEF TakeBack, clientVars
  <1>10. ASSUME NEW i \in Inputs, TakeInput(i) PROVE Goal
    <2>1. rowsOf'.text = rowsOf.text /\ rowsOf'.said = rowsOf.said \cup {i} /\ rowsOf'.queued = rowsOf.queued \ {i}
      BY <1>0, <1>d, <1>10 DEF TakeInput, Conversation
    <2>2. running /\ taking = None /\ taking' = i /\ i \in rowsOf.queued /\ buffered = 0
          /\ UNCHANGED <<buffered, running, refreshDue, publishDue, copy, subscribed, screen>>
      BY <1>10 DEF TakeInput, clientVars
    <2> QED
      BY <1>0, <1>d, <2>1, <2>2
  <1>11. ASSUME NEW i \in Inputs, Rerun(i) PROVE Goal
    BY <1>0, <1>d, <1>11 DEF Rerun, clientVars
  <1>12. CASE Attach
    <2>1. copy' = Working /\ screen' = Working /\ Working \in Conversation /\ subscribed'
      BY <1>12, WorkingType DEF Attach
    <2> QED
      BY <1>0, <1>d, <1>12, <2>1 DEF Attach, Working, taskVars
  <1>13. CASE Detached
    <2>1. copy' \in {copy, None} /\ (running => copy' = copy) /\ subscribed' = FALSE
      BY <1>13 DEF Detached, Unwatched
    <2> QED
      BY <1>0, <1>d, <1>13, <2>1 DEF Detached, taskVars
  <1>14. CASE Offer
    BY <1>0, <1>d, <1>14 DEF Offer, taskVars
  <1>15. CASE GetsControl /\ ~Detached
    <2>1. screen' = Apply(screen, control) /\ control # None /\ control # ResyncRequired
          /\ UNCHANGED <<taskVars, copy, subscribed>>
      BY <1>15 DEF GetsControl
    <2>2. screen' \in Conversation
      BY <2>1, NoneIsApart DEF StreamTypes, Apply
    <2> QED
      BY <1>0, <1>d, <2>1, <2>2 DEF taskVars
  <1>16. CASE GetsMutation
    <2>1. screen \in Conversation /\ frames \in Seq(Mutations) /\ frames # <<>>
          /\ screen' = Apply(screen, Head(frames)) /\ UNCHANGED <<taskVars, copy, subscribed>>
      BY <1>16 DEF GetsMutation, StreamTypes
    <2>2. screen' \in Conversation
      BY <2>1, ApplyType DEF AnyFrames
    <2> QED
      BY <1>0, <1>d, <2>1, <2>2 DEF taskVars
  <1>17. CASE UNCHANGED streamVars
    BY <1>0, <1>d, <1>17 DEF streamVars, taskVars, clientVars
  <1> QED
    BY <1>1, <1>2, <1>3, <1>4, <1>5, <1>6, <1>7, <1>8, <1>9, <1>10, <1>11, <1>12, <1>13, <1>14,
       <1>15, <1>16, <1>17 DEF StreamNext, Leave

-----------------------------------------------------------------------------
(* The wire between the working copy and the screen.                        *)

Wire(mid) ==
  /\ Leads(mid, offers, copy)
  /\ control # ResyncRequired => Leads(Boundary, frames, mid)

(* A frame that is published with the change of the working copy it names.  *)
LEMMA PublishedWire ==
  ASSUME StreamTypes, subscribed, WireEndsAtCopy, NEW m \in AnyFrames,
         Publish(m), copy' = Apply(copy, m), UNCHANGED clientVars
  PROVE  WireEndsAtCopy'
  <1>1. PICK mid \in Conversation : Wire(mid)
    BY DEF WireEndsAtCopy, Wire
  <1>2. offers' = Append(offers, m) /\ offers \in Seq(AnyFrames)
    BY DEF Publish, StreamTypes
  <1>3. Leads(mid, offers', copy')
    BY <1>1, <1>2, LeadsAppend DEF Wire
  <1>4. UNCHANGED <<Boundary, frames, control>>
    BY DEF clientVars, Boundary
  <1> QED
    BY <1>1, <1>3, <1>4 DEF WireEndsAtCopy, Wire

LEMMA OfferedWire ==
  ASSUME StreamTypes, subscribed, WireEndsAtCopy, Offer
  PROVE  WireEndsAtCopy'
  <1> DEFINE m == Head(offers)
  <1>1. PICK mid \in Conversation : Wire(mid)
    BY DEF WireEndsAtCopy, Wire
  <1>2. /\ offers # <<>> /\ offers \in Seq(AnyFrames) /\ m \in AnyFrames /\ offers' = Tail(offers)
        /\ Offered(m) /\ UNCHANGED <<copy, subscribed, screen>>
    BY DEF Offer, StreamTypes, taskVars
  <1>3. Leads(Apply(mid, m), offers', copy') /\ Apply(mid, m) \in Conversation
    BY <1>1, <1>2, LeadsTail DEF Wire
  <1> HIDE DEF m
  <1>4. CASE m.kind = "full"
    <2>1. frames' = <<>> /\ control' = m /\ Apply(mid, m) = m.state
      BY <1>2, <1>4 DEF Offered, Apply
    <2>2. control' # None
      <3>1. m \in ControlFrames
        BY <1>2, <1>4 DEF AnyFrames, Mutations, ControlFrames
      <3> QED
        BY <2>1, <3>1, NoneIsNothing
    <2>3. Boundary' = m.state
      BY <2>1, <2>2 DEF Boundary
    <2>4. Leads(Boundary', frames', m.state)
      BY <1>3, <2>1, <2>3, LeadsNowhere
    <2> QED
      BY <1>3, <2>1, <2>4 DEF WireEndsAtCopy
  <1>5. CASE m.kind # "full" /\ control = ResyncRequired
    BY <1>2, <1>3, <1>5 DEF Offered, WireEndsAtCopy
  <1>6. CASE m.kind # "full" /\ control # ResyncRequired
    <2>1. m \in Mutations
      BY <1>2, <1>6 DEF AnyFrames
    <2>2. Leads(Boundary, frames, mid)
      BY <1>1, <1>6 DEF Wire
    <2>3. CASE Coalesces(m)
      <3>1. /\ frames # <<>> /\ m.kind = "append" /\ frames[Len(frames)].kind = "append"
            /\ frames' = [frames EXCEPT ![Len(frames)].n = @ + m.n] /\ control' = control
        BY <1>2, <1>6, <2>3 DEF Coalesces, Offered
      <3>2. Leads(Boundary, frames', Apply(mid, m))
        BY <2>1, <2>2, <3>1, LeadsMerged DEF StreamTypes
      <3>3. Boundary' = Boundary
        BY <1>2, <3>1 DEF Boundary
      <3> QED
        BY <1>3, <3>1, <3>2, <3>3 DEF WireEndsAtCopy
    <2>4. CASE ~Coalesces(m) /\ Len(frames) >= FrameLimit
      <3>1. control' = ResyncRequired
        BY <1>2, <1>6, <2>4 DEF Offered
      <3> QED
        BY <1>3, <3>1 DEF WireEndsAtCopy
    <2>5. CASE ~Coalesces(m) /\ ~(Len(frames) >= FrameLimit)
      <3>1. frames' = Append(frames, m) /\ control' = control
        BY <1>2, <1>6, <2>5 DEF Offered
      <3>2. frames \in Seq(AnyFrames)
        BY DEF StreamTypes, AnyFrames
      <3>3. Leads(Boundary, frames', Apply(mid, m))
        BY <1>2, <2>2, <3>1, <3>2, LeadsAppend
      <3>4. Boundary' = Boundary
        BY <1>2, <3>1 DEF Boundary
      <3> QED
        BY <1>3, <3>1, <3>3, <3>4 DEF WireEndsAtCopy
    <2> QED
      BY <2>3, <2>4, <2>5
  <1> QED
    BY <1>4, <1>5, <1>6

LEMMA WireNext ==
  ASSUME StreamTypes, WorkHasRun, WireEndsAtCopy, [StreamNext]_streamVars
  PROVE  WireEndsAtCopy'
  <1>0. subscribed => copy # None /\ copy \in Conversation /\ Working = copy
    BY DEF WorkHasRun, StreamTypes, Working
  <1>1. CASE UNCHANGED <<copy, offers, clientVars>>
    BY <1>1 DEF WireEndsAtCopy, Boundary, clientVars
  <1>2. ASSUME NEW m \in AnyFrames, Project(m), UNCHANGED clientVars PROVE WireEndsAtCopy'
    <2>1. CASE subscribed
      BY <1>0, <1>2, <2>1, PublishedWire DEF Project
    <2>2. CASE ~subscribed
      BY <1>2, <2>2 DEF WireEndsAtCopy, clientVars
    <2> QED
      BY <2>1, <2>2
  <1>3. CASE Flush
    BY <1>2, <1>3, FramesOfRecords DEF Flush
  <1>4. CASE RunBegins
    BY <1>2, <1>4, FramesOfRecords DEF RunBegins
  <1>5. CASE Taken
    BY <1>2, <1>5, FramesOfRecords DEF Taken
  <1>6. CASE Refresh
    <2>1. CASE copy # None /\ copy.queued # rowsOf.queued
      BY <1>2, <1>6, <2>1, FramesOfRecords DEF Refresh
    <2>2. CASE ~(copy # None /\ copy.queued # rowsOf.queued)
      BY <1>1, <1>6, <2>2 DEF Refresh
    <2> QED
      BY <2>1, <2>2
  <1>7. CASE RunEnds
    <2>1. CASE subscribed
      <3>1. copy' = Apply(copy, Status) /\ Publish(Status) /\ UNCHANGED clientVars
        BY <1>0, <1>7, <2>1, AppliedParts DEF RunEnds, Unwatched
      <3> QED
        BY <2>1, <3>1, PublishedWire, FramesOfRecords
    <2>2. CASE ~subscribed
      BY <1>7, <2>2 DEF RunEnds, WireEndsAtCopy, clientVars
    <2> QED
      BY <2>1, <2>2
  <1>8. CASE Republish
    <2>1. CASE subscribed
      <3>1. copy' = Apply(copy, Full(rowsOf)) /\ Publish(Full(rowsOf)) /\ UNCHANGED clientVars
        BY <1>8 DEF Republish, Apply, Full
      <3> QED
        BY <2>1, <3>1, PublishedWire, FramesOfRecords
    <2>2. CASE ~subscribed
      BY <1>8, <2>2 DEF Republish, WireEndsAtCopy, clientVars
    <2> QED
      BY <2>1, <2>2
  <1>9. CASE Chunk \/ \E i \in Inputs : Queue(i) \/ TakeBack(i) \/ TakeInput(i) \/ Rerun(i)
    <2>1. UNCHANGED <<copy, offers, clientVars>>
      BY <1>9 DEF Chunk, Queue, TakeBack, TakeInput, Rerun
    <2> QED
      BY <1>1, <2>1
  <1>10. CASE Attach
    <2>1. Working \in Conversation /\ copy' = Working /\ screen' = Working
          /\ offers' = <<>> /\ frames' = <<>> /\ control' = None
      BY <1>10, WorkingType DEF Attach
    <2>2. Leads(Working, offers', copy') /\ Leads(Boundary', frames', Working)
      BY <2>1, LeadsNowhere DEF Boundary
    <2> QED
      BY <2>1, <2>2 DEF WireEndsAtCopy
  <1>11. CASE Detached
    BY <1>11 DEF Detached, WireEndsAtCopy
  <1>12. CASE Offer
    <2>1. CASE subscribed
      BY <1>12, <2>1, OfferedWire
    <2>2. CASE ~subscribed
      BY <1>12, <2>2 DEF Offer, WireEndsAtCopy
    <2> QED
      BY <2>1, <2>2
  <1>13. CASE GetsControl /\ ~Detached
    <2>1. /\ subscribed /\ control # None /\ control # ResyncRequired /\ screen' = Apply(screen, control)
          /\ control' = None /\ UNCHANGED <<copy, offers, subscribed, frames>>
      BY <1>13 DEF GetsControl
    <2>2. control.kind = "full"
      BY <2>1, NoneIsApart DEF StreamTypes
    <2>3. Boundary' = Boundary
      BY <2>1, <2>2 DEF Boundary, Apply
    <2> QED
      BY <2>1, <2>3 DEF WireEndsAtCopy
  <1>14. CASE GetsMutation
    <2>1. /\ subscribed /\ control = None /\ frames # <<>> /\ screen' = Apply(screen, Head(frames))
          /\ frames' = Tail(frames) /\ UNCHANGED <<copy, offers, subscribed, control>>
      BY <1>14 DEF GetsMutation
    <2>2. PICK mid \in Conversation : Wire(mid)
      BY <2>1 DEF WireEndsAtCopy, Wire
    <2>3. Leads(screen, frames, mid) /\ frames \in Seq(AnyFrames)
      BY <2>1, <2>2, NoneIsApart DEF Wire, Boundary, StreamTypes, AnyFrames
    <2>4. Leads(Boundary', frames', mid)
      BY <2>1, <2>3, LeadsTail DEF Boundary
    <2> QED
      BY <2>1, <2>2, <2>4 DEF WireEndsAtCopy, Wire
  <1>15. CASE UNCHANGED streamVars
    BY <1>1, <1>15 DEF streamVars
  <1> QED
    BY <1>3, <1>4, <1>5, <1>6, <1>7, <1>8, <1>9, <1>10, <1>11, <1>12, <1>13, <1>14, <1>15
       DEF StreamNext, Leave

-----------------------------------------------------------------------------
(* The theorems.                                                            *)

LEMMA StreamInvInit ==
  StreamInit /\ doubled = FALSE => StreamInv
  <1> SUFFICES ASSUME StreamInit, doubled = FALSE PROVE StreamInv
    OBVIOUS
  <1>1. StreamTypes
    BY StreamTypesInit
  <1> QED
    BY <1>1 DEF StreamInit, StreamInv, WorkHasRun, CopyLacksWhatIsDue, WireEndsAtCopy, Empty

LEMMA StreamInvNext ==
  ASSUME StreamInv, [StreamNext]_streamVars, [DoublingStep]_watchedVars
  PROVE  StreamInv'
  BY StreamTypesNext, WorkNext, RecordsNext, WireNext DEF StreamInv

(* Every state of the stream is well formed, whenever a rerun is published. *)
THEOREM StreamTypeCorrect == StreamSpec => []StreamTypeOK
  <1> DEFINE Inv == StreamTypes /\ WorkHasRun
  <1>1. StreamInit => Inv
    BY StreamTypesInit DEF StreamInit, WorkHasRun, Empty
  <1>2. Inv /\ [StreamNext]_streamVars => Inv'
    BY StreamTypesNext, WorkNext
  <1>3. Inv => StreamTypeOK
    <2> SUFFICES ASSUME Inv PROVE StreamTypeOK
      OBVIOUS
    <2>1. rowsOf.text \in Nat /\ chunks \in Nat /\ rowsOf.text <= MaxText /\ buffered \in 0..MaxText
      BY BoundsAreNumbers DEF StreamTypes, Conversation
    <2> QED
      BY <2>1 DEF StreamTypes, WorkHasRun, StreamTypeOK
  <1> QED
    BY <1>1, <1>2, <1>3, PTL DEF StreamSpec

(* Once nothing is on its way, an attached client shows the conversation as *)
(* it is stored, for any inputs and any limit of the queue of a subscriber  *)
(* (subscriber.py: offer, get; conversation_task_state_service.py), and     *)
(* whenever a rerun is published: only a rebuild that finds text still      *)
(* buffered by the Run the rerun began makes the client show text twice.    *)
THEOREM ScreenIsTrueAlways == StreamSpec /\ StreamWatch => [](ScreenIsTrue \/ doubled)
  <1>1. StreamInv => ScreenIsTrue \/ doubled
    <2> SUFFICES ASSUME StreamInv, subscribed, Settled, NothingOnItsWay, ~doubled
                 PROVE  screen = rowsOf
      BY DEF ScreenIsTrue
    <2>1. PICK mid \in Conversation : Wire(mid)
      BY DEF StreamInv, WireEndsAtCopy, Wire
    <2>2. screen = mid /\ mid = copy
      BY <2>1, LeadsNowhere, NoneIsApart DEF Wire, Boundary, NothingOnItsWay
    <2>3. /\ copy \in Conversation /\ rowsOf \in Conversation /\ None \notin Inputs
          /\ buffered = 0 /\ taking = None /\ ~refreshDue /\ ~publishDue
      BY <2>1, <2>2, NoneIsApart DEF StreamInv, StreamTypes, Settled
    <2>4. /\ copy.text + 0 = rowsOf.text /\ copy.said \ {None} = rowsOf.said \ {None}
          /\ copy.queued \ {None} = rowsOf.queued
      BY <2>3, NoneIsApart DEF StreamInv, CopyLacksWhatIsDue
    <2>5. copy.text = rowsOf.text /\ copy.said = rowsOf.said /\ copy.queued = rowsOf.queued
      BY <2>3, <2>4 DEF Conversation
    <2>6. copy = rowsOf
      BY <2>3, <2>5 DEF Conversation
    <2> QED
      BY <2>2, <2>6
  <1> QED
    BY <1>1, StreamInvInit, StreamInvNext, PTL DEF StreamSpec, StreamWatch

-----------------------------------------------------------------------------
(***************************************************************************)
(* One Agent Team, for any limit of its visits and of what users write,    *)
(* whether or not its actor fails: how far the plan, the row and the       *)
(* execution have come with each other, and what the execution has yet to  *)
(* see of the node.                                                        *)
(***************************************************************************)

(* The inductive invariant.                                                 *)
NodeStates == {"running", "suspended", "completed", "failed", "cancelled"}
Senders == {"team", "user"}

TeamTypes ==
  /\ TeamTypeOK
  /\ nodeRuns \in Seq(NodeStates)
  /\ nodeMail \subseteq Senders /\ nodePosted \subseteq Senders /\ nodeLate \subseteq Senders
  /\ ready \in BOOLEAN /\ poked \in BOOLEAN /\ cancelSent \in BOOLEAN /\ failed \in BOOLEAN
  /\ driven \in BOOLEAN /\ nodeSignal \in BOOLEAN /\ news \in BOOLEAN /\ closing \in BOOLEAN
  /\ halted \in {"no", "stopping", "stopped"} /\ parentStop \in {"no", "cancels", "tracked", "done"}
  /\ round \in Nat /\ talk \in Nat

(* How far the plan, the row and the execution have come.                   *)
RowFits ==
  /\ approval \in {"none", "waiting", "confirmed"} => execAt = "none"
  /\ approval = "staged" => execAt # "none"
  /\ approval = "none" <=> teamRow = "none"
  /\ approval = "waiting" => teamRow \in {"pending"} \cup Terminal
  /\ approval \in {"confirmed", "staged"} \/ execAt # "none" => teamRow \in {"running"} \cup Terminal
  /\ approval = "done" /\ execAt = "none" => teamRow \in Terminal

(* Nothing that ends the execution leaves the row running.                  *)
EndFits ==
  /\ execAt = "finish" /\ stop = NoStop => teamRow \in Terminal
  /\ execAt \in {"leaves", "result"} /\ nodeRun = 0 => stop # NoStop
  /\ execAt \in {"deliver", "over"} => teamRow \in Terminal /\ archive = teamRow
  /\ execAt = "over" => reported = teamRow

(* A Run the execution has not seen is news, and a visit begins after a Run *)
(* that is completed.                                                       *)
VisitFits ==
  /\ nodeRun \in {0, known}
  /\ execAt \in {"acts", "judges"} /\ ~news => known = Latest
  /\ execAt \in {"none", "ready", "top", "enqueue", "over"} \/ (execAt \in Waiting /\ nodeRun = 0) =>
        known = 0 \/ nodeRuns[known] = "completed"

(* Away from the wait the input of the Team is nowhere, and the Run that    *)
(* took it is at rest or told to stop.                                      *)
AwayFromNode == TeamStages \ (Waiting \cup {"broken"})
NodeFits ==
  /\ halted = "stopped" => ~driven
  /\ execAt \notin Waiting \cup {"leaves"} => "team" \notin Unconfirmed
  /\ execAt \in AwayFromNode /\ served = Latest =>
       (driven => nodeSignal) /\ (halted = "no" => LatestIs # "suspended")

TeamInv == TeamTypes /\ RowFits /\ EndFits /\ VisitFits /\ NodeFits

-----------------------------------------------------------------------------
(* The Runs of the node.                                                    *)

LEMMA RunsFacts ==
  ASSUME NEW s \in NodeStates, NEW q \in Seq(NodeStates)
  PROVE  /\ Len(q) \in Nat /\ (q = <<>> <=> Len(q) = 0)
         /\ Append(q, s) \in Seq(NodeStates) /\ Len(Append(q, s)) = Len(q) + 1
         /\ Append(q, s)[Len(q) + 1] = s /\ \A i \in 1..Len(q) : Append(q, s)[i] = q[i]
         /\ \A i \in 1..Len(q) : q[i] \in NodeStates
         /\ q # <<>> => Len(q) \in 1..Len(q)
         /\ q # <<>> => /\ [q EXCEPT ![Len(q)] = s] \in Seq(NodeStates)
                        /\ Len([q EXCEPT ![Len(q)] = s]) = Len(q)
                        /\ [q EXCEPT ![Len(q)] = s][Len(q)] = s
                        /\ \A i \in 1..Len(q) : i # Len(q) => [q EXCEPT ![Len(q)] = s][i] = q[i]
  OBVIOUS

(* The list of Runs after a step: one changes its status at the end, or one *)
(* is opened, or both.                                                      *)
EndsAs(s) == nodeRuns # <<>> /\ nodeRuns' = [nodeRuns EXCEPT ![Latest] = s]
RunsStep ==
  \/ nodeRuns' = nodeRuns
  \/ nodeRuns' = Append(nodeRuns, "running")
  \/ \E s \in NodeStates : EndsAs(s)
  \/ \E s \in NodeStates : nodeRuns # <<>> /\ nodeRuns' = Append([nodeRuns EXCEPT ![Latest] = s], "running")

LEMMA RunsEffect ==
  ASSUME nodeRuns \in Seq(NodeStates), RunsStep
  PROVE  /\ nodeRuns' \in Seq(NodeStates) /\ Latest \in Nat /\ Latest' \in {Latest, Latest + 1}
         /\ \A i \in 1..Latest : i # Latest => nodeRuns'[i] = nodeRuns[i]
         /\ nodeRuns' = Append(nodeRuns, "running") => \A i \in 1..Latest : nodeRuns'[i] = nodeRuns[i]
         /\ Latest' = Latest + 1 => nodeRuns'[Latest'] = "running"
  <1>0. "running" \in NodeStates
    BY DEF NodeStates
  <1>1. CASE nodeRuns' = nodeRuns
    BY <1>1 DEF Latest
  <1>2. CASE nodeRuns' = Append(nodeRuns, "running")
    BY <1>0, <1>2, RunsFacts DEF Latest
  <1>3. ASSUME NEW s \in NodeStates, EndsAs(s)
        PROVE  /\ nodeRuns' \in Seq(NodeStates) /\ Latest' = Latest /\ Latest \in Nat
               /\ nodeRuns' # Append(nodeRuns, "running")
               /\ \A i \in 1..Latest : i # Latest => nodeRuns'[i] = nodeRuns[i]
    BY <1>0, <1>3, RunsFacts DEF EndsAs, Latest
  <1>4. ASSUME NEW s \in NodeStates, nodeRuns # <<>>, nodeRuns' = Append([nodeRuns EXCEPT ![Latest] = s], "running")
        PROVE  /\ nodeRuns' \in Seq(NodeStates) /\ Latest' = Latest + 1 /\ Latest \in Nat
               /\ nodeRuns'[Latest'] = "running"
               /\ \A i \in 1..Latest : i # Latest => nodeRuns'[i] = nodeRuns[i]
    <2> DEFINE q == [nodeRuns EXCEPT ![Latest] = s]
    <2>1. /\ q \in Seq(NodeStates) /\ Len(q) = Latest /\ Latest \in Nat
          /\ \A i \in 1..Latest : i # Latest => q[i] = nodeRuns[i]
      BY <1>4, RunsFacts DEF Latest
    <2>2. nodeRuns' = Append(q, "running")
      BY <1>4
    <2> HIDE DEF q
    <2> QED
      BY <1>0, <2>1, <2>2, RunsFacts DEF Latest
  <1> QED
    BY <1>1, <1>2, <1>3, <1>4 DEF RunsStep

-----------------------------------------------------------------------------
(* The plan, and whoever stops the Team: the node does not take part.       *)
PlanStep ==
  \/ Proposes \/ \E to \in {"cancelled", "failed"} : Declines(to)
  \/ Approves \/ Staged \/ StageRefused \/ Receipt
  \/ UserStopsTeam \/ Withdrawn \/ ParentStops \/ ParentCancels \/ Closes \/ DeletionDrains

LEMMA Requested ==
  ASSUME NEW reason, NEW withdrawn \in BOOLEAN, ready \in BOOLEAN, RequestStop(reason, withdrawn)
  PROVE  ready' \in BOOLEAN /\ poked' \in BOOLEAN
  <1>1. Listening \in BOOLEAN /\ (ready \/ withdrawn) \in BOOLEAN
    BY DEF Listening
  <1> HIDE DEF Listening
  <1>2. ready' = (ready \/ withdrawn) /\ poked' = Listening
    BY DEF RequestStop
  <1> QED
    BY <1>1, <1>2

LEMMA PlanFlags ==
  ASSUME TeamInv, PlanStep
  PROVE  ready' \in BOOLEAN /\ poked' \in BOOLEAN /\ closing' \in BOOLEAN
  <1>0. ready \in BOOLEAN /\ poked \in BOOLEAN /\ closing \in BOOLEAN
    BY DEF TeamInv, TeamTypes
  <1>1. CASE UNCHANGED <<ready, poked>> \/ (ready' = TRUE /\ UNCHANGED poked)
    BY <1>0, <1>1 DEF PlanStep, Proposes, AwaitsConfirmation, Declines, Approves, Staged, StageRefused, Receipt,
                      UserStopsTeam, Withdrawn, DeletionDrains, Stops, ParentStops, ParentCancels, Closes
  <1>2. ASSUME NEW reason, NEW withdrawn \in BOOLEAN, RequestStop(reason, withdrawn), closing' \in {closing, TRUE}
        PROVE  ready' \in BOOLEAN /\ poked' \in BOOLEAN /\ closing' \in BOOLEAN
    BY <1>0, <1>2, Requested
  <1>3. CASE UserStopsTeam \/ Withdrawn \/ DeletionDrains
    BY <1>2, <1>3 DEF UserStopsTeam, Withdrawn, DeletionDrains, Stops
  <1>4. CASE ParentStops \/ Closes
    BY <1>1, <1>2, <1>4 DEF ParentStops, Closes
  <1>5. CASE Proposes \/ (\E to \in {"cancelled", "failed"} : Declines(to)) \/ Approves \/ Staged \/ StageRefused
             \/ Receipt \/ ParentCancels
    BY <1>1, <1>5 DEF Proposes, Declines, Approves, Staged, StageRefused, Receipt, ParentCancels, execVars
  <1> QED
    BY <1>3, <1>4, <1>5 DEF PlanStep

LEMMA PlanEffect ==
  ASSUME TeamInv, PlanStep
  PROVE  /\ UNCHANGED <<nodeRuns, nodeMail, nodePosted, nodeLate, driven, nodeSignal, halted, news, served,
                        talk, failed, round, nodeRun, known, cancelSent, reported>>
         /\ execAt' = execAt \/ (Staged /\ execAt = "none" /\ execAt' = "ready" /\ UNCHANGED <<teamRow, stop>>)
         /\ stop' = stop \/ (stop = NoStop /\ stop' \in {"cancelled", "parent_cancelled", "runtime_restarted"}
                             /\ InActive /\ execAt' = execAt)
         /\ parentStop' \in {"no", "cancels", "tracked", "done"}
         /\ approval' \in {"none", "waiting", "confirmed", "staged", "done"}
  <1> USE DEF TeamInv, TeamTypes, TeamTypeOK, RowFits, nodeVars, execVars, rowVars
  <1>1. CASE Proposes \/ (\E to \in {"cancelled", "failed"} : Declines(to)) \/ Approves
    BY <1>1 DEF Proposes, AwaitsConfirmation, Declines, Approves
  <1>2. CASE Staged \/ StageRefused \/ Receipt
    BY <1>2 DEF Staged, StageRefused, Receipt
  <1>3. CASE UserStopsTeam \/ Withdrawn \/ DeletionDrains
    BY <1>3 DEF UserStopsTeam, Withdrawn, DeletionDrains, Stops, RequestStop
  <1>4. CASE ParentStops \/ ParentCancels \/ Closes
    BY <1>4 DEF ParentStops, ParentCancels, Closes, RequestStop
  <1> QED
    BY <1>1, <1>2, <1>3, <1>4 DEF PlanStep

(* The row and the archive.                                                 *)
LEMMA PlanRow ==
  ASSUME TeamInv, PlanStep
  PROVE  /\ teamRow' \in {"none"} \cup TeamActive \cup Terminal /\ archive' \in {"none"} \cup Terminal
         /\ RowFits'
         /\ teamRow \in Terminal => teamRow' = teamRow
         /\ teamRow \in Terminal /\ execAt \in {"deliver", "over"} => archive' = archive
  <1> USE DEF TeamInv, TeamTypes, TeamTypeOK, RowFits, MovedRow, Terminal, TeamActive, TeamStages,
              nodeVars, execVars, rowVars, InActive
  <1>1. CASE Proposes
    BY <1>1 DEF Proposes, AwaitsConfirmation
  <1>2. CASE \E to \in {"cancelled", "failed"} : Declines(to)
    BY <1>2 DEF Declines
  <1>3. CASE Approves
    BY <1>3 DEF Approves
  <1>4. CASE Staged \/ Receipt
    BY <1>4 DEF Staged, Receipt
  <1>5. CASE StageRefused
    BY <1>5 DEF StageRefused
  <1>6. CASE UserStopsTeam \/ Withdrawn \/ DeletionDrains
    BY <1>6 DEF UserStopsTeam, Withdrawn, DeletionDrains, Stops
  <1>7. CASE ParentStops \/ Closes
    BY <1>7 DEF ParentStops, Closes
  <1>8. CASE ParentCancels
    BY <1>8 DEF ParentCancels
  <1> QED
    BY <1>1, <1>2, <1>3, <1>4, <1>5, <1>6, <1>7, <1>8 DEF PlanStep

LEMMA PlanKeeps ==
  ASSUME TeamInv, PlanStep
  PROVE  TeamInv'
  <1>1. TeamTypes'
    BY PlanEffect, PlanFlags, PlanRow DEF TeamInv, TeamTypes, TeamTypeOK, TeamStages, Latest, LatestIs
  <1>2. EndFits'
    BY PlanEffect, PlanRow, TeamAssumption DEF TeamInv, EndFits, InActive
  <1>3. VisitFits'
    BY PlanEffect DEF TeamInv, VisitFits, Latest, Waiting
  <1>4. NodeFits'
    BY PlanEffect DEF TeamInv, NodeFits, Latest, LatestIs, Unconfirmed, Waiting, AwayFromNode, TeamStages
  <1> QED
    BY <1>1, <1>2, <1>3, <1>4, PlanRow DEF TeamInv

-----------------------------------------------------------------------------
(* The Task of the node: the execution does not move.                       *)

LEMMA NodeFrame ==
  ASSUME TeamInv, NodeStep, RunsStep, NodeFits',
         nodeMail' \subseteq Senders, nodePosted' \subseteq Senders, nodeLate' \subseteq Senders,
         driven' \in BOOLEAN, nodeSignal' \in BOOLEAN, failed' \in BOOLEAN,
         halted' \in {"no", "stopping", "stopped"}, talk' \in Nat,
         served' \in 0..Latest',
         driven' => LatestIs' = "running",
         (news' = news /\ Latest' = Latest) \/ news' = Listening,
         \A i \in 1..Latest : nodeRuns[i] = "completed" => nodeRuns'[i] = "completed"
  PROVE  TeamInv'
  <1>0. /\ UNCHANGED <<teamRow, archive, approval, execAt, ready, stop, poked, round, nodeRun, known, cancelSent,
                       reported, parentStop, closing>>
        /\ Listening \in BOOLEAN
    BY DEF NodeStep, rowVars, execVars, Listening
  <1>1. nodeRuns' \in Seq(NodeStates) /\ Latest \in Nat /\ Latest' \in {Latest, Latest + 1}
    BY RunsEffect DEF TeamInv, TeamTypes
  <1>2. TeamTypes'
    <2>1. nodeRun' \in 0..Latest' /\ known' \in 0..Latest'
      BY <1>0, <1>1 DEF TeamInv, TeamTypes, TeamTypeOK
    <2>2. news' \in BOOLEAN
      BY <1>0 DEF TeamInv, TeamTypes
    <2>3. TeamTypeOK'
      BY <1>0, <2>1 DEF TeamInv, TeamTypes, TeamTypeOK
    <2> QED
      BY <1>0, <1>1, <2>2, <2>3 DEF TeamInv, TeamTypes
  <1>3. RowFits' /\ EndFits'
    BY <1>0 DEF TeamInv, RowFits, EndFits
  <1>4. VisitFits'
    <2>1. execAt \in {"acts", "judges"} /\ ~news' => known = Latest'
      BY DEF Listening, TeamInv, VisitFits
    <2>2. known = 0 \/ known \in 1..Latest
      BY <1>1 DEF TeamInv, TeamTypes, TeamTypeOK
    <2> QED
      BY <1>0, <2>1, <2>2 DEF TeamInv, VisitFits
  <1> QED
    BY <1>2, <1>3, <1>4 DEF TeamInv

LEMMA NodeStaysKeeps ==
  ASSUME TeamInv, NodeHalting \/ NodeHalts \/ UserTalks \/ NodeAdvanceFails
  PROVE  TeamInv'
  <1>0. TeamTypes /\ NodeFits /\ Latest \in Nat
    BY DEF TeamInv, TeamTypes, Latest
  <1>1. NodeStep /\ UNCHANGED <<nodeRuns, driven, served>>
    BY DEF NodeHalting, NodeHalts, UserTalks, NodeAdvanceFails, NodeStep
  <1>2. RunsStep /\ Latest' = Latest /\ LatestIs' = LatestIs
    BY <1>1 DEF RunsStep, Latest, LatestIs
  <1>3. /\ nodeMail' \subseteq Senders /\ nodePosted' \subseteq Senders /\ nodeLate' \subseteq Senders
        /\ Unconfirmed' \subseteq Unconfirmed \cup {"user"}
    BY <1>0 DEF NodeHalting, NodeHalts, UserTalks, NodeAdvanceFails, TeamTypes, Senders, Unconfirmed
  <1>4. /\ nodeSignal' = nodeSignal \/ (NodeHalting /\ nodeSignal' = (nodeSignal \/ driven))
        /\ failed' \in BOOLEAN /\ talk' \in Nat
        /\ halted' = halted \/ halted' = "stopping" \/ (halted' = "stopped" /\ ~driven)
        /\ halted' = "no" => halted = "no"
        /\ news' = news \/ news' = Listening
    <2>1. CASE NodeHalting
      BY <1>0, <2>1 DEF NodeHalting, TeamTypes
    <2>2. CASE NodeHalts
      BY <1>0, <2>2 DEF NodeHalts, TeamTypes
    <2>3. CASE UserTalks
      <3>1. UNCHANGED <<nodeSignal, halted, news>> /\ failed' = FALSE /\ talk' = talk + 1
        BY <2>3 DEF UserTalks
      <3>2. failed' \in BOOLEAN
        BY <3>1
      <3> QED
        BY <1>0, <3>1, <3>2 DEF TeamTypes
    <2>4. CASE NodeAdvanceFails
      BY <1>0, <2>4 DEF NodeAdvanceFails, TeamTypes
    <2> QED
      BY <2>1, <2>2, <2>3, <2>4
  <1>5. nodeSignal' \in BOOLEAN /\ halted' \in {"no", "stopping", "stopped"} /\ (nodeSignal => nodeSignal')
    BY <1>0, <1>4 DEF TeamTypes
  <1>6. NodeFits'
    BY <1>0, <1>1, <1>2, <1>3, <1>4, <1>5 DEF NodeFits, NodeStep, execVars
  <1> QED
    BY <1>0, <1>1, <1>2, <1>3, <1>4, <1>5, <1>6, NodeFrame DEF TeamTypes, TeamTypeOK

(* A Run is opened, woken, or finds more in its mailbox.                    *)
LEMMA AdvancesKeeps ==
  ASSUME TeamInv, NodeAdvances
  PROVE  TeamInv'
  <1>0. TeamTypes /\ NodeFits /\ nodeRuns \in Seq(NodeStates) /\ Latest = Len(nodeRuns)
    BY DEF TeamInv, TeamTypes, Latest
  <1>1. /\ NodeStep /\ UNCHANGED <<nodeSignal, halted, served, talk, failed>> /\ halted = "no"
        /\ driven' = TRUE /\ news' = Listening
        /\ nodeMail' \subseteq Senders /\ nodePosted' \subseteq Senders /\ nodeLate' \subseteq Senders
        /\ Unconfirmed' \subseteq Unconfirmed
        /\ ~(driven /\ nodeSignal)
    BY <1>0 DEF NodeAdvances, NodeStep, TeamTypes, Senders, Unconfirmed
  <1>2. \/ driven /\ nodeRuns' = nodeRuns
        \/ ~driven /\ LatestIs = "suspended" /\ nodeRuns # <<>> /\ nodeRuns' = [nodeRuns EXCEPT ![Latest] = "running"]
        \/ ~driven /\ LatestIs # "suspended" /\ nodeRuns' = Append(nodeRuns, "running")
    BY DEF NodeAdvances, LatestIs
  <1>3. RunsStep
    BY <1>2 DEF RunsStep, EndsAs, NodeStates
  <1>4. /\ LatestIs' = "running" /\ Latest \in Nat
        /\ Latest' = Latest \/ (~driven /\ Latest' = Latest + 1)
        /\ Latest' = Latest => driven \/ LatestIs = "suspended"
        /\ \A i \in 1..Latest : nodeRuns[i] = "completed" => nodeRuns'[i] = "completed"
    <2>0. "running" \in NodeStates
      BY DEF NodeStates
    <2>1. CASE driven /\ nodeRuns' = nodeRuns
      BY <1>0, <2>1 DEF TeamTypes, TeamTypeOK, LatestIs, Latest
    <2>2. CASE LatestIs = "suspended" /\ nodeRuns # <<>> /\ nodeRuns' = [nodeRuns EXCEPT ![Latest] = "running"]
      BY <1>0, <2>0, <2>2, RunsFacts DEF LatestIs, Latest
    <2>3. CASE ~driven /\ nodeRuns' = Append(nodeRuns, "running")
      <3>1. Latest' = Latest + 1 /\ nodeRuns'[Latest'] = "running" /\ nodeRuns' # <<>> /\ Latest \in Nat
        BY <1>0, <2>0, <2>3, RunsFacts DEF Latest
      <3> QED
        BY <1>0, <2>0, <2>3, <3>1, RunsFacts DEF LatestIs
    <2> QED
      BY <1>2, <2>1, <2>2, <2>3
  <1>5. served' \in 0..Latest' /\ served \in 0..Latest
    BY <1>0, <1>1, <1>4 DEF TeamTypes, TeamTypeOK
  <1>6. NodeFits'
    BY <1>0, <1>1, <1>4, <1>5 DEF NodeFits, NodeStep, execVars
  <1> QED
    BY <1>0, <1>1, <1>3, <1>4, <1>5, <1>6, NodeFrame DEF TeamTypes

LEMMA TakesKeeps ==
  ASSUME TeamInv, NEW m \in Senders, NodeTakes(m)
  PROVE  TeamInv'
  <1>0. TeamTypes /\ NodeFits /\ Latest \in Nat /\ served \in 0..Latest
    BY DEF TeamInv, TeamTypes, TeamTypeOK, Latest
  <1>1. /\ NodeStep /\ UNCHANGED <<nodeRuns, driven, nodeSignal, halted, talk, failed, news>>
        /\ driven /\ ~nodeSignal /\ m \in Unconfirmed /\ nodeMail' \subseteq Senders
        /\ nodePosted' \subseteq Senders /\ nodeLate' \subseteq Senders /\ Unconfirmed' \subseteq Unconfirmed
        /\ served' = IF m = "team" /\ execAt # "leaves" THEN Latest ELSE served
    BY <1>0 DEF NodeTakes, NodeStep, TeamTypes, Senders, Unconfirmed
  <1>2. RunsStep /\ Latest' = Latest /\ LatestIs' = LatestIs
    BY <1>1 DEF RunsStep, Latest, LatestIs
  <1>3. NodeFits'
    BY <1>0, <1>1, <1>2 DEF NodeFits, NodeStep, execVars, AwayFromNode
  <1> QED
    BY <1>0, <1>1, <1>2, <1>3, NodeFrame DEF TeamTypes, TeamTypeOK

(* An execution of the node ends, and another Run may be opened at once.    *)
LEMMA EndsKeeps ==
  ASSUME TeamInv, NEW outcome \in Terminal \cup {"suspended"}, NodeEnds(outcome)
  PROVE  TeamInv'
  <1> DEFINE goesOn == outcome = "completed" /\ nodeLate # {}
             ended == [nodeRuns EXCEPT ![Latest] = outcome]
  <1>0. /\ TeamTypes /\ NodeFits /\ nodeRuns \in Seq(NodeStates) /\ Latest = Len(nodeRuns) /\ served \in 0..Latest
        /\ outcome \in NodeStates /\ "running" \in NodeStates
    BY DEF TeamInv, TeamTypes, TeamTypeOK, Latest, NodeStates, Terminal
  <1>1. /\ NodeStep /\ UNCHANGED <<nodeMail, halted, served, talk, failed>>
        /\ driven /\ LatestIs = "running" /\ nodeRuns # <<>>
        /\ (outcome = "cancelled" <=> nodeSignal) /\ nodeSignal' = FALSE /\ news' = Listening
        /\ nodeRuns' = IF goesOn THEN Append(ended, "running") ELSE ended
        /\ driven' = goesOn
    BY <1>0 DEF NodeEnds, TeamTypes, TeamTypeOK, LatestIs
  <1>2. /\ nodeMail' \subseteq Senders /\ nodePosted' \subseteq Senders /\ nodeLate' \subseteq Senders
        /\ Unconfirmed' \subseteq Unconfirmed
    BY <1>0 DEF NodeEnds, TeamTypes, Senders, Unconfirmed
  <1>3. /\ ended \in Seq(NodeStates) /\ Len(ended) = Latest /\ Latest \in Nat /\ Latest \in 1..Latest
        /\ ended[Latest] = outcome /\ \A i \in 1..Latest : i # Latest => ended[i] = nodeRuns[i]
    BY <1>0, <1>1, RunsFacts
  <1>4. LatestIs = nodeRuns[Latest]
    BY <1>1 DEF LatestIs
  <1>5. RunsStep
    BY <1>0, <1>1 DEF RunsStep, EndsAs
  <1>6. /\ \A i \in 1..Latest : nodeRuns[i] = "completed" => nodeRuns'[i] = "completed"
        /\ goesOn => Latest' = Latest + 1 /\ LatestIs' = "running"
        /\ ~goesOn => Latest' = Latest /\ LatestIs' = outcome
    <2> HIDE DEF goesOn, ended
    <2>1. CASE goesOn
      <3>1. /\ nodeRuns' = Append(ended, "running") /\ Len(nodeRuns') = Latest + 1 /\ nodeRuns'[Latest + 1] = "running"
            /\ \A i \in 1..Latest : nodeRuns'[i] = ended[i]
        BY <1>0, <1>1, <1>3, <2>1, RunsFacts
      <3>2. nodeRuns' # <<>>
        BY <1>3, <3>1
      <3> QED
        BY <1>1, <1>3, <1>4, <2>1, <3>1, <3>2 DEF Latest, LatestIs
    <2>2. CASE ~goesOn
      <3>1. nodeRuns' = ended /\ ended # <<>>
        BY <1>1, <1>3, <2>2
      <3> QED
        BY <1>1, <1>3, <1>4, <2>2, <3>1 DEF Latest, LatestIs
    <2> QED
      BY <2>1, <2>2
  <1>7. driven' \in BOOLEAN /\ nodeSignal' \in BOOLEAN /\ served' \in 0..Latest'
    <2>1. goesOn \in BOOLEAN
      OBVIOUS
    <2> HIDE DEF goesOn, ended
    <2>2. driven' \in BOOLEAN /\ nodeSignal' \in BOOLEAN
      BY <1>1, <2>1
    <2>3. served' \in 0..Latest'
      BY <1>0, <1>1, <1>3, <1>6
    <2> QED
      BY <2>2, <2>3
  <1>8. NodeFits'
    <2> HIDE DEF goesOn, ended
    <2>1. CASE goesOn
      BY <1>0, <1>1, <1>2, <1>3, <1>6, <2>1 DEF NodeFits, NodeStep, execVars
    <2>2. CASE ~goesOn
      BY <1>0, <1>1, <1>2, <1>3, <1>6, <2>2 DEF NodeFits, NodeStep, execVars
    <2> QED
      BY <2>1, <2>2
  <1> HIDE DEF goesOn, ended
  <1> QED
    BY <1>0, <1>1, <1>2, <1>5, <1>6, <1>7, <1>8, NodeFrame DEF TeamTypes

-----------------------------------------------------------------------------
(* The execution.                                                           *)

(* Every step of it keeps the plan and the flags as they are.               *)
LEMMA ExecTypes ==
  ASSUME TeamInv, UNCHANGED <<approval, parentStop, closing, talk>>,
         teamRow' \in {teamRow, "failed", "completed", "cancelled"}, archive' \in {archive, teamRow'},
         teamRow' = "none" => teamRow = "none" /\ archive' = archive,
         archive' = archive \/ archive' \in Terminal,
         execAt' \in TeamStages, reported' \in {"none"} \cup Terminal,
         stop' \in {NoStop, "cancelled", "parent_cancelled", "runtime_restarted"},
         nodeRun' \in 0..Latest', known' \in 0..Latest', served' \in 0..Latest',
         driven' => LatestIs' = "running", nodeRuns' \in Seq(NodeStates),
         nodeMail' \subseteq Senders, nodePosted' \subseteq Senders, nodeLate' \subseteq Senders,
         ready' \in BOOLEAN, poked' \in BOOLEAN, cancelSent' \in BOOLEAN, failed' \in BOOLEAN,
         driven' \in BOOLEAN, nodeSignal' \in BOOLEAN, news' \in BOOLEAN,
         halted' \in {"no", "stopping", "stopped"}, round' \in Nat
  PROVE  TeamTypes'
  <1>1. TeamTypeOK'
    BY DEF TeamInv, TeamTypes, TeamTypeOK, Terminal, TeamActive
  <1> QED
    BY <1>1 DEF TeamInv, TeamTypes

(* A step that leaves the node alone.                                       *)
AloneStep ==
  \/ ExecReady \/ ExecTop \/ ExecJudges \/ ExecWakes \/ ExecFinishes \/ ExecDelivers
  \/ \E outcome \in Terminal \cup TeamActive, next \in {"END", "node", "nowhere"} : ExecResult(outcome, next)

LEMMA AloneEffect ==
  ASSUME TeamInv, AloneStep
  PROVE  /\ UNCHANGED <<approval, parentStop, closing, talk, nodeRuns, nodeMail, nodePosted, nodeLate, driven,
                        nodeSignal, halted, news, served, failed>>
         /\ UNCHANGED <<nodeRun, known, cancelSent, ready, stop, poked>>
              \/ (ExecDelivers /\ nodeRun' = 0 /\ known' = 0 /\ cancelSent' = FALSE /\ ready' = FALSE
                  /\ stop' = NoStop /\ poked' = FALSE)
         /\ execAt' \in TeamStages /\ round' \in Nat
  <1>0. TeamTypes /\ MaxRounds \in Nat
    BY TeamAssumption DEF TeamInv
  <1> USE DEF TeamStages, nodeVars, execVars, rowVars
  <1>1. CASE ExecReady \/ ExecWakes
    BY <1>0, <1>1 DEF ExecReady, ExecWakes, TeamTypes
  <1>2. CASE ExecTop
    BY <1>0, <1>2 DEF ExecTop, TeamTypes
  <1>3. CASE ExecJudges
    <2>1. execAt' \in {"reads", "broken", "leaves", "sleeps"}
      BY <1>3 DEF ExecJudges
    <2> QED
      BY <1>0, <1>3, <2>1 DEF ExecJudges, TeamTypes
  <1>4. CASE ExecFinishes \/ ExecDelivers
    BY <1>0, <1>4 DEF ExecFinishes, ExecDelivers, TeamTypes
  <1>5. ASSUME NEW outcome \in Terminal \cup TeamActive, NEW next \in {"END", "node", "nowhere"}, ExecResult(outcome, next)
        PROVE  /\ UNCHANGED <<approval, parentStop, closing, talk, nodeRuns, nodeMail, nodePosted, nodeLate, driven,
                              nodeSignal, halted, news, served, failed, nodeRun, known, cancelSent, ready, stop, poked,
                              round>>
               /\ execAt' \in {"finish", "top"}
    BY <1>5 DEF ExecResult
  <1> QED
    BY <1>0, <1>1, <1>2, <1>3, <1>4, <1>5 DEF AloneStep, TeamTypes

LEMMA AloneRow ==
  ASSUME TeamInv, AloneStep
  PROVE  /\ teamRow' \in {teamRow, "failed", "completed", "cancelled"}
         /\ archive' = archive \/ (archive' = teamRow' /\ archive' \in Terminal)
         /\ reported' \in {"none"} \cup Terminal
         /\ execAt # "none" /\ execAt' # "none" /\ teamRow \in {"running"} \cup Terminal
         /\ teamRow' \in {"running"} \cup Terminal
         /\ EndFits'
  <1>0. TeamTypes /\ RowFits /\ EndFits
    BY DEF TeamInv
  <1> USE DEF EndFits, RowFits, MovedRow, Terminal, TeamActive
  <1>1. CASE ExecReady \/ ExecWakes
    <2>1. /\ execAt \in {"ready", "sleeps"} /\ execAt' \in {"top", "reads"}
          /\ UNCHANGED <<teamRow, archive, reported, nodeRun, stop, approval>>
      BY <1>1 DEF ExecReady, ExecWakes, rowVars
    <2> QED
      BY <1>0, <2>1 DEF TeamTypes, TeamTypeOK
  <1>2. CASE ExecTop
    <2>1. /\ execAt = "top" /\ execAt' \in {"enqueue", "finish"}
          /\ UNCHANGED <<archive, reported, nodeRun, stop, approval>>
          /\ teamRow' = teamRow \/ (teamRow = "running" /\ teamRow' = "failed")
          /\ execAt' = "finish" => stop # NoStop \/ teamRow # "running" \/ teamRow' = "failed"
      BY <1>0, <1>2, TeamAssumption DEF ExecTop, TeamTypes
    <2> QED
      BY <1>0, <2>1 DEF TeamTypes, TeamTypeOK
  <1>3. CASE ExecJudges
    <2>1. /\ execAt = "judges" /\ execAt' \in {"reads", "broken", "leaves", "sleeps"}
          /\ execAt' = "leaves" => ~(nodeRun = 0 /\ stop = NoStop)
          /\ UNCHANGED <<teamRow, archive, reported, nodeRun, stop, approval>>
      BY <1>3 DEF ExecJudges, rowVars
    <2> QED
      BY <1>0, <2>1 DEF TeamTypes, TeamTypeOK
  <1>4. CASE ExecFinishes
    BY <1>0, <1>4 DEF ExecFinishes, Archived, TeamTypes, TeamTypeOK
  <1>5. CASE ExecDelivers
    BY <1>0, <1>5 DEF ExecDelivers, TeamTypes, TeamTypeOK, rowVars
  <1>6. ASSUME NEW outcome \in Terminal \cup TeamActive, NEW next \in {"END", "node", "nowhere"}, ExecResult(outcome, next)
        PROVE  /\ UNCHANGED <<approval, archive, reported, stop, nodeRun>> /\ execAt = "result"
               /\ \/ execAt' = "finish" /\ stop # NoStop /\ teamRow' = teamRow
                  \/ execAt' = "finish" /\ teamRow' \in {MovedRow("failed", {"running"}), MovedRow("completed", {"running"})}
                  \/ execAt' = "top" /\ teamRow' = teamRow
    BY <1>0, <1>6 DEF ExecResult
  <1>7. CASE \E outcome \in Terminal \cup TeamActive, next \in {"END", "node", "nowhere"} : ExecResult(outcome, next)
    BY <1>0, <1>6, <1>7 DEF TeamTypes, TeamTypeOK
  <1> QED
    BY <1>1, <1>2, <1>3, <1>4, <1>5, <1>7 DEF AloneStep

LEMMA AloneKeeps ==
  ASSUME TeamInv, AloneStep
  PROVE  TeamInv'
  <1>f. UNCHANGED <<nodeRuns, nodeMail, nodePosted, nodeLate>>
    BY AloneEffect
  <1>g. Latest' = Latest /\ LatestIs' = LatestIs /\ Unconfirmed' = Unconfirmed
    BY <1>f DEF Latest, LatestIs, Unconfirmed
  <1>0. TeamTypes /\ RowFits /\ VisitFits /\ NodeFits /\ Latest' = Latest /\ LatestIs' = LatestIs
        /\ Unconfirmed' = Unconfirmed /\ Latest \in Nat
    BY <1>g DEF TeamInv, TeamTypes, Latest
  <1>1. TeamTypes'
    <2>1. /\ nodeRun' \in 0..Latest' /\ known' \in 0..Latest'
          /\ stop' \in {NoStop, "cancelled", "parent_cancelled", "runtime_restarted"}
          /\ ready' \in BOOLEAN /\ poked' \in BOOLEAN /\ cancelSent' \in BOOLEAN
      <3>1. CASE UNCHANGED <<nodeRun, known, cancelSent, ready, stop, poked>>
        BY <1>0, <3>1 DEF TeamTypes, TeamTypeOK
      <3>2. CASE nodeRun' = 0 /\ known' = 0 /\ cancelSent' = FALSE /\ ready' = FALSE /\ stop' = NoStop /\ poked' = FALSE
        <4>1. FALSE \in BOOLEAN
          OBVIOUS
        <4>2. ready' \in BOOLEAN /\ poked' \in BOOLEAN /\ cancelSent' \in BOOLEAN
          BY <3>2, <4>1
        <4> QED
          BY <1>0, <3>2, <4>2
      <3> QED
        BY <3>1, <3>2, AloneEffect
    <2>2. /\ served' \in 0..Latest' /\ (driven' => LatestIs' = "running") /\ nodeRuns' \in Seq(NodeStates)
          /\ nodeMail' \subseteq Senders /\ nodePosted' \subseteq Senders /\ nodeLate' \subseteq Senders
          /\ failed' \in BOOLEAN /\ driven' \in BOOLEAN /\ nodeSignal' \in BOOLEAN /\ news' \in BOOLEAN
          /\ halted' \in {"no", "stopping", "stopped"}
      BY <1>0, AloneEffect DEF TeamTypes, TeamTypeOK
    <2> QED
      BY <2>1, <2>2, AloneEffect, AloneRow, ExecTypes DEF Terminal
  <1>2. RowFits'
    BY <1>0, AloneEffect, AloneRow DEF RowFits
  <1>3. /\ execAt \in {"none", "ready", "top", "enqueue", "over"}
             => execAt' \in {"top", "enqueue", "finish"}
        /\ \/ execAt \in {"ready", "top"} /\ execAt' \in {"top", "enqueue", "finish"}
           \/ execAt = "judges" /\ execAt' \in {"reads", "sleeps"}
           \/ execAt = "judges" /\ execAt' = "leaves" /\ Quiescent
           \/ execAt = "judges" /\ execAt' = "broken" /\ Quiescent /\ ~news /\ nodeRun = 0
           \/ execAt = "sleeps" /\ execAt' = "reads"
           \/ execAt = "result" /\ execAt' = "finish"
           \/ execAt = "result" /\ execAt' = "top" /\ nodeRun # 0 /\ nodeRuns[nodeRun] = "completed"
           \/ execAt = "finish" /\ execAt' = "deliver"
           \/ execAt = "deliver" /\ execAt' = "over" /\ ExecDelivers
    <2>1. CASE ExecReady \/ ExecWakes \/ ExecFinishes \/ ExecDelivers
      BY <2>1 DEF ExecReady, ExecWakes, ExecFinishes, ExecDelivers
    <2>2. CASE ExecTop
      BY <2>2 DEF ExecTop
    <2>3. CASE ExecJudges
      BY <2>3 DEF ExecJudges
    <2>4. ASSUME NEW outcome \in Terminal \cup TeamActive, NEW next \in {"END", "node", "nowhere"}, ExecResult(outcome, next)
          PROVE  \/ execAt = "result" /\ execAt' = "finish"
                 \/ execAt = "result" /\ execAt' = "top" /\ nodeRun # 0 /\ nodeRuns[nodeRun] = "completed"
      BY <2>4 DEF ExecResult
    <2> QED
      BY <2>1, <2>2, <2>3, <2>4 DEF AloneStep
  <1>4. \/ UNCHANGED <<nodeRun, known>>
        \/ ExecDelivers /\ nodeRun' = 0 /\ known' = 0
    BY AloneEffect
  <1>5. VisitFits'
    <2>1. nodeRun' \in {0, known'}
      BY <1>0, <1>4 DEF VisitFits
    <2>2. execAt' \notin {"acts", "judges"}
      BY <1>3
    <2>3. execAt' \in {"none", "ready", "top", "enqueue", "over"} \/ (execAt' \in Waiting /\ nodeRun' = 0)
            => known' = 0 \/ nodeRuns'[known'] = "completed"
      <3>1. CASE ExecDelivers /\ known' = 0
        BY <3>1
      <3>2. CASE UNCHANGED <<nodeRun, known>> /\ execAt' \notin {"none", "over"}
        BY <1>0, <1>3, <3>2, AloneEffect DEF VisitFits, Waiting
      <3>3. execAt' = "over" => ExecDelivers
        BY <1>3
      <3>4. ExecDelivers => execAt' = "over" /\ known' = 0
        BY DEF ExecDelivers
      <3> QED
        BY <1>3, <1>4, <3>1, <3>2, <3>3, <3>4
    <2> QED
      BY <2>1, <2>2, <2>3 DEF VisitFits
  <1>6. NodeFits'
    <2>1. UNCHANGED <<halted, driven, nodeSignal, served>>
      BY AloneEffect
    <2>2. execAt' = "broken" => "team" \notin Unconfirmed
      <3>1. SUFFICES ASSUME Quiescent, ~news, nodeRun = 0, execAt = "judges"
                     PROVE  "team" \notin Unconfirmed
        BY <1>3
      <3>2. known = Latest /\ (known = 0 \/ nodeRuns[known] = "completed")
        BY <1>0, <3>1 DEF VisitFits, Waiting
      <3>3. LatestIs \in {"none", "completed"}
        BY <1>0, <3>2 DEF LatestIs, Latest, TeamTypes
      <3> QED
        BY <3>1, <3>3 DEF Quiescent, Unconfirmed
    <2>3. execAt' \notin Waiting \cup {"leaves"} => "team" \notin Unconfirmed
      BY <1>0, <1>3, <2>2 DEF NodeFits, Waiting
    <2>4. execAt' \in AwayFromNode => execAt \in AwayFromNode \/ Quiescent
      BY <1>3 DEF AwayFromNode, TeamStages, Waiting
    <2>5. Quiescent => ~driven /\ LatestIs # "suspended"
      BY DEF Quiescent, NodeIdle
    <2> QED
      BY <1>0, <2>1, <2>3, <2>4, <2>5 DEF NodeFits
  <1> QED
    BY <1>1, <1>2, <1>5, <1>6, AloneRow DEF TeamInv

(* What TaskActor.cancel does to the Runs.                                  *)
LEMMA CancelFacts ==
  ASSUME TeamInv, nodeRuns' = CancelledIfSuspended
  PROVE  /\ nodeRuns' \in Seq(NodeStates) /\ Latest' = Latest /\ Latest \in Nat /\ LatestIs' # "suspended"
         /\ driven => nodeRuns' = nodeRuns /\ LatestIs' = LatestIs
  <1>0. nodeRuns \in Seq(NodeStates) /\ Latest = Len(nodeRuns) /\ "cancelled" \in NodeStates
        /\ (driven => LatestIs = "running")
    BY DEF TeamInv, TeamTypes, TeamTypeOK, Latest, NodeStates
  <1>1. CASE LatestIs = "suspended"
    <2>1. nodeRuns # <<>> /\ nodeRuns' = [nodeRuns EXCEPT ![Latest] = "cancelled"]
      BY <1>1 DEF CancelledIfSuspended, LatestIs
    <2>2. /\ nodeRuns' \in Seq(NodeStates) /\ Len(nodeRuns') = Latest /\ nodeRuns'[Latest] = "cancelled"
          /\ Latest \in Nat /\ Latest # 0
      BY <1>0, <2>1, RunsFacts
    <2>3. Latest' = Latest /\ nodeRuns' # <<>>
      BY <2>2 DEF Latest
    <2> QED
      BY <1>0, <1>1, <2>2, <2>3 DEF LatestIs
  <1>2. CASE LatestIs # "suspended"
    <2>1. nodeRuns' = nodeRuns
      BY <1>2 DEF CancelledIfSuspended
    <2>2. Latest' = Latest /\ LatestIs' = LatestIs
      BY <2>1 DEF Latest, LatestIs
    <2> QED
      BY <1>0, <1>2, <2>1, <2>2, RunsFacts
  <1> QED
    BY <1>1, <1>2

LEMMA EnqueuesKeeps ==
  ASSUME TeamInv, ExecEnqueues
  PROVE  TeamInv'
  <1>1. /\ UNCHANGED <<approval, parentStop, closing, talk, teamRow, archive, ready, stop, poked, round, known, reported,
                       nodeRuns, nodePosted, nodeLate, driven, nodeSignal, halted, news, served>>
        /\ execAt = "enqueue" /\ nodeRun' = 0 /\ cancelSent' = FALSE
        /\ \/ execAt' = "reads" /\ nodeMail' = nodeMail \cup {"team"} /\ failed' = FALSE
           \/ execAt' = "finish" /\ nodeMail' = nodeMail /\ failed' = failed /\ teamRow # "running"
    BY DEF ExecEnqueues, rowVars
  <1>2. Latest' = Latest /\ LatestIs' = LatestIs /\ Latest \in Nat
    BY <1>1 DEF Latest, LatestIs, TeamInv, TeamTypes
  <1>3. TeamTypes'
    <2>1. cancelSent' \in BOOLEAN /\ failed' \in BOOLEAN /\ nodeMail' \subseteq Senders
      BY <1>1 DEF TeamInv, TeamTypes, Senders
    <2>2. execAt' \in TeamStages
      BY <1>1 DEF TeamStages
    <2> QED
      BY <1>1, <1>2, <2>1, <2>2, ExecTypes DEF TeamInv, TeamTypes, TeamTypeOK
  <1>4. RowFits' /\ EndFits'
    BY <1>1 DEF TeamInv, RowFits, EndFits
  <1>5. VisitFits'
    BY <1>1, <1>2 DEF TeamInv, VisitFits
  <1>6. NodeFits'
    BY <1>1, <1>2 DEF TeamInv, NodeFits, Waiting, AwayFromNode, TeamStages, Unconfirmed
  <1> QED
    BY <1>3, <1>4, <1>5, <1>6 DEF TeamInv

LEMMA ReadsKeeps ==
  ASSUME TeamInv, ExecReads
  PROVE  TeamInv'
  <1>1. /\ UNCHANGED <<approval, parentStop, closing, talk, teamRow, archive, round, reported, nodeRuns, nodeMail,
                       nodePosted, nodeLate, driven, nodeSignal, halted, served, failed>>
        /\ execAt = "reads"
    BY DEF ExecReads, rowVars
  <1>2. Latest' = Latest /\ LatestIs' = LatestIs /\ Latest \in Nat /\ Unconfirmed' = Unconfirmed
    BY <1>1 DEF Latest, LatestIs, Unconfirmed, TeamInv, TeamTypes
  <1>3. CASE halted = "stopped"
    <2>1. /\ nodeRun' = 0 /\ execAt' = "leaves" /\ UNCHANGED <<known, cancelSent, news>>
          /\ stop' = IF stop = NoStop THEN "cancelled" ELSE stop
          /\ RequestStop("cancelled", TRUE)
      BY <1>3 DEF ExecReads, RequestStop
    <2>2. ready' \in BOOLEAN /\ poked' \in BOOLEAN
      BY <2>1, Requested DEF TeamInv, TeamTypes
    <2>3. TeamTypes'
      <3>1. execAt' \in TeamStages
        BY <2>1 DEF TeamStages
      <3> QED
        BY <1>1, <1>2, <2>1, <2>2, <3>1, ExecTypes DEF TeamInv, TeamTypes, TeamTypeOK
    <2>4. stop' # NoStop
      BY <2>1, TeamAssumption
    <2> QED
      BY <1>1, <1>2, <1>3, <2>1, <2>3, <2>4 DEF TeamInv, RowFits, EndFits, VisitFits, NodeFits, Waiting
  <1>4. CASE halted # "stopped"
    <2>1. /\ execAt' = "acts" /\ news' = FALSE /\ poked' = FALSE /\ UNCHANGED <<stop, ready>>
          /\ \/ Latest > known /\ nodeRun' = Latest /\ known' = Latest /\ cancelSent' = FALSE
             \/ ~(Latest > known) /\ UNCHANGED <<nodeRun, known, cancelSent>>
      BY <1>4 DEF ExecReads
    <2>2. known' = Latest /\ nodeRun' \in 0..Latest /\ nodeRun' \in {0, known'}
      BY <1>2, <2>1 DEF TeamInv, TeamTypes, TeamTypeOK, VisitFits
    <2>3. TeamTypes'
      <3>1. execAt' \in TeamStages
        BY <2>1 DEF TeamStages
      <3>2. FALSE \in BOOLEAN
        OBVIOUS
      <3>3. news' \in BOOLEAN /\ poked' \in BOOLEAN /\ cancelSent' \in BOOLEAN
        BY <2>1, <3>2 DEF TeamInv, TeamTypes
      <3>4. known' \in 0..Latest' /\ nodeRun' \in 0..Latest'
        BY <1>2, <2>2
      <3> QED
        BY <1>1, <1>2, <2>1, <3>1, <3>3, <3>4, ExecTypes DEF TeamInv, TeamTypes, TeamTypeOK
    <2>4. VisitFits'
      <3>1. nodeRun' = 0 => known' = 0 \/ nodeRuns'[known'] = "completed"
        BY <1>1, <1>2, <2>1, <2>2 DEF TeamInv, VisitFits, Waiting
      <3> QED
        BY <1>2, <2>1, <2>2, <3>1 DEF VisitFits
    <2> QED
      BY <1>1, <1>2, <2>1, <2>3, <2>4 DEF TeamInv, RowFits, EndFits, NodeFits, Waiting, AwayFromNode
  <1> QED
    BY <1>3, <1>4

LEMMA ActsKeeps ==
  ASSUME TeamInv, ExecActs
  PROVE  TeamInv'
  <1>1. /\ UNCHANGED <<approval, parentStop, closing, talk, teamRow, archive, ready, stop, poked, round, nodeRun, known,
                       reported, nodeMail, nodePosted, nodeLate, news, served, failed>>
        /\ execAt = "acts" /\ Unconfirmed' = Unconfirmed
    BY DEF ExecActs, rowVars, Unconfirmed
  <1>2. \/ /\ execAt' = "leaves" /\ halted' = "stopped" /\ driven' = FALSE /\ nodeSignal' = FALSE
           /\ nodeRuns' = CancelledIfSuspended /\ cancelSent' = cancelSent /\ nodeRun # 0
        \/ /\ execAt' = "judges" /\ halted' = halted /\ driven' = driven
           /\ \/ nodeRuns' = nodeRuns /\ nodeSignal' = nodeSignal /\ cancelSent' = cancelSent
              \/ nodeRuns' = CancelledIfSuspended /\ nodeSignal' = (nodeSignal \/ driven) /\ cancelSent' = TRUE
                 /\ nodeRun # 0
    BY DEF ExecActs, CancelNode
  <1>3. /\ nodeRuns' \in Seq(NodeStates) /\ Latest' = Latest /\ Latest \in Nat
        /\ driven => LatestIs' = LatestIs /\ nodeRuns' = nodeRuns
        /\ nodeRun = 0 => nodeRuns' = nodeRuns
    <2>1. CASE nodeRuns' = nodeRuns
      BY <2>1 DEF Latest, LatestIs, TeamInv, TeamTypes
    <2>2. CASE nodeRuns' = CancelledIfSuspended /\ nodeRun # 0
      BY <2>2, CancelFacts
    <2> QED
      BY <1>2, <2>1, <2>2
  <1>4. TeamTypes'
    <2>1. (nodeSignal \/ driven) \in BOOLEAN /\ TRUE \in BOOLEAN /\ FALSE \in BOOLEAN
      OBVIOUS
    <2>2. driven' \in BOOLEAN /\ nodeSignal' \in BOOLEAN /\ cancelSent' \in BOOLEAN
      BY <1>2, <2>1 DEF TeamInv, TeamTypes
    <2>3. execAt' \in TeamStages /\ halted' \in {"no", "stopping", "stopped"}
      BY <1>2 DEF TeamStages, TeamInv, TeamTypes
    <2>4. driven' => LatestIs' = "running"
      BY <1>2, <1>3 DEF TeamInv, TeamTypes, TeamTypeOK
    <2> QED
      BY <1>1, <1>3, <2>2, <2>3, <2>4, ExecTypes DEF TeamInv, TeamTypes, TeamTypeOK
  <1>5. execAt' \in {"leaves", "judges"} /\ (execAt' = "leaves" => nodeRun # 0 /\ halted' = "stopped" /\ driven' = FALSE)
        /\ (execAt' = "judges" => halted' = halted /\ driven' = driven)
    BY <1>2
  <1>6. RowFits' /\ EndFits'
    BY <1>1, <1>5 DEF TeamInv, RowFits, EndFits
  <1>7. VisitFits'
    BY <1>1, <1>3, <1>5 DEF TeamInv, VisitFits, Waiting
  <1>8. NodeFits'
    BY <1>1, <1>5 DEF TeamInv, NodeFits, Waiting, AwayFromNode
  <1> QED
    BY <1>4, <1>6, <1>7, <1>8 DEF TeamInv

(* The input is withdrawn: on leaving, and when the storage fails.          *)
LEMMA WithdrawsKeeps ==
  ASSUME TeamInv, ExecLeaves \/ ExecBreaks
  PROVE  TeamInv'
  <1>1. /\ UNCHANGED <<approval, parentStop, closing, talk, teamRow, archive, ready, stop, poked, round, nodeRun, known,
                       cancelSent, reported, nodeRuns, driven, nodeSignal, halted, news, served, failed>>
        /\ (execAt = "leaves" /\ execAt' = "result") \/ (execAt \in Waiting /\ execAt' = "broken")
        /\ nodeMail' = nodeMail \ {"team"} /\ nodePosted' = nodePosted \ {"team"} /\ nodeLate' = nodeLate \ {"team"}
    BY DEF ExecLeaves, ExecBreaks, WithdrawInput, rowVars
  <1>2. Latest' = Latest /\ LatestIs' = LatestIs /\ Latest \in Nat /\ "team" \notin Unconfirmed'
    BY <1>1 DEF Latest, LatestIs, Unconfirmed, TeamInv, TeamTypes
  <1>3. TeamTypes'
    <2>1. execAt' \in TeamStages
      BY <1>1 DEF TeamStages
    <2>2. nodeMail' \subseteq Senders /\ nodePosted' \subseteq Senders /\ nodeLate' \subseteq Senders
      BY <1>1 DEF TeamInv, TeamTypes
    <2> QED
      BY <1>1, <1>2, <2>1, <2>2, ExecTypes DEF TeamInv, TeamTypes, TeamTypeOK
  <1>4. RowFits' /\ EndFits'
    BY <1>1 DEF TeamInv, RowFits, EndFits, Waiting
  <1>5. VisitFits'
    BY <1>1, <1>2 DEF TeamInv, VisitFits, Waiting
  <1>6. NodeFits'
    BY <1>1, <1>2 DEF TeamInv, NodeFits, Waiting, AwayFromNode, TeamStages
  <1> QED
    BY <1>3, <1>4, <1>5, <1>6 DEF TeamInv

LEMMA BrokenKeeps ==
  ASSUME TeamInv, ExecBroken
  PROVE  TeamInv'
  <1>1. /\ UNCHANGED <<approval, parentStop, closing, talk, archive, ready, stop, poked, round, nodeRun, known,
                       cancelSent, reported, nodeMail, nodePosted, nodeLate, driven, halted, news, served, failed>>
        /\ execAt = "broken" /\ execAt' = "finish" /\ teamRow' = MovedRow("failed", {"running"})
        /\ nodeSignal' = (nodeSignal \/ driven) /\ nodeRuns' = CancelledIfSuspended
    BY DEF ExecBroken, CancelNode
  <1>2. nodeRuns' \in Seq(NodeStates) /\ Latest' = Latest /\ Latest \in Nat /\ LatestIs' # "suspended"
        /\ (driven => LatestIs' = LatestIs) /\ Unconfirmed' = Unconfirmed
    BY <1>1, CancelFacts DEF Unconfirmed
  <1>3. teamRow' \in Terminal /\ (teamRow' = teamRow \/ teamRow' = "failed")
    BY <1>1 DEF TeamInv, RowFits, MovedRow, Terminal
  <1>4. TeamTypes'
    <2>1. (nodeSignal \/ driven) \in BOOLEAN
      OBVIOUS
    <2>2. nodeSignal' \in BOOLEAN /\ execAt' \in TeamStages
      BY <1>1, <2>1 DEF TeamStages
    <2>3. driven' => LatestIs' = "running"
      BY <1>1, <1>2 DEF TeamInv, TeamTypes, TeamTypeOK
    <2>4. teamRow' # "none"
      BY <1>3 DEF Terminal
    <2> QED
      BY <1>1, <1>2, <1>3, <2>2, <2>3, <2>4, ExecTypes DEF TeamInv, TeamTypes, TeamTypeOK
  <1>5. RowFits' /\ EndFits'
    BY <1>1, <1>3 DEF TeamInv, RowFits, EndFits, Terminal
  <1>6. VisitFits'
    BY <1>1, <1>2 DEF TeamInv, VisitFits, Waiting
  <1>7. NodeFits'
    BY <1>1, <1>2 DEF TeamInv, NodeFits, Waiting, AwayFromNode
  <1> QED
    BY <1>4, <1>5, <1>6, <1>7 DEF TeamInv

-----------------------------------------------------------------------------

LEMMA TeamInvInit ==
  ASSUME TeamInit
  PROVE  TeamInv
  <1>1. nodeRuns = <<>> /\ Latest = 0 /\ LatestIs = "none" /\ nodeRuns \in Seq(NodeStates)
    BY DEF TeamInit, Latest, LatestIs
  <1>2. TeamTypes
    <2>1. /\ nodeMail = {} /\ nodePosted = {} /\ nodeLate = {} /\ round = 0 /\ talk = 0
          /\ halted = "no" /\ parentStop = "no"
          /\ ready \in BOOLEAN /\ poked \in BOOLEAN /\ cancelSent \in BOOLEAN /\ failed \in BOOLEAN
          /\ driven \in BOOLEAN /\ nodeSignal \in BOOLEAN /\ news \in BOOLEAN /\ closing \in BOOLEAN
      <3>1. FALSE \in BOOLEAN
        OBVIOUS
      <3> QED
        BY <3>1 DEF TeamInit
    <2>2. TeamTypeOK
      BY <1>1 DEF TeamInit, TeamTypeOK, TeamActive, Terminal, TeamStages
    <2> QED
      BY <1>1, <2>1, <2>2 DEF TeamTypes
  <1> QED
    BY <1>1, <1>2 DEF TeamInit, TeamInv, RowFits, EndFits, VisitFits, NodeFits, Waiting, AwayFromNode, Unconfirmed

LEMMA TeamInvNext ==
  ASSUME TeamInv, [TeamNext]_teamVars
  PROVE  TeamInv'
  <1>1. CASE PlanStep
    BY <1>1, PlanKeeps
  <1>2. CASE NodeHalting \/ NodeHalts \/ UserTalks \/ NodeAdvanceFails
    BY <1>2, NodeStaysKeeps
  <1>3. CASE NodeAdvances
    BY <1>3, AdvancesKeeps
  <1>4. CASE \E m \in Senders : NodeTakes(m)
    BY <1>4, TakesKeeps
  <1>5. CASE \E outcome \in Terminal \cup {"suspended"} : NodeEnds(outcome)
    BY <1>5, EndsKeeps
  <1>6. CASE AloneStep
    BY <1>6, AloneKeeps
  <1>7. CASE ExecEnqueues \/ ExecReads \/ ExecActs
    BY <1>7, EnqueuesKeeps, ReadsKeeps, ActsKeeps
  <1>8. CASE ExecLeaves \/ ExecBreaks \/ ExecBroken
    BY <1>8, WithdrawsKeeps, BrokenKeeps
  <1>9. CASE UNCHANGED teamVars
    BY <1>9 DEF teamVars, execVars, nodeVars, rowVars, TeamInv, TeamTypes, TeamTypeOK, RowFits, EndFits, VisitFits,
                NodeFits, Latest, LatestIs, Unconfirmed
  <1> QED
    BY <1>1, <1>2, <1>3, <1>4, <1>5, <1>6, <1>7, <1>8, <1>9 DEF TeamNext, ExecSteps, PlanStep, AloneStep, Senders

(* A Team is sound whatever its actors do: whichever of the plan, the       *)
(* execution, the node, the users and the ways to stop moves next, no node  *)
(* goes on for a Team that is over, a running Team has someone who ends it, *)
(* and what its call was told stays what the row and the archive say.       *)
THEOREM TeamIsSoundAlways == TeamSpec => []TeamIsSound
  <1>1. TeamInit => TeamInv
    BY TeamInvInit
  <1>2. TeamInv /\ [TeamNext]_teamVars => TeamInv'
    BY TeamInvNext
  <1>3. TeamInv => TeamIsSound
    <2>1. TeamInv => NodeEndsWithTeam
      BY DEF TeamInv, NodeFits, NodeEndsWithTeam, Waiting, AwayFromNode, TeamStages
    <2>2. TeamInv => RunningTeamIsOwned
      <3>1. "running" \notin Terminal \cup {"none", "pending"}
        BY DEF Terminal
      <3> QED
        BY <3>1 DEF TeamInv, TeamTypes, TeamTypeOK, RowFits, EndFits, RunningTeamIsOwned, InActive
    <2>3. TeamInv => ConclusionIsFinal
      BY DEF TeamInv, EndFits, ConclusionIsFinal
    <2> QED
      BY <2>1, <2>2, <2>3 DEF TeamIsSound
  <1> QED
    BY <1>1, <1>2, <1>3, PTL DEF TeamSpec
=============================================================================
