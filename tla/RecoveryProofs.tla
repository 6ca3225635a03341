---------------------------- MODULE RecoveryProofs ----------------------------
(***************************************************************************)
(* What decisions, stops and restarts leave behind: the sessions and hand- *)
(* offs of a Task, and the records a new backend finds.                    *)
(***************************************************************************)
EXTENDS Handoff, Restart, FiniteSetTheorems, TLAPS

VARIABLES
  \* history of the crashes that hit a start (RecoveryWatch)
  forgotten, \* Tasks that were on the list of a start that died before it told them
  cut        \* whether a start died after it ended a Team and before it cancelled its nodes

-----------------------------------------------------------------------------
(***************************************************************************)
(* The sessions and hand-offs of one Task, for any number of sessions,     *)
(* calls, inputs and stops: no worker outlives the sweep of its sessions,  *)
(* a decision is carried out once, and a lease has the call that gives it  *)
(* back, or is of a call whose handler a stop cut off: such a lease is     *)
(* never given back by it.                                                 *)
(***************************************************************************)

Effect == [kind : {"settle"}, on : HandoffCalls] \cup [kind : {"notice"}, on : Sessions]

Phases == {"rest", "prepare", "model", "opening", "parks", "replay", "settle",
           "hands", "awaits", "fails", "waiting"}

Types ==
  /\ HandoffTypeOK
  /\ effects \in Seq(Effect) /\ (settling # NoCall => effects # <<>>)
  /\ seen \in Nat /\ mailed \in Nat /\ turn \in Nat
  /\ replays \in [HandoffCalls -> Nat] /\ turnOf \in [HandoffCalls -> Nat]
  /\ target \in [HandoffCalls -> Sessions \cup {NoSession}]
  /\ pc \in Phases
  /\ sessionGate \in {"open", "deleting", "shutdown"}
  /\ swept \subseteq Sessions /\ sweeping \in Sessions \cup {NoSession}
  /\ withdrawn \subseteq HandoffCalls /\ stopMarks \subseteq HandoffCalls
  /\ pc \in {"replay", "settle", "hands", "awaits", "fails", "waiting"} => call \in HandoffCalls

-----------------------------------------------------------------------------
(* A session that was never opened has no worker. Who ended it owes the     *)
(* disposal; once that is done there is no worker, and no thread of the     *)
(* start can launch one any more.                                           *)
SessionEndsOnce(s) ==
  /\ status[s] = "unused" => worker[s] = "none" /\ opener[s] = "idle" /\ disposer[s] = "none"
  /\ status[s] \in Active => disposer[s] = "none"
  /\ disposer[s] \in {"retires", "done"} => worker[s] \in {"none", "closed"} /\ ~Locked(s)

(* A session that was opened is listed until it is disposed of; the sweep   *)
(* takes the list, and has each one disposed of before it goes on.          *)
SweepReaches(s) ==
  status[s] # "unused" =>
    \/ disposer[s] = "done"
    \/ sessionGate = "open" /\ place[s] = "registry"
    \/ sessionGate # "open" /\ (s \in swept \/ s = sweeping \/ disposer[s] = "retires")

SessionInv == \A s \in Sessions : SessionEndsOnce(s) /\ SweepReaches(s)

-----------------------------------------------------------------------------
(* A decision in the queue is for a call that waits, and for no other.      *)
QueueIsOfWaiting ==
  /\ \A i \in DOMAIN inbox : callRow[inbox[i]] = "pending"
  /\ \A i, j \in DOMAIN inbox : inbox[i] = inbox[j] => i = j

(* What is said of a call before it has a row: it is the one being made.    *)
RowFollowsCall(c) ==
  /\ turnOf[c] = 0 => callRow[c] = "none" /\ c \notin withdrawn
  /\ callRow[c] = "none" =>
       /\ replays[c] = 0 /\ c \notin withdrawn
       /\ turnOf[c] # 0 => call = c /\ pc \in {"hands", "awaits", "fails", "waiting"}
  /\ callRow[c] = "pending" => replays[c] = 0
  /\ replays[c] <= 1

CallInHand ==
  /\ pc \in {"hands", "awaits", "fails", "waiting"} => callRow[call] = "none" /\ turnOf[call] # 0
  /\ pc = "replay" => callRow[call] = "running" /\ replays[call] = 0 /\ call \notin withdrawn
  /\ pc = "settle" => callRow[call] = "running"

(* A call belongs to the turn of an input, and no turn is numbered 0.       *)
TurnsCount ==
  /\ \A c \in HandoffCalls : turnOf[c] <= turn
  /\ pc # "rest" => said \/ turn >= 1
  /\ pc \in {"model", "opening"} => turn >= 1

CallInv == QueueIsOfWaiting /\ (\A c \in HandoffCalls : RowFollowsCall(c)) /\ CallInHand /\ TurnsCount

(* The decision of the call left the queue, but the handler never ran with  *)
(* it, and will not: the session stays handed off.                          *)
Stranded(c) ==
  /\ lease[c] # NoSession /\ sessionGate = "open"
  /\ callRow[c] \in {"running", "done"} /\ replays[c] = 0
  /\ ~(call = c /\ pc = "replay")

(* The part of LeaseHasCall that is of one call.                            *)
GivesBack(c) ==
  \/ callRow[c] = "pending" /\ c \notin withdrawn
  \/ call = c /\ pc \in {"awaits", "replay"}
  \/ sessionGate # "open"

-----------------------------------------------------------------------------
(* Types.                                                                   *)
LEMMA EffectsGrow ==
  ASSUME NEW q \in Seq(Effect)
  PROVE  /\ q \o <<>> \in Seq(Effect) /\ (q # <<>> => q \o <<>> # <<>>)
         /\ \A e \in Effect : q \o <<e>> \in Seq(Effect) /\ q \o <<e>> # <<>>
  OBVIOUS

LEMMA FinishTypes ==
  ASSUME Types, NEW s \in Sessions, NEW b \in BOOLEAN, Finish(s, b)
  PROVE  /\ status' \in [Sessions -> {"unused", "ended"} \cup Active]
         /\ ending' \in [Sessions -> {"none", "told", "silent"}]
         /\ disposer' \in [Sessions -> {"none", "owes", "retires", "done"}]
         /\ effects' \in Seq(Effect) /\ (effects # <<>> => effects' # <<>>)
<1> USE DEF Types, HandoffTypeOK
<1>1. CASE status[s] \notin Active
  BY <1>1 DEF Finish
<1> SUFFICES ASSUME status[s] \in Active
             PROVE  effects' \in Seq(Effect) /\ (effects # <<>> => effects' # <<>>)
  <2>1. CASE b
    BY <1>1, <2>1 DEF Finish, SessionEnds
  <2>2. CASE ~b
    BY <1>1, <2>2 DEF Finish, SessionEnds
  <2> QED
    BY <2>1, <2>2
<1>2. CASE ~(b /\ sessionGate # "shutdown")
  <2>1. effects' = effects \o <<>>
    BY <1>2 DEF Finish, SessionEnds
  <2> QED
    BY <2>1, EffectsGrow
<1>3. CASE b /\ sessionGate # "shutdown" /\ On(s) # {}
  <2> DEFINE c == CHOOSE c \in On(s) : TRUE
  <2>1. c \in HandoffCalls
    BY <1>3 DEF On
  <2>2. [kind |-> "settle", on |-> c] \in Effect
    BY <2>1 DEF Effect
  <2>3. effects' = effects \o <<[kind |-> "settle", on |-> c]>>
    BY <1>3 DEF Finish, SessionEnds, EndEffects
  <2> QED
    BY <2>2, <2>3, EffectsGrow
<1>4. CASE b /\ sessionGate # "shutdown" /\ On(s) = {}
  <2>1. [kind |-> "notice", on |-> s] \in Effect
    BY DEF Effect
  <2>2. \/ effects' = effects \o <<[kind |-> "notice", on |-> s]>>
        \/ effects' = effects \o <<>>
    BY <1>4 DEF Finish, SessionEnds, EndEffects
  <2> QED
    BY <2>1, <2>2, EffectsGrow
<1> QED
  BY <1>2, <1>3, <1>4

LEMMA TypesInit == HandoffInit => Types
  BY DEF HandoffInit, Types, HandoffTypeOK, HandoffAssumption, Phases, Active

(* What a step of a session may change: the session, its effects, a lease.  *)
LEMMA SessionTypes ==
  ASSUME Types, NEW s \in Sessions,
         \/ SessionSteps(s) \/ WorkerExits(s) \/ AgentOpens(s) \/ UserOpens(s)
         \/ UserCloses(s) \/ AgentCloses(s)
  PROVE  Types'
<1> USE DEF Types, HandoffTypeOK, Active, Free, sweepVars, queueVars, workflowVars, callVars
<1>1. ASSUME NEW b \in BOOLEAN, Finish(s, b)
      PROVE  /\ status' \in [Sessions -> {"unused", "ended"} \cup Active]
             /\ ending' \in [Sessions -> {"none", "told", "silent"}]
             /\ disposer' \in [Sessions -> {"none", "owes", "retires", "done"}]
             /\ effects' \in Seq(Effect) /\ (effects # <<>> => effects' # <<>>)
  BY <1>1, FinishTypes
<1>2. CASE UserOpens(s)
  BY <1>2 DEF UserOpens, Opens
<1>3. CASE AgentOpens(s)
  BY <1>3 DEF AgentOpens, Opens, Phases
<1>4. CASE StartLocks(s)
  BY <1>4 DEF StartLocks
<1>5. CASE Launches(s)
  BY <1>5 DEF Launches
<1>6. CASE HandshakeArrives(s)
  BY <1>6 DEF HandshakeArrives
<1>7. CASE Starts(s)
  BY <1>7 DEF Starts
<1>8. CASE HandshakeFails(s)
  BY <1>8 DEF HandshakeFails
<1>9. CASE StartChecks(s)
  BY <1>9 DEF StartChecks
<1>10. CASE Disposes(s)
  BY <1>10 DEF Disposes, Disposable
<1>11. CASE Retires(s)
  BY <1>11 DEF Retires
<1>12. CASE StartFails(s)
  BY <1>12, <1>1 DEF StartFails
<1>13. CASE WorkerExits(s)
  BY <1>13, <1>1 DEF WorkerExits
<1>14. CASE UserCloses(s)
  BY <1>14, <1>1 DEF UserCloses
<1>15. CASE AgentCloses(s)
  BY <1>15, <1>1 DEF AgentCloses
<1>16. CASE SweepEnds(s)
  BY <1>16, <1>1 DEF SweepEnds
<1> QED
  BY <1>2, <1>3, <1>4, <1>5, <1>6, <1>7, <1>8, <1>9, <1>10, <1>11, <1>12, <1>13, <1>14, <1>15, <1>16 DEF SessionSteps

LEMMA HeadsAndTails ==
  /\ \A q \in Seq(Effect) : q # <<>> => Head(q) \in Effect /\ Tail(q) \in Seq(Effect)
  /\ \A q \in Seq(HandoffCalls) :
       /\ q # <<>> => Head(q) \in HandoffCalls /\ Tail(q) \in Seq(HandoffCalls)
                      /\ Len(Tail(q)) = Len(q) - 1
       /\ \A c \in HandoffCalls : Append(q, c) \in Seq(HandoffCalls) /\ Len(Append(q, c)) = Len(q) + 1
       /\ Len(q) \in Nat
  OBVIOUS

LEMMA TypesNext ==
  ASSUME Types, [HandoffNext]_handoffVars
  PROVE  Types'
<1> USE DEF Types, HandoffTypeOK, sessionVars, sweepVars, queueVars, workflowVars, callVars
<1>1. CASE UNCHANGED handoffVars
  BY <1>1 DEF handoffVars
<1>2. ASSUME NEW s \in Sessions,
             \/ SessionSteps(s) \/ WorkerExits(s) \/ AgentOpens(s) \/ UserOpens(s)
             \/ UserCloses(s) \/ AgentCloses(s)
      PROVE  Types'
  BY <1>2, SessionTypes
<1>3. ASSUME NEW c \in HandoffCalls, NEW s \in Sessions, CallsHandoff(c, s)
      PROVE  Types'
  BY <1>3 DEF CallsHandoff, CallsTool, Phases
<1>4. ASSUME NEW c \in HandoffCalls, NEW s \in Sessions, CallsRead(c, s)
      PROVE  Types'
  BY <1>4 DEF CallsRead, CallsTool, Phases
<1>5. ASSUME NEW c \in HandoffCalls, UserDecides(c)
      PROVE  Types'
  BY <1>5, HeadsAndTails DEF UserDecides
<1>6. ASSUME NEW c \in HandoffCalls, UserStopsCall(c)
      PROVE  Types'
  BY <1>6 DEF UserStopsCall
<1>7. ASSUME NEW why \in {"deleting", "shutdown"}, Sweeps(why)
      PROVE  Types'
  BY <1>7 DEF Sweeps
<1>8. CASE Begins
  BY <1>8, HeadsAndTails DEF Begins, Phases
<1>9. CASE Delivers
  BY <1>9, HeadsAndTails DEF Delivers
<1>10. CASE RunStopped
  BY <1>10 DEF RunStopped, Rests, Phases
<1>11. CASE Suspends
  BY <1>11 DEF Suspends, Rests, Phases
<1>12. CASE GoesOn
  BY <1>12 DEF GoesOn, Phases
<1>13. CASE Claims
  <2>1. inbox # <<>> /\ seen # 0
    BY <1>13, HeadsAndTails DEF Claims
  <2>2. /\ Head(inbox) \in HandoffCalls
        /\ inbox' \in Seq(HandoffCalls) /\ Len(inbox') = Len(inbox) - 1
    BY <1>13, <2>1, HeadsAndTails DEF Claims
  <2>3. callRow' \in [HandoffCalls -> {"none", "pending", "running", "done"}]
    BY <1>13, <2>2 DEF Claims, Claimed
  <2>4. /\ mailed' \in Nat /\ seen' \in Nat
        /\ mailed' <= seen' /\ seen' <= Len(inbox')
    BY <1>13, <2>1, <2>2, HeadsAndTails DEF Claims
  <2>5. /\ pc' \in Phases /\ call' \in HandoffCalls \cup {NoCall}
        /\ pc' \in {"replay", "settle", "hands", "awaits", "fails", "waiting"} => call' \in HandoffCalls
    BY <1>13, <2>2 DEF Claims, Phases
  <2> QED
    BY <1>13, <2>2, <2>3, <2>4, <2>5 DEF Claims
<1>14. CASE Replays
  <2>1. call \in HandoffCalls /\ pc' \in Phases
    BY <1>14 DEF Replays, Phases
  <2>2. lease' \in [HandoffCalls -> Sessions \cup {NoSession}] /\ replays' \in [HandoffCalls -> Nat]
    <3>1. CASE Told(call)
      BY <1>14, <3>1 DEF Replays
    <3>2. CASE ~Told(call)
      <4>1. /\ lease' = [lease EXCEPT ![call] = NoSession]
            /\ replays' = [replays EXCEPT ![call] = @ + 1]
        BY <1>14, <3>2 DEF Replays, HandsBack
      <4>2. lease' \in [HandoffCalls -> Sessions \cup {NoSession}]
        BY <4>1
      <4>3. replays[call] + 1 \in Nat
        BY <2>1
      <4> QED
        BY <4>1, <4>2, <4>3
    <3> QED
      BY <3>1, <3>2
  <2> QED
    BY <1>14, <2>1, <2>2 DEF Replays
<1>15. CASE SettlesRow
  BY <1>15 DEF SettlesRow, Phases
<1>16. CASE AsksModel
  BY <1>16 DEF AsksModel, Phases
<1>17. CASE HandsOver
  <2>1. call \in HandoffCalls
    BY <1>17 DEF HandsOver
  <2>2. CASE Leasable(call)
    <3>1. lease' = [lease EXCEPT ![call] = target[call]] /\ pc' = "awaits"
      BY <1>17, <2>2 DEF HandsOver
    <3>2. target[call] \in Sessions \cup {NoSession}
      BY <2>1
    <3>3. lease' \in [HandoffCalls -> Sessions \cup {NoSession}] /\ pc' \in Phases
      BY <3>1, <3>2 DEF Phases
    <3> QED
      BY <1>17, <2>1, <3>3 DEF HandsOver
  <2>3. CASE ~Leasable(call)
    BY <1>17, <2>1, <2>3 DEF HandsOver, Phases
  <2> QED
    BY <2>2, <2>3
<1>18. CASE Observes
  BY <1>18 DEF Observes, Phases
<1>19. CASE WaitReturns
  BY <1>19 DEF WaitReturns, Phases
<1>20. CASE AgentOpened
  BY <1>20 DEF AgentOpened, Phases
<1>21. CASE Notices
  BY <1>21, HeadsAndTails DEF Notices
<1>22. CASE Settles
  <2>1. Head(effects) \in Effect /\ Tail(effects) \in Seq(Effect)
    BY <1>22, HeadsAndTails DEF Settles
  <2>2. Head(effects).on \in HandoffCalls
    BY <1>22, <2>1 DEF Settles, Effect
  <2>3. CASE lease[Head(effects).on] = NoSession
    BY <1>22, <2>1, <2>2, <2>3 DEF Settles
  <2>4. CASE lease[Head(effects).on] # NoSession
    BY <1>22, <2>1, <2>2, <2>4 DEF Settles
  <2> QED
    BY <2>3, <2>4
<1>23. CASE SettleSubmits
  <2>1. settling \in HandoffCalls
    BY <1>23 DEF SettleSubmits
  <2>2. inbox' \in Seq(HandoffCalls) /\ Len(inbox) <= Len(inbox') /\ Len(inbox') \in Nat
    BY <1>23, <2>1, HeadsAndTails DEF SettleSubmits
  <2>3. effects' \in Seq(Effect)
    BY <1>23 DEF SettleSubmits
  <2> QED
    BY <1>23, <2>1, <2>2, <2>3, HeadsAndTails DEF SettleSubmits
<1>24. CASE SweepGoesOn
  BY <1>24 DEF SweepGoesOn
<1>25. CASE Completes
  BY <1>25 DEF Completes, Rests, Phases
<1>26. CASE UserSays
  BY <1>26 DEF UserSays
<1>27. CASE UserEditsTurn
  BY <1>27 DEF UserEditsTurn, OfTurn
<1>28. CASE UserStopsRun
  BY <1>28 DEF UserStopsRun
<1> QED
  BY <1>1, <1>2, <1>3, <1>4, <1>5, <1>6, <1>7, <1>8, <1>9, <1>10, <1>11, <1>12, <1>13,
     <1>14, <1>15, <1>16, <1>17, <1>18, <1>19, <1>20, <1>21, <1>22, <1>23, <1>24, <1>25,
     <1>26, <1>27, <1>28
  DEF HandoffNext, RunSteps, EffectSteps, HandoffResting

-----------------------------------------------------------------------------
(* The sweep.                                                               *)
LEMMA SessionInit == HandoffInit => SessionInv
  BY DEF HandoffInit, SessionInv, SessionEndsOnce, SweepReaches, Active

(* A step that leaves the sessions and the sweep alone.                     *)
LEMMA SessionsKept ==
  ASSUME SessionInv, UNCHANGED <<sessionVars, sweepVars>>
  PROVE  SessionInv'
  BY DEF SessionInv, SessionEndsOnce, SweepReaches, Locked, sessionVars, sweepVars

(* finish takes the first end of a session that is active, and no other.    *)
LEMMA FinishKeeps ==
  ASSUME SessionInv, NEW s \in Sessions, Finish(s, TRUE) \/ Finish(s, FALSE)
  PROVE  /\ status[s] \in Active => /\ disposer[s] = "none"
                                    /\ status' = [status EXCEPT ![s] = "ended"]
                                    /\ disposer' = [disposer EXCEPT ![s] = "owes"]
         /\ status[s] \notin Active => status' = status /\ disposer' = disposer
  BY DEF Finish, SessionEnds, SessionInv, SessionEndsOnce

LEMMA SessionNext ==
  ASSUME Types, SessionInv, [HandoffNext]_handoffVars
  PROVE  SessionInv'
<1>0. ASSUME NEW s \in Sessions, Finish(s, TRUE) \/ Finish(s, FALSE)
      PROVE  /\ status[s] \in Active => /\ disposer[s] = "none"
                                        /\ status' = [status EXCEPT ![s] = "ended"]
                                        /\ disposer' = [disposer EXCEPT ![s] = "owes"]
             /\ status[s] \notin Active => status' = status /\ disposer' = disposer
  BY <1>0, FinishKeeps
<1> USE DEF Types, HandoffTypeOK, Active, SessionInv, SessionEndsOnce, SweepReaches, Locked,
            sweepVars
<1>1. CASE UNCHANGED handoffVars
  BY <1>1, SessionsKept DEF handoffVars
<1>2. ASSUME NEW s \in Sessions, UserOpens(s)
      PROVE  SessionInv'
  BY <1>2 DEF UserOpens, Opens
<1>3. ASSUME NEW s \in Sessions, AgentOpens(s)
      PROVE  SessionInv'
  BY <1>3 DEF AgentOpens, Opens
<1>4. ASSUME NEW s \in Sessions, StartLocks(s)
      PROVE  SessionInv'
  BY <1>4 DEF StartLocks
<1>5. ASSUME NEW s \in Sessions, Launches(s)
      PROVE  SessionInv'
  BY <1>5 DEF Launches
<1>6. ASSUME NEW s \in Sessions, HandshakeArrives(s)
      PROVE  SessionInv'
  BY <1>6 DEF HandshakeArrives
<1>7. ASSUME NEW s \in Sessions, Starts(s)
      PROVE  SessionInv'
  BY <1>7 DEF Starts
<1>8. ASSUME NEW s \in Sessions, HandshakeFails(s)
      PROVE  SessionInv'
  BY <1>8 DEF HandshakeFails
<1>9. ASSUME NEW s \in Sessions, StartChecks(s)
      PROVE  SessionInv'
  BY <1>9 DEF StartChecks
<1>10. ASSUME NEW s \in Sessions, Disposes(s)
      PROVE  SessionInv'
  BY <1>10 DEF Disposes, Disposable
<1>11. ASSUME NEW s \in Sessions, Retires(s)
      PROVE  SessionInv'
  BY <1>11 DEF Retires
<1>12. ASSUME NEW s \in Sessions, StartFails(s)
      PROVE  SessionInv'
  <2>1. Finish(s, TRUE) \/ Finish(s, FALSE)
    BY <1>12 DEF StartFails
  <2>2. CASE status[s] \in Active
    <3>1. /\ disposer[s] = "none"
          /\ status' = [status EXCEPT ![s] = "ended"]
          /\ disposer' = [disposer EXCEPT ![s] = "owes"]
      BY <2>1, <2>2, <1>0
    <3> QED
      BY <1>12, <2>2, <3>1 DEF StartFails
  <2>3. CASE status[s] \notin Active
    <3>1. status' = status /\ disposer' = disposer
      BY <2>1, <2>3, <1>0
    <3> QED
      BY <1>12, <2>3, <3>1 DEF StartFails
  <2> QED
    BY <2>2, <2>3
<1>13. ASSUME NEW s \in Sessions, WorkerExits(s)
      PROVE  SessionInv'
  <2>1. Finish(s, TRUE) \/ Finish(s, FALSE)
    BY <1>13 DEF WorkerExits
  <2>2. CASE status[s] \in Active
    <3>1. /\ disposer[s] = "none"
          /\ status' = [status EXCEPT ![s] = "ended"]
          /\ disposer' = [disposer EXCEPT ![s] = "owes"]
      BY <2>1, <2>2, <1>0
    <3> QED
      BY <1>13, <2>2, <3>1 DEF WorkerExits
  <2>3. CASE status[s] \notin Active
    <3>1. status' = status /\ disposer' = disposer
      BY <2>1, <2>3, <1>0
    <3> QED
      BY <1>13, <2>3, <3>1 DEF WorkerExits
  <2> QED
    BY <2>2, <2>3
<1>14. ASSUME NEW s \in Sessions, UserCloses(s)
      PROVE  SessionInv'
  <2>1. Finish(s, TRUE) \/ Finish(s, FALSE)
    BY <1>14 DEF UserCloses
  <2>2. CASE status[s] \in Active
    <3>1. /\ disposer[s] = "none"
          /\ status' = [status EXCEPT ![s] = "ended"]
          /\ disposer' = [disposer EXCEPT ![s] = "owes"]
      BY <2>1, <2>2, <1>0
    <3> QED
      BY <1>14, <2>2, <3>1 DEF UserCloses
  <2>3. CASE status[s] \notin Active
    <3>1. status' = status /\ disposer' = disposer
      BY <2>1, <2>3, <1>0
    <3> QED
      BY <1>14, <2>3, <3>1 DEF UserCloses
  <2> QED
    BY <2>2, <2>3
<1>15. ASSUME NEW s \in Sessions, AgentCloses(s)
      PROVE  SessionInv'
  <2>1. Finish(s, TRUE) \/ Finish(s, FALSE)
    BY <1>15 DEF AgentCloses
  <2>2. CASE status[s] \in Active
    <3>1. /\ disposer[s] = "none"
          /\ status' = [status EXCEPT ![s] = "ended"]
          /\ disposer' = [disposer EXCEPT ![s] = "owes"]
      BY <2>1, <2>2, <1>0
    <3> QED
      BY <1>15, <2>2, <3>1 DEF AgentCloses
  <2>3. CASE status[s] \notin Active
    <3>1. status' = status /\ disposer' = disposer
      BY <2>1, <2>3, <1>0
    <3> QED
      BY <1>15, <2>3, <3>1 DEF AgentCloses
  <2> QED
    BY <2>2, <2>3
<1>16. ASSUME NEW s \in Sessions, SweepEnds(s)
      PROVE  SessionInv'
  <2>1. Finish(s, TRUE) \/ Finish(s, FALSE)
    BY <1>16 DEF SweepEnds
  <2>2. CASE status[s] \in Active
    <3>1. /\ disposer[s] = "none"
          /\ status' = [status EXCEPT ![s] = "ended"]
          /\ disposer' = [disposer EXCEPT ![s] = "owes"]
      BY <2>1, <2>2, <1>0
    <3> QED
      BY <1>16, <2>2, <3>1, HandoffAssumption DEF SweepEnds, HandoffAssumption
  <2>3. CASE status[s] \notin Active
    <3>1. status' = status /\ disposer' = disposer
      BY <2>1, <2>3, <1>0
    <3> QED
      BY <1>16, <2>3, <3>1, HandoffAssumption DEF SweepEnds, HandoffAssumption
  <2> QED
    BY <2>2, <2>3
<1>17. ASSUME NEW why \in {"deleting", "shutdown"}, Sweeps(why)
      PROVE  SessionInv'
  BY <1>17 DEF Sweeps
<1>18. CASE SweepGoesOn
  BY <1>18 DEF SweepGoesOn
<1>19. ASSUME NEW c \in HandoffCalls,
              \/ \E s \in Sessions : CallsHandoff(c, s) \/ CallsRead(c, s)
              \/ UserDecides(c) \/ UserStopsCall(c)
      PROVE  SessionInv'
  BY <1>19, SessionsKept DEF CallsHandoff, CallsRead, CallsTool, UserDecides, UserStopsCall
<1>20. CASE RunSteps \/ Completes
  BY <1>20, SessionsKept
  DEF RunSteps, Begins, Delivers, RunStopped, Suspends, GoesOn, Claims, Replays, SettlesRow,
      AsksModel, HandsOver, Observes, WaitReturns, AgentOpened, Completes, Rests
<1>21. CASE Notices \/ Settles \/ SettleSubmits \/ UserSays \/ UserEditsTurn \/ UserStopsRun
  BY <1>21, SessionsKept
  DEF Notices, Settles, SettleSubmits, UserSays, UserEditsTurn, UserStopsRun
<1> QED
  BY <1>1, <1>2, <1>3, <1>4, <1>5, <1>6, <1>7, <1>8, <1>9, <1>10, <1>11, <1>12, <1>13,
     <1>14, <1>15, <1>16, <1>17, <1>18, <1>19, <1>20, <1>21
  DEF HandoffNext, SessionSteps, EffectSteps, HandoffResting

-----------------------------------------------------------------------------
(* The calls and their decisions.                                           *)
LEMMA CallInit == HandoffInit => CallInv
  BY DEF HandoffInit, CallInv, QueueIsOfWaiting, RowFollowsCall, CallInHand, TurnsCount

(* A step that leaves the calls, the queue and the execution alone.         *)
LEMMA CallsKept ==
  ASSUME CallInv, UNCHANGED <<inbox, callRow, turnOf, withdrawn, replays, pc, call, said, turn>>
  PROVE  CallInv'
  BY DEF CallInv, QueueIsOfWaiting, RowFollowsCall, CallInHand, TurnsCount

(* A decision is put for a call that waits and has none in the queue.       *)
LEMMA DecisionPut ==
  ASSUME Types, CallInv, NEW c \in HandoffCalls, Admits(c), inbox' = Append(inbox, c),
         UNCHANGED <<callRow, turnOf, withdrawn, replays, pc, call, said, turn>>
  PROVE  CallInv'
<1>1. \A i \in 1..Len(inbox) : inbox[i] # c
  BY DEF Admits, Queued
<1>2. inbox \in Seq(HandoffCalls)
  BY DEF Types, HandoffTypeOK
<1>3. DOMAIN inbox = 1..Len(inbox) /\ Len(inbox) \in Nat /\ DOMAIN inbox' = 1..(Len(inbox) + 1)
  BY <1>2
<1>4. /\ inbox'[Len(inbox) + 1] = c
      /\ \A i \in 1..Len(inbox) : inbox'[i] = inbox[i]
  BY <1>2
<1>5. QueueIsOfWaiting'
  BY <1>1, <1>3, <1>4 DEF CallInv, QueueIsOfWaiting, Admits
<1> QED
  BY <1>5 DEF CallInv, RowFollowsCall, CallInHand, TurnsCount

LEMMA CallNext ==
  ASSUME Types, CallInv, [HandoffNext]_handoffVars
  PROVE  CallInv'
<1> USE DEF sessionVars, sweepVars, queueVars, workflowVars, callVars
<1>1. CASE UNCHANGED handoffVars
  BY <1>1, CallsKept DEF handoffVars
<1>2. ASSUME NEW s \in Sessions, SessionSteps(s)
      PROVE  CallInv'
  BY <1>2, CallsKept
  DEF SessionSteps, StartLocks, Launches, HandshakeArrives, Starts, HandshakeFails, StartChecks,
      StartFails, Disposes, Retires, SweepEnds
<1>3. ASSUME NEW s \in Sessions, WorkerExits(s) \/ UserOpens(s) \/ UserCloses(s) \/ AgentCloses(s)
      PROVE  CallInv'
  BY <1>3, CallsKept DEF WorkerExits, UserOpens, UserCloses, AgentCloses
<1>4. ASSUME NEW why \in {"deleting", "shutdown"}, Sweeps(why)
      PROVE  CallInv'
  BY <1>4, CallsKept DEF Sweeps
<1>5. CASE SweepGoesOn \/ Notices \/ Settles \/ Delivers \/ UserStopsRun
  BY <1>5, CallsKept DEF SweepGoesOn, Notices, Settles, Delivers, UserStopsRun
<1>6. ASSUME NEW c \in HandoffCalls, UserStopsCall(c)
      PROVE  CallInv'
  BY <1>6, CallsKept DEF UserStopsCall
<1>7. ASSUME NEW c \in HandoffCalls, UserDecides(c)
      PROVE  CallInv'
  BY <1>7, DecisionPut DEF UserDecides
<1>8. CASE SettleSubmits
  <2>1. settling \in HandoffCalls
    BY <1>8 DEF SettleSubmits, Types, HandoffTypeOK
  <2>2. CASE Admits(settling) /\ sessionGate # "deleting"
    BY <1>8, <2>1, <2>2, DecisionPut DEF SettleSubmits
  <2>3. CASE ~(Admits(settling) /\ sessionGate # "deleting")
    BY <1>8, <2>3, CallsKept DEF SettleSubmits
  <2> QED
    BY <2>2, <2>3
<1> USE DEF Types, HandoffTypeOK, CallInv, QueueIsOfWaiting, RowFollowsCall, CallInHand, TurnsCount
<1>9. ASSUME NEW s \in Sessions, AgentOpens(s)
      PROVE  CallInv'
  BY <1>9 DEF AgentOpens
<1>10. ASSUME NEW c \in HandoffCalls, NEW s \in Sessions, NEW where \in {"hands", "waiting"},
              CallsTool(c, s, where)
       PROVE  CallInv'
  BY <1>10 DEF CallsTool
<1>11. CASE UserSays
  BY <1>11 DEF UserSays
<1>12. CASE UserEditsTurn
  BY <1>12 DEF UserEditsTurn, OfTurn
<1>13. CASE Begins
  <2>1. seen < Len(inbox) => turn >= 1
    <3>1. Len(inbox) \in Nat /\ DOMAIN inbox = 1..Len(inbox)
      OBVIOUS
    <3>2. seen < Len(inbox) => 1 \in DOMAIN inbox /\ inbox[1] \in HandoffCalls
      BY <3>1
    <3>3. seen < Len(inbox) => turnOf[inbox[1]] # 0
      BY <3>2
    <3> QED
      BY <3>2, <3>3
  <2> QED
    BY <1>13, <2>1 DEF Begins
<1>14. CASE RunStopped \/ Suspends \/ Completes
  BY <1>14 DEF RunStopped, Suspends, Completes, Rests
<1>15. CASE GoesOn
  BY <1>15 DEF GoesOn
<1>16. CASE Claims
  <2>1. inbox # <<>> /\ Len(inbox) \in Nat /\ DOMAIN inbox = 1..Len(inbox)
    BY <1>16, HeadsAndTails DEF Claims
  <2> DEFINE c == Head(inbox)
  <2>2. /\ c = inbox[1] /\ 1 \in DOMAIN inbox /\ c \in HandoffCalls
        /\ DOMAIN inbox' = 1..(Len(inbox) - 1)
        /\ \A i \in DOMAIN inbox' : inbox'[i] = inbox[i + 1] /\ i + 1 \in DOMAIN inbox /\ i + 1 # 1
    <3>1. inbox' = Tail(inbox)
      BY <1>16 DEF Claims
    <3>2. \A q \in Seq(HandoffCalls) :
            q # <<>> => /\ Head(q) = q[1] /\ 1 \in DOMAIN q /\ Head(q) \in HandoffCalls
                        /\ DOMAIN Tail(q) = 1..(Len(q) - 1)
                        /\ \A i \in DOMAIN Tail(q) : Tail(q)[i] = q[i + 1]
      OBVIOUS
    <3>3. \A i \in 1..(Len(inbox) - 1) : i + 1 \in 1..Len(inbox) /\ i + 1 # 1
      BY <2>1
    <3> QED
      BY <2>1, <3>1, <3>2, <3>3
  <2>3. callRow[c] = "pending" /\ replays[c] = 0
    BY <2>2
  <2>4. \A i \in DOMAIN inbox' : inbox'[i] # c
    BY <2>2
  <2>5. \A i, j \in DOMAIN inbox' : inbox'[i] = inbox'[j] => i = j
    <3> SUFFICES ASSUME NEW i \in DOMAIN inbox', NEW j \in DOMAIN inbox', inbox'[i] = inbox'[j]
                 PROVE  i = j
      OBVIOUS
    <3>1. i + 1 = j + 1
      BY <2>2
    <3> QED
      BY <3>1, <2>1, <2>2
  <2> HIDE DEF c
  <2>6. CASE c \in withdrawn
    BY <1>16, <2>2, <2>3, <2>4, <2>5, <2>6 DEF Claims, Claimed, c
  <2>7. CASE c \notin withdrawn
    <3>1. callRow' = [callRow EXCEPT ![c] = "running"] /\ pc' = "replay" /\ call' = c
      BY <1>16, <2>3, <2>7 DEF Claims, Claimed, c
    <3>2. QueueIsOfWaiting'
      BY <2>2, <2>4, <2>5, <3>1
    <3> QED
      BY <1>16, <2>2, <2>3, <2>7, <3>1, <3>2 DEF Claims
  <2> QED
    BY <2>6, <2>7
<1>17. CASE Replays
  BY <1>17 DEF Replays
<1>18. CASE SettlesRow
  BY <1>18 DEF SettlesRow
<1>19. CASE AsksModel
  BY <1>19 DEF AsksModel
<1>20. CASE HandsOver
  BY <1>20 DEF HandsOver
<1>21. CASE Observes
  BY <1>21 DEF Observes
<1>22. CASE WaitReturns
  BY <1>22 DEF WaitReturns
<1>23. CASE AgentOpened
  BY <1>23 DEF AgentOpened
<1> QED
  BY <1>1, <1>2, <1>3, <1>4, <1>5, <1>6, <1>7, <1>8, <1>9, <1>10, <1>11, <1>12, <1>13,
     <1>14, <1>15, <1>16, <1>17, <1>18, <1>19, <1>20, <1>21, <1>22, <1>23
  DEF HandoffNext, RunSteps, EffectSteps, HandoffResting, CallsHandoff, CallsRead

-----------------------------------------------------------------------------
(* The leases.                                                              *)
LeaseInv == \A c \in HandoffCalls : lease[c] # NoSession => GivesBack(c) \/ Stranded(c)

LEMMA LeaseInit == HandoffInit => LeaseInv
  BY DEF HandoffInit, LeaseInv

LEMMA LeasesKept ==
  ASSUME LeaseInv,
         UNCHANGED <<lease, callRow, withdrawn, pc, call, replays, sessionGate>>
  PROVE  LeaseInv'
  BY DEF LeaseInv, GivesBack, Stranded

LEMMA LeaseNext ==
  ASSUME Types, CallInv, LeaseInv, [HandoffNext]_handoffVars
  PROVE  LeaseInv'
<1> USE DEF sessionVars, sweepVars, queueVars, workflowVars, callVars
<1>1. CASE UNCHANGED handoffVars
  BY <1>1, LeasesKept DEF handoffVars
<1>2. ASSUME NEW s \in Sessions, SessionSteps(s)
      PROVE  LeaseInv'
  BY <1>2, LeasesKept
  DEF SessionSteps, StartLocks, Launches, HandshakeArrives, Starts, HandshakeFails, StartChecks,
      StartFails, Disposes, Retires, SweepEnds, Free
<1>3. ASSUME NEW s \in Sessions, WorkerExits(s) \/ UserOpens(s) \/ UserCloses(s) \/ AgentCloses(s)
      PROVE  LeaseInv'
  BY <1>3, LeasesKept DEF WorkerExits, UserOpens, UserCloses, AgentCloses, Free
<1>4. ASSUME NEW c \in HandoffCalls, UserDecides(c)
      PROVE  LeaseInv'
  BY <1>4, LeasesKept DEF UserDecides
<1>5. CASE Notices \/ SettleSubmits \/ Delivers \/ UserSays
  BY <1>5, LeasesKept DEF Notices, SettleSubmits, Delivers, UserSays
<1> USE DEF Types, HandoffTypeOK, CallInv, RowFollowsCall, CallInHand, LeaseInv, GivesBack, Stranded
<1>6. ASSUME NEW why \in {"deleting", "shutdown"}, Sweeps(why)
      PROVE  LeaseInv'
  BY <1>6 DEF Sweeps
<1>7. CASE SweepGoesOn
  BY <1>7 DEF SweepGoesOn
<1>8. CASE Settles
  BY <1>8 DEF Settles
<1>9. CASE UserStopsRun
  BY <1>9 DEF UserStopsRun
<1>10. ASSUME NEW c \in HandoffCalls, UserStopsCall(c)
       PROVE  LeaseInv'
  BY <1>10 DEF UserStopsCall
<1>11. ASSUME NEW s \in Sessions, AgentOpens(s)
       PROVE  LeaseInv'
  BY <1>11 DEF AgentOpens, Free
<1>12. ASSUME NEW c \in HandoffCalls, NEW s \in Sessions, NEW where \in {"hands", "waiting"},
              CallsTool(c, s, where)
       PROVE  LeaseInv'
  BY <1>12 DEF CallsTool
<1>13. CASE UserEditsTurn
  BY <1>13 DEF UserEditsTurn
<1>14. CASE Begins
  BY <1>14 DEF Begins
<1>15. CASE RunStopped \/ Suspends \/ Completes
  BY <1>15 DEF RunStopped, Suspends, Completes, Rests
<1>16. CASE GoesOn
  BY <1>16 DEF GoesOn
<1>17. CASE Claims
  <2>1. inbox # <<>>
    BY <1>17, HeadsAndTails DEF Claims
  <2>2. Head(inbox) \in HandoffCalls
    BY <2>1, HeadsAndTails
  <2>3. CASE Head(inbox) \in withdrawn
    BY <1>17, <2>2, <2>3 DEF Claims, Claimed
  <2>4. CASE Head(inbox) \notin withdrawn
    BY <1>17, <2>2, <2>4 DEF Claims, Claimed
  <2> QED
    BY <2>3, <2>4
<1>18. CASE Replays
  <2>1. CASE Told(call)
    BY <1>18, <2>1 DEF Replays
  <2>2. CASE ~Told(call)
    <3>1. lease' = [lease EXCEPT ![call] = NoSession] /\ call \in HandoffCalls
      BY <1>18, <2>2 DEF Replays, HandsBack
    <3>2. \A c \in HandoffCalls : lease'[c] # NoSession =>
            c # call /\ lease[c] # NoSession /\ replays'[c] = replays[c]
      BY <1>18, <2>2, <3>1 DEF Replays
    <3> QED
      BY <1>18, <3>2 DEF Replays
  <2> QED
    BY <2>1, <2>2
<1>19. CASE SettlesRow
  BY <1>19 DEF SettlesRow
<1>20. CASE AsksModel
  BY <1>20 DEF AsksModel
<1>21. CASE HandsOver
  <2>1. CASE Leasable(call)
    BY <1>21, <2>1 DEF HandsOver, Leasable, Told
  <2>2. CASE ~Leasable(call)
    BY <1>21, <2>2 DEF HandsOver
  <2> QED
    BY <2>1, <2>2
<1>22. CASE Observes
  BY <1>22 DEF Observes
<1>23. CASE WaitReturns
  BY <1>23 DEF WaitReturns
<1>24. CASE AgentOpened
  BY <1>24 DEF AgentOpened
<1> QED
  BY <1>1, <1>2, <1>3, <1>4, <1>5, <1>6, <1>7, <1>8, <1>9, <1>10, <1>11, <1>12, <1>13,
     <1>14, <1>15, <1>16, <1>17, <1>18, <1>19, <1>20, <1>21, <1>22, <1>23, <1>24
  DEF HandoffNext, RunSteps, EffectSteps, HandoffResting, CallsHandoff, CallsRead

(* Of all steps only the replay of a stopped call strands it.               *)
LEMMA StrandNext ==
  ASSUME Types, CallInv, LeaseInv, HandoffNext, NEW c \in HandoffCalls
  PROVE  Stranded(c)' => Stranded(c) \/ (Replays /\ call = c /\ Told(c))
<1> USE DEF sessionVars, sweepVars, queueVars, workflowVars, callVars, Stranded
<1>1. ASSUME UNCHANGED <<lease, callRow, replays, sessionGate, pc, call>>
      PROVE  Stranded(c)' => Stranded(c)
  BY <1>1
<1>2. ASSUME NEW s \in Sessions, SessionSteps(s)
      PROVE  Stranded(c)' => Stranded(c)
  BY <1>1, <1>2
  DEF SessionSteps, StartLocks, Launches, HandshakeArrives, Starts, HandshakeFails, StartChecks,
      StartFails, Disposes, Retires, SweepEnds, Free
<1>3. ASSUME NEW s \in Sessions, WorkerExits(s) \/ UserOpens(s) \/ UserCloses(s) \/ AgentCloses(s)
      PROVE  Stranded(c)' => Stranded(c)
  BY <1>1, <1>3 DEF WorkerExits, UserOpens, UserCloses, AgentCloses, Free
<1>4. ASSUME NEW d \in HandoffCalls, UserDecides(d) \/ UserStopsCall(d)
      PROVE  Stranded(c)' => Stranded(c)
  BY <1>1, <1>4 DEF UserDecides, UserStopsCall
<1>5. CASE Notices \/ SettleSubmits \/ Delivers \/ UserSays \/ UserStopsRun
  BY <1>1, <1>5 DEF Notices, SettleSubmits, Delivers, UserSays, UserStopsRun
<1> USE DEF Types, HandoffTypeOK, CallInv, RowFollowsCall, CallInHand, LeaseInv, GivesBack
<1>6. ASSUME NEW why \in {"deleting", "shutdown"}, Sweeps(why)
      PROVE  Stranded(c)' => Stranded(c)
  BY <1>6 DEF Sweeps
<1>7. CASE SweepGoesOn \/ Settles
  BY <1>7 DEF SweepGoesOn, Settles
<1>8. ASSUME NEW s \in Sessions, AgentOpens(s)
      PROVE  Stranded(c)' => Stranded(c)
  BY <1>8 DEF AgentOpens, Free
<1>9. ASSUME NEW d \in HandoffCalls, NEW s \in Sessions, NEW where \in {"hands", "waiting"},
             CallsTool(d, s, where)
      PROVE  Stranded(c)' => Stranded(c)
  BY <1>9 DEF CallsTool
<1>10. CASE UserEditsTurn
  BY <1>10 DEF UserEditsTurn
<1>11. CASE Begins \/ GoesOn \/ AsksModel \/ AgentOpened \/ WaitReturns
  BY <1>11 DEF Begins, GoesOn, AsksModel, AgentOpened, WaitReturns
<1>12. CASE RunStopped \/ Suspends \/ Completes
  BY <1>12 DEF RunStopped, Suspends, Completes, Rests
<1>13. CASE Claims
  <2>1. inbox # <<>>
    BY <1>13, HeadsAndTails DEF Claims
  <2>2. Head(inbox) \in HandoffCalls
    BY <2>1, HeadsAndTails
  <2>3. CASE Head(inbox) \in withdrawn
    BY <1>13, <2>2, <2>3 DEF Claims, Claimed
  <2>4. CASE Head(inbox) \notin withdrawn
    BY <1>13, <2>2, <2>4 DEF Claims, Claimed
  <2> QED
    BY <2>3, <2>4
<1>14. CASE Replays
  <2>1. CASE Told(call)
    BY <1>14, <2>1 DEF Replays
  <2>2. CASE ~Told(call)
    BY <1>14, <2>2 DEF Replays, HandsBack
  <2> QED
    BY <2>1, <2>2
<1>15. CASE SettlesRow
  BY <1>15 DEF SettlesRow
<1>16. CASE HandsOver
  <2>1. CASE Leasable(call)
    BY <1>16, <2>1 DEF HandsOver
  <2>2. CASE ~Leasable(call)
    BY <1>16, <2>2 DEF HandsOver
  <2> QED
    BY <2>1, <2>2
<1>17. CASE Observes
  BY <1>17 DEF Observes
<1>18. CASE HandoffResting
  BY <1>1, <1>18 DEF HandoffResting, handoffVars
<1> QED
  BY <1>2, <1>3, <1>4, <1>5, <1>6, <1>7, <1>8, <1>9, <1>10, <1>11, <1>12, <1>13, <1>14, <1>15,
     <1>16, <1>17, <1>18
  DEF HandoffNext, RunSteps, EffectSteps, CallsHandoff, CallsRead

-----------------------------------------------------------------------------
(* When the deletion of the Task or the shutdown has gone through the       *)
(* sessions, no worker is left, one that was being launched meanwhile       *)
(* included (TerminalSessionRuntime.start, dispose_worker).                 *)
THEOREM NoWorkerOutlivesSweepAlways == HandoffSpec => []NoWorkerOutlivesSweep
<1> DEFINE Inv == Types /\ SessionInv
<1>1. HandoffInit => Inv
  BY TypesInit, SessionInit
<1>2. Inv /\ [HandoffNext]_handoffVars => Inv'
  BY TypesNext, SessionNext
<1>3. Inv => NoWorkerOutlivesSweep
  <2> SUFFICES ASSUME Inv, SweepIsOver, NEW s \in Sessions
               PROVE  worker[s] \in {"none", "closed"} /\ opener[s] # "locked"
    BY DEF NoWorkerOutlivesSweep
  <2>1. CASE status[s] = "unused"
    BY <2>1 DEF SessionInv, SessionEndsOnce
  <2>2. CASE status[s] # "unused"
    <3>1. disposer[s] \in {"retires", "done"}
      BY <2>2, HandoffAssumption DEF SessionInv, SweepReaches, SweepIsOver, HandoffAssumption
    <3> QED
      BY <3>1 DEF SessionInv, SessionEndsOnce, Locked
  <2> QED
    BY <2>1, <2>2
<1> QED
  BY <1>1, <1>2, <1>3, PTL DEF HandoffSpec

(* A decision is carried out once, whoever decides, the user or the end of  *)
(* the session (ToolDecisionService.submit, _route_decision).               *)
THEOREM DecidedOnceAlways == HandoffSpec => []DecidedOnce
<1> DEFINE Inv == Types /\ CallInv
<1>1. HandoffInit => Inv
  BY TypesInit, CallInit
<1>2. Inv /\ [HandoffNext]_handoffVars => Inv'
  BY TypesNext, CallNext
<1>3. Inv => DecidedOnce
  <2> SUFFICES ASSUME Inv, NEW c \in HandoffCalls
               PROVE  Cardinality(Queued(c)) + replays[c] <= 1
    BY DEF DecidedOnce
  <2>1. replays[c] \in Nat /\ replays[c] <= 1 /\ DOMAIN inbox = 1..Len(inbox)
    BY DEF Types, HandoffTypeOK, CallInv, RowFollowsCall
  <2>2. CASE Queued(c) = {}
    BY <2>1, <2>2, FS_EmptySet
  <2>3. CASE Queued(c) # {}
    <3>1. PICK i \in DOMAIN inbox : inbox[i] = c
      BY <2>1, <2>3 DEF Queued
    <3>2. Queued(c) = {i}
      BY <2>1, <3>1 DEF Queued, CallInv, QueueIsOfWaiting
    <3>3. replays[c] = 0
      BY <3>1 DEF CallInv, QueueIsOfWaiting, RowFollowsCall
    <3> QED
      BY <3>2, <3>3, FS_Singleton
  <2> QED
    BY <2>2, <2>3
<1> QED
  BY <1>1, <1>2, <1>3, PTL DEF HandoffSpec

(* A session that is handed off has a call that will give it back, or is    *)
(* held by a call whose decision was claimed and whose handler never ran    *)
(* (HandoffRegistry).                                                       *)
THEOREM LeaseHasCallAlways ==
  HandoffSpec => [](\A c \in HandoffCalls : lease[c] # NoSession => GivesBack(c) \/ Stranded(c))
<1> DEFINE Inv == Types /\ CallInv /\ LeaseInv
<1>1. HandoffInit => Inv
  BY TypesInit, CallInit, LeaseInit
<1>2. Inv /\ [HandoffNext]_handoffVars => Inv'
  BY TypesNext, CallNext, LeaseNext
<1>3. Inv => \A c \in HandoffCalls : lease[c] # NoSession => GivesBack(c) \/ Stranded(c)
  BY DEF LeaseInv
<1> QED
  BY <1>1, <1>2, <1>3, PTL DEF HandoffSpec

(* What the runs check of the hand-offs, all together, in every behaviour   *)
(* and for every state in which no call is stranded.                        *)
THEOREM HandoffIsSoundAlways ==
  HandoffSpec => []((\A c \in HandoffCalls : ~Stranded(c)) => HandoffIsSound)
<1>1. /\ NoWorkerOutlivesSweep /\ DecidedOnce
      /\ \A c \in HandoffCalls : lease[c] # NoSession => GivesBack(c) \/ Stranded(c)
      => ((\A c \in HandoffCalls : ~Stranded(c)) => HandoffIsSound)
  BY DEF HandoffIsSound, LeaseHasCall, GivesBack
<1> QED
  BY <1>1, NoWorkerOutlivesSweepAlways, DecidedOnceAlways, LeaseHasCallAlways, PTL

(* Only one step strands a call: the runner that finds the Run, or the      *)
(* call, stopped and so leaves the handler out (tool_batch_runner.py). No   *)
(* end of a session, decision, edit or sweep does.                          *)
THEOREM OnlyStopsStrand ==
  HandoffSpec => [][\A c \in HandoffCalls :
                      Stranded(c)' => Stranded(c) \/ (Replays /\ call = c /\ Told(c))]_handoffVars
<1> DEFINE Inv == Types /\ CallInv /\ LeaseInv
           Strands == \A c \in HandoffCalls :
                        Stranded(c)' => Stranded(c) \/ (Replays /\ call = c /\ Told(c))
<1>1. HandoffInit => Inv
  BY TypesInit, CallInit, LeaseInit
<1>2. Inv /\ [HandoffNext]_handoffVars => Inv'
  BY TypesNext, CallNext, LeaseNext
<1>3. Inv /\ [HandoffNext]_handoffVars => [Strands]_handoffVars
  <2> SUFFICES ASSUME Inv, HandoffNext, NEW c \in HandoffCalls
               PROVE  Stranded(c)' => Stranded(c) \/ (Replays /\ call = c /\ Told(c))
    BY DEF handoffVars
  <2> QED
    BY StrandNext
<1> QED
  BY <1>1, <1>2, <1>3, PTL DEF HandoffSpec

-----------------------------------------------------------------------------
(***************************************************************************)
(* What a restart leaves behind, for any number of crashes and inputs, and *)
(* crashes that hit a start included: nothing in the records waits for     *)
(* work that died, a decided call is executed at most once, no input of a  *)
(* Team that ended is left; a node that works for such a Team, and an      *)
(* Agent that is not told, are what one crash in the middle of a start     *)
(* leaves, and which crash does is said (RecoveryWatch).                   *)
(*                                                                         *)
(* None of these is inductive. They speak of a backend that serves, and    *)
(* what is true then was made true by the steps of the start before: each  *)
(* conjunct below says how far the start has come with its part of the     *)
(* records (phase), and ties the records to what the process does.         *)
(***************************************************************************)

LEMMA Tasks2 == RTasks = {"main", "node"} /\ "main" \in RTasks /\ "node" \in RTasks
  BY DEF RTasks

RecordTypes == RestartTypeOK /\ executed \in [RTasks -> Nat]

-----------------------------------------------------------------------------
(* A process that does not serve yet executes nothing.                      *)
ProcessIsGone ==
  ~Serving => work = {} /\ sent = "nothing" /\ \A t \in RTasks : doing[t] = "rest"

(* A running Run is executed; once the start has gone through the Runs,     *)
(* none is running.                                                         *)
RunIsDriven(t) ==
  /\ Serving => (runOf[t] = "running" <=> doing[t] # "rest")
  /\ phase \notin {"down", "runs", "serving"} => runOf[t] # "running"

(* The result of a call says where its execution is; a call that has none   *)
(* when the process died is closed with its Run, or interrupted later.      *)
CallIsMade(t) ==
  /\ doing[t] = "tool" => result[t] = "open"
  /\ doing[t] \in {"execute", "settle"} => result[t] = "executing"
  /\ "decision" \in queue[t] => result[t] = "awaiting"
  /\ result[t] = "open" => \/ doing[t] = "tool"
                           \/ phase \in {"down", "runs"} /\ runOf[t] = "running"
  /\ result[t] = "executing" => \/ doing[t] \in {"execute", "settle"}
                                \/ phase \notin {"notify", "serving"}

(* Work that is alive owes a result, and a result in the queue is owed: the *)
(* two never hold together.                                                 *)
ResultIsOwed(t) ==
  /\ t \in work => result[t] = "pending" /\ "result" \notin queue[t]
  /\ "result" \in queue[t] => result[t] = "pending"
  /\ result[t] = "pending" => \/ t \in work \/ "result" \in queue[t]
                              \/ phase \notin {"notify", "serving"}
  /\ phase = "rows" /\ "result" \in queue[t] => t \in actorUp

(* What was executed is not awaited again.                                  *)
ExecutedLast(t) ==
  /\ executed[t] <= 1
  /\ result[t] \in {"none", "open", "awaiting"} \/ doing[t] = "execute" => executed[t] = 0

TaskInv(t) == RunIsDriven(t) /\ CallIsMade(t) /\ ResultIsOwed(t) /\ ExecutedLast(t)

DeadInv == ProcessIsGone /\ \A t \in RTasks : TaskInv(t)

-----------------------------------------------------------------------------
(* The Team and its node.                                                   *)

(* The coordinator is alive as long as the Task has work, and the Team runs *)
(* until the coordinator has ended it.                                      *)
TeamIsAlive ==
  /\ sent # "nothing" => "main" \in work
  /\ "main" \in work /\ sent # "over" => teamRecord = "running"
  /\ result["main"] \in {"none", "open"} => teamRecord = "none"
  /\ phase = "team" => teamRecord = "running"

(* The Run of the node is over, or does not work for the Team.              *)
Parted == ~(runOf["node"] \in {"running", "suspended"} /\ teamWork)

(* Without a running Team the node has no input of it and has parted from   *)
(* it; in the middle of the end of a Team, its Run is about to be           *)
(* cancelled. Only the node is ever given an input of the Team.             *)
NodeParts ==
  /\ teamRecord # "running" \/ phase = "team" => "agent" \notin queue["node"]
  /\ teamRecord # "running" /\ phase # "nodes" => Parted \/ cut
  /\ phase = "nodes" => teamRecord # "running" /\ ("node" \in orphans \/ Parted \/ cut)
  /\ "agent" \notin queue["main"]

TeamInv == TeamIsAlive /\ NodeParts

(* Who is not told yet is about to be: its Run has still to be recovered,   *)
(* it is on the list, or the call it waits for has still to be interrupted; *)
(* or a start forgot it.                                                    *)
Untold(t) ==
  t \in untold \ forgotten =>
    \/ t \in hit
    \/ phase \in {"down", "runs"} /\ runOf[t] = "running"
    \/ phase \notin {"notify", "serving"} /\ result[t] = "pending" /\ "result" \notin queue[t]

ToldInv == (Serving => hit = {}) /\ \A t \in RTasks : Untold(t)

(* What a crash in the middle of a start loses: the list of those to tell,  *)
(* and that the node of the Team just ended has to be cancelled.            *)
WatchStep ==
  /\ forgotten' = IF Crash THEN forgotten \cup hit ELSE forgotten
  /\ cut' = IF Crash /\ phase = "nodes" /\ "node" \in orphans THEN TRUE ELSE cut

watchVars == <<restartVars, forgotten, cut>>

RecoveryWatch == forgotten = {} /\ cut = FALSE /\ [][WatchStep]_watchVars

LEMMA OnlyCrashesLose ==
  ASSUME [WatchStep]_watchVars, phase' = phase \/ phase' # "down"
  PROVE  UNCHANGED <<forgotten, cut>>
  BY DEF WatchStep, watchVars, Crash

-----------------------------------------------------------------------------
(* RecordTypes.                                                             *)
LEMMA RecordTypesInit == RestartInit => RecordTypes
  BY DEF RestartInit, RecordTypes, RestartTypeOK, RTasks, Advancing

LEMMA RecordTypesNext ==
  ASSUME RecordTypes, [RestartNext]_restartVars
  PROVE  RecordTypes'
<1> USE DEF RecordTypes, RestartTypeOK
<1>1. CASE UNCHANGED restartVars
  BY <1>1 DEF restartVars, records, process, history
<1>2. ASSUME NEW t \in RTasks, UserWrites(t) \/ UserJudges(t)
      PROVE  RecordTypes'
  BY <1>2 DEF UserWrites, UserJudges, Put, Advancing, history
<1>3. ASSUME NEW t \in RTasks, StartsRun(t)
      PROVE  RecordTypes'
  BY <1>3 DEF StartsRun
<1>4. ASSUME NEW t \in RTasks, TakesDecision(t)
      PROVE  RecordTypes'
  BY <1>4 DEF TakesDecision, ConfirmFirst, Off, history
<1>5. ASSUME NEW t \in RTasks, NEW m \in Advancing \cup {"notice"}, TakesMessage(t, m)
      PROVE  RecordTypes'
  BY <1>5 DEF TakesMessage, Off, process
<1>6. ASSUME NEW t \in RTasks, AsksTheModel(t) \/ Parks(t) \/ Executes(t) \/ SettlesDecision(t)
      PROVE  RecordTypes'
  BY <1>6 DEF AsksTheModel, Parks, Executes, SettlesDecision, Off, records, history
<1>7. ASSUME NEW t \in RTasks, StoresCall(t) \/ Answers(t) \/ CallReturns(t) \/ ToolAsksUser(t)
      PROVE  RecordTypes'
  BY <1>7 DEF StoresCall, Answers, CallReturns, ToolAsksUser, history
<1>8. CASE NodeJobConcludes
  BY <1>8, Tasks2 DEF NodeJobConcludes, Put, Advancing, history
<1>9. CASE TeamSends
  BY <1>9, Tasks2 DEF TeamSends, Put, Advancing, history
<1>10. CASE TeamEnds
  BY <1>10 DEF TeamEnds, history
<1>11. CASE TeamDelivers
  BY <1>11, Tasks2 DEF TeamDelivers, Put, Advancing, history
<1>12. CASE Crash
  BY <1>12 DEF Crash, records
<1>13. CASE Boots \/ RunsRecovered \/ NoTeamToEnd \/ RowsInterrupted \/ Serves
  BY <1>13 DEF Boots, RunsRecovered, NoTeamToEnd, RowsInterrupted, Serves, Passes, records, history
<1>14. CASE WithdrawsInput
  BY <1>14 DEF WithdrawsInput, Passes, Off, history
<1>15. CASE EndsTeam
  BY <1>15, Tasks2 DEF EndsTeam, Passes, history
<1>16. CASE NodesRecovered
  BY <1>16 DEF NodesRecovered, CancelsNodes, Passes, history
<1>17. CASE Dispatches
  BY <1>17 DEF Dispatches, Passes, records, history
<1>18. ASSUME NEW t \in RTasks, RecoversRun(t) \/ Interrupts(t) \/ TellsTask(t)
       PROVE  RecordTypes'
  BY <1>18 DEF RecoversRun, ClosesCall, Interrupts, TellsTask, Put, history
<1> QED
  BY <1>1, <1>2, <1>3, <1>4, <1>5, <1>6, <1>7, <1>8, <1>9, <1>10, <1>11, <1>12, <1>13, <1>14,
     <1>15, <1>16, <1>17, <1>18
  DEF RestartNext, ActorSteps, StartSteps

-----------------------------------------------------------------------------
(* The records and the process agree, whatever crash comes when.            *)
LEMMA DeadInit == RestartInit => DeadInv
  BY DEF RestartInit, DeadInv, ProcessIsGone, TaskInv, RunIsDriven, CallIsMade, ResultIsOwed,
         ExecutedLast, Serving, RTasks

LEMMA DeadNext ==
  ASSUME RecordTypes, DeadInv, [RestartNext]_restartVars
  PROVE  DeadInv'
<1> USE DEF RecordTypes, RestartTypeOK, DeadInv, ProcessIsGone, TaskInv, RunIsDriven, CallIsMade,
            ResultIsOwed, ExecutedLast, Serving
<1>1. CASE UNCHANGED restartVars
  BY <1>1 DEF restartVars, records, process, history
<1>2. ASSUME NEW t \in RTasks, UserWrites(t)
      PROVE  DeadInv'
  BY <1>2 DEF UserWrites, Put
<1>3. ASSUME NEW t \in RTasks, UserJudges(t)
      PROVE  DeadInv'
  BY <1>3 DEF UserJudges, Put, history
<1>4. ASSUME NEW t \in RTasks, StartsRun(t)
      PROVE  DeadInv'
  BY <1>4 DEF StartsRun, Wakeable
<1>5. ASSUME NEW t \in RTasks, TakesDecision(t)
      PROVE  DeadInv'
  BY <1>5 DEF TakesDecision, ConfirmFirst, Off, history
<1>6. ASSUME NEW t \in RTasks, NEW m \in Advancing \cup {"notice"}, TakesMessage(t, m)
      PROVE  DeadInv'
  BY <1>6 DEF TakesMessage, Off, process
<1>7. ASSUME NEW t \in RTasks, AsksTheModel(t)
      PROVE  DeadInv'
  BY <1>7 DEF AsksTheModel, records, history
<1>8. ASSUME NEW t \in RTasks, Parks(t)
      PROVE  DeadInv'
  BY <1>8 DEF Parks, history
<1>9. ASSUME NEW t \in RTasks, Executes(t)
      PROVE  DeadInv'
  BY <1>9 DEF Executes
<1>10. ASSUME NEW t \in RTasks, SettlesDecision(t)
       PROVE  DeadInv'
  BY <1>10 DEF SettlesDecision, Off, history
<1>11. ASSUME NEW t \in RTasks, StoresCall(t)
       PROVE  DeadInv'
  BY <1>11 DEF StoresCall, history
<1>12. ASSUME NEW t \in RTasks, Answers(t)
       PROVE  DeadInv'
  BY <1>12 DEF Answers, history
<1>13. ASSUME NEW t \in RTasks, CallReturns(t)
       PROVE  DeadInv'
  BY <1>13 DEF CallReturns, history
<1>14. ASSUME NEW t \in RTasks, ToolAsksUser(t)
       PROVE  DeadInv'
  BY <1>14 DEF ToolAsksUser, history
<1>15. CASE NodeJobConcludes
  BY <1>15, Tasks2 DEF NodeJobConcludes, Put, history
<1>16. CASE TeamSends
  BY <1>16, Tasks2 DEF TeamSends, Put, history
<1>17. CASE TeamEnds
  BY <1>17 DEF TeamEnds, history
<1>18. CASE TeamDelivers
  BY <1>18, Tasks2 DEF TeamDelivers, Put, history
<1>19. CASE Crash
  BY <1>19 DEF Crash, records
<1>20. CASE Boots
  BY <1>20 DEF Boots, records, history
<1>21. CASE RunsRecovered
  BY <1>21 DEF RunsRecovered, Passes, records, history
<1>22. CASE WithdrawsInput
  BY <1>22, Tasks2 DEF WithdrawsInput, Passes, Off, history
<1>23. CASE EndsTeam \/ NoTeamToEnd
  BY <1>23 DEF EndsTeam, NoTeamToEnd, Passes, records, history
<1>24. CASE NodesRecovered
  BY <1>24 DEF NodesRecovered, CancelsNodes, Passes, history
<1>25. CASE Dispatches
  BY <1>25 DEF Dispatches, Dispatched, Advancing, Passes, records, history
<1>26. CASE RowsInterrupted
  BY <1>26 DEF RowsInterrupted, Interruptible, Passes, records, history
<1>27. CASE Serves
  BY <1>27 DEF Serves, Passes, records, history
<1>28. ASSUME NEW t \in RTasks, RecoversRun(t)
       PROVE  DeadInv'
  BY <1>28 DEF RecoversRun, ClosesCall, history
<1>29. ASSUME NEW t \in RTasks, Interrupts(t)
       PROVE  DeadInv'
  BY <1>29 DEF Interrupts, Interruptible, history
<1>30. ASSUME NEW t \in RTasks, TellsTask(t)
       PROVE  DeadInv'
  BY <1>30 DEF TellsTask, Put
<1> QED
  BY <1>1, <1>2, <1>3, <1>4, <1>5, <1>6, <1>7, <1>8, <1>9, <1>10, <1>11, <1>12, <1>13, <1>14,
     <1>15, <1>16, <1>17, <1>18, <1>19, <1>20, <1>21, <1>22, <1>23, <1>24, <1>25, <1>26, <1>27,
     <1>28, <1>29, <1>30
  DEF RestartNext, ActorSteps, StartSteps

-----------------------------------------------------------------------------
(* The node parts from a Team that ended, unless a start was cut.           *)
LEMMA TeamInit == RestartInit => TeamInv
  BY Tasks2 DEF RestartInit, TeamInv, TeamIsAlive, NodeParts, Parted

LEMMA TeamNext ==
  ASSUME RecordTypes, DeadInv, TeamInv, [RestartNext]_restartVars, [WatchStep]_watchVars
  PROVE  TeamInv'
<1> USE DEF RecordTypes, RestartTypeOK, DeadInv, ProcessIsGone, TaskInv, RunIsDriven, CallIsMade,
            ResultIsOwed, TeamInv, TeamIsAlive, NodeParts, Parted, Serving
<1>0. phase' = phase \/ phase' # "down" => UNCHANGED <<forgotten, cut>>
  BY OnlyCrashesLose
<1>1. CASE UNCHANGED restartVars
  BY <1>0, <1>1, Tasks2 DEF restartVars, records, process, history
<1>2. ASSUME NEW t \in RTasks, UserWrites(t)
      PROVE  TeamInv'
  BY <1>0, <1>2, Tasks2 DEF UserWrites, Put
<1>3. ASSUME NEW t \in RTasks, UserJudges(t)
      PROVE  TeamInv'
  BY <1>0, <1>3, Tasks2 DEF UserJudges, Put, history
<1>4. ASSUME NEW t \in RTasks, StartsRun(t)
      PROVE  TeamInv'
  BY <1>0, <1>4, Tasks2 DEF StartsRun, Wakeable
<1>5. ASSUME NEW t \in RTasks, TakesDecision(t)
      PROVE  TeamInv'
  BY <1>0, <1>5, Tasks2 DEF TakesDecision, ConfirmFirst, Off, history
<1>6. ASSUME NEW t \in RTasks, NEW m \in Advancing \cup {"notice"}, TakesMessage(t, m)
      PROVE  TeamInv'
  BY <1>0, <1>6, Tasks2 DEF TakesMessage, Off, process
<1>7. ASSUME NEW t \in RTasks, AsksTheModel(t)
      PROVE  TeamInv'
  BY <1>0, <1>7, Tasks2 DEF AsksTheModel, records, history
<1>8. ASSUME NEW t \in RTasks, Parks(t)
      PROVE  TeamInv'
  BY <1>0, <1>8, Tasks2 DEF Parks, history
<1>9. ASSUME NEW t \in RTasks, Executes(t)
      PROVE  TeamInv'
  BY <1>0, <1>9, Tasks2 DEF Executes
<1>10. ASSUME NEW t \in RTasks, SettlesDecision(t)
       PROVE  TeamInv'
  BY <1>0, <1>10, Tasks2 DEF SettlesDecision, Off, history
<1>11. ASSUME NEW t \in RTasks, StoresCall(t)
       PROVE  TeamInv'
  BY <1>0, <1>11, Tasks2 DEF StoresCall, history
<1>12. ASSUME NEW t \in RTasks, Answers(t)
       PROVE  TeamInv'
  BY <1>0, <1>12, Tasks2 DEF Answers, history
<1>13. ASSUME NEW t \in RTasks, CallReturns(t)
       PROVE  TeamInv'
  BY <1>0, <1>13, Tasks2 DEF CallReturns, history
<1>14. ASSUME NEW t \in RTasks, ToolAsksUser(t)
       PROVE  TeamInv'
  BY <1>0, <1>14, Tasks2 DEF ToolAsksUser, history
<1>15. CASE NodeJobConcludes
  BY <1>0, <1>15, Tasks2 DEF NodeJobConcludes, Put, history
<1>16. CASE TeamSends
  BY <1>0, <1>16, Tasks2 DEF TeamSends, Put, history
<1>17. CASE TeamEnds
  BY <1>0, <1>17, Tasks2 DEF TeamEnds, history
<1>18. CASE TeamDelivers
  BY <1>0, <1>18, Tasks2 DEF TeamDelivers, Put, history
<1>19. CASE Crash
  <2>1. WatchStep
    BY <1>19 DEF Crash, watchVars, restartVars, process
  <2> QED
    BY <1>19, <2>1, Tasks2 DEF Crash, records, WatchStep
<1>20. CASE Boots
  BY <1>0, <1>20, Tasks2 DEF Boots, records, history
<1>21. CASE RunsRecovered
  BY <1>0, <1>21, Tasks2 DEF RunsRecovered, Passes, records, history
<1>22. CASE WithdrawsInput
  BY <1>0, <1>22, Tasks2 DEF WithdrawsInput, Passes, Off, history
<1>23. CASE EndsTeam \/ NoTeamToEnd
  BY <1>0, <1>23, Tasks2 DEF EndsTeam, NoTeamToEnd, Passes, records, history
<1>24. CASE NodesRecovered
  BY <1>0, <1>24, Tasks2 DEF NodesRecovered, CancelsNodes, Passes, history
<1>25. CASE Dispatches
  BY <1>0, <1>25, Tasks2 DEF Dispatches, Dispatched, Advancing, Passes, records, history
<1>26. CASE RowsInterrupted
  BY <1>0, <1>26, Tasks2 DEF RowsInterrupted, Interruptible, Passes, records, history
<1>27. CASE Serves
  BY <1>0, <1>27, Tasks2 DEF Serves, Passes, records, history
<1>28. ASSUME NEW t \in RTasks, RecoversRun(t)
       PROVE  TeamInv'
  BY <1>0, <1>28, Tasks2 DEF RecoversRun, ClosesCall, history
<1>29. ASSUME NEW t \in RTasks, Interrupts(t)
       PROVE  TeamInv'
  BY <1>0, <1>29, Tasks2 DEF Interrupts, Interruptible, history
<1>30. ASSUME NEW t \in RTasks, TellsTask(t)
       PROVE  TeamInv'
  BY <1>0, <1>30, Tasks2 DEF TellsTask, Put
<1> QED
  BY <1>1, <1>2, <1>3, <1>4, <1>5, <1>6, <1>7, <1>8, <1>9, <1>10, <1>11, <1>12, <1>13, <1>14,
     <1>15, <1>16, <1>17, <1>18, <1>19, <1>20, <1>21, <1>22, <1>23, <1>24, <1>25, <1>26, <1>27,
     <1>28, <1>29, <1>30
  DEF RestartNext, ActorSteps, StartSteps


-----------------------------------------------------------------------------
(* Whoever was interrupted is on the way to be told, unless a start forgot  *)
(* it.                                                                      *)
LEMMA ToldInit == RestartInit => ToldInv
  BY DEF RestartInit, ToldInv, Untold

LEMMA ToldNext ==
  ASSUME RecordTypes, DeadInv, ToldInv, [RestartNext]_restartVars, [WatchStep]_watchVars
  PROVE  ToldInv'
<1> USE DEF RecordTypes, RestartTypeOK, DeadInv, ProcessIsGone, TaskInv, RunIsDriven, CallIsMade,
            ResultIsOwed, ToldInv, Untold, Serving
<1>0. phase' = phase \/ phase' # "down" => UNCHANGED <<forgotten, cut>>
  BY OnlyCrashesLose
<1>1. CASE UNCHANGED restartVars
  BY <1>0, <1>1 DEF restartVars, records, process, history
<1>2. ASSUME NEW t \in RTasks, UserWrites(t)
      PROVE  ToldInv'
  BY <1>0, <1>2 DEF UserWrites, Put
<1>3. ASSUME NEW t \in RTasks, UserJudges(t)
      PROVE  ToldInv'
  BY <1>0, <1>3 DEF UserJudges, Put, history
<1>4. ASSUME NEW t \in RTasks, StartsRun(t)
      PROVE  ToldInv'
  BY <1>0, <1>4 DEF StartsRun, Wakeable
<1>5. ASSUME NEW t \in RTasks, TakesDecision(t)
      PROVE  ToldInv'
  BY <1>0, <1>5 DEF TakesDecision, ConfirmFirst, Off, history
<1>6. ASSUME NEW t \in RTasks, NEW m \in Advancing \cup {"notice"}, TakesMessage(t, m)
      PROVE  ToldInv'
  BY <1>0, <1>6 DEF TakesMessage, Off, process
<1>7. ASSUME NEW t \in RTasks, AsksTheModel(t)
      PROVE  ToldInv'
  BY <1>0, <1>7 DEF AsksTheModel, records, history
<1>8. ASSUME NEW t \in RTasks, Parks(t)
      PROVE  ToldInv'
  BY <1>0, <1>8 DEF Parks, history
<1>9. ASSUME NEW t \in RTasks, Executes(t)
      PROVE  ToldInv'
  BY <1>0, <1>9 DEF Executes
<1>10. ASSUME NEW t \in RTasks, SettlesDecision(t)
       PROVE  ToldInv'
  BY <1>0, <1>10 DEF SettlesDecision, Off, history
<1>11. ASSUME NEW t \in RTasks, StoresCall(t)
       PROVE  ToldInv'
  BY <1>0, <1>11 DEF StoresCall, history
<1>12. ASSUME NEW t \in RTasks, Answers(t)
       PROVE  ToldInv'
  BY <1>0, <1>12 DEF Answers, history
<1>13. ASSUME NEW t \in RTasks, CallReturns(t)
       PROVE  ToldInv'
  BY <1>0, <1>13 DEF CallReturns, history
<1>14. ASSUME NEW t \in RTasks, ToolAsksUser(t)
       PROVE  ToldInv'
  BY <1>0, <1>14 DEF ToolAsksUser, history
<1>15. CASE NodeJobConcludes
  BY <1>0, <1>15, Tasks2 DEF NodeJobConcludes, Put, history
<1>16. CASE TeamSends
  BY <1>0, <1>16, Tasks2 DEF TeamSends, Put, history
<1>17. CASE TeamEnds
  BY <1>0, <1>17 DEF TeamEnds, history
<1>18. CASE TeamDelivers
  BY <1>0, <1>18, Tasks2 DEF TeamDelivers, Put, history
<1>19. CASE Crash
  <2>1. WatchStep
    BY <1>19 DEF Crash, watchVars, restartVars, process
  <2> QED
    BY <1>19, <2>1 DEF Crash, records, WatchStep
<1>20. CASE Boots
  BY <1>0, <1>20 DEF Boots, records, history
<1>21. CASE RunsRecovered
  BY <1>0, <1>21 DEF RunsRecovered, Passes, records, history
<1>22. CASE WithdrawsInput
  BY <1>0, <1>22, Tasks2 DEF WithdrawsInput, Passes, Off, history
<1>23. CASE EndsTeam \/ NoTeamToEnd
  BY <1>0, <1>23 DEF EndsTeam, NoTeamToEnd, Passes, records, history
<1>24. CASE NodesRecovered
  BY <1>0, <1>24 DEF NodesRecovered, CancelsNodes, Passes, history
<1>25. CASE Dispatches
  BY <1>0, <1>25 DEF Dispatches, Dispatched, Advancing, Passes, records, history
<1>26. CASE RowsInterrupted
  BY <1>0, <1>26 DEF RowsInterrupted, Interruptible, Passes, records, history
<1>27. CASE Serves
  BY <1>0, <1>27 DEF Serves, Passes, records, history
<1>28. ASSUME NEW t \in RTasks, RecoversRun(t)
       PROVE  ToldInv'
  BY <1>0, <1>28 DEF RecoversRun, ClosesCall, history
<1>29. ASSUME NEW t \in RTasks, Interrupts(t)
       PROVE  ToldInv'
  BY <1>0, <1>29 DEF Interrupts, Interruptible, history
<1>30. ASSUME NEW t \in RTasks, TellsTask(t)
       PROVE  ToldInv'
  BY <1>0, <1>30 DEF TellsTask, Put
<1> QED
  BY <1>1, <1>2, <1>3, <1>4, <1>5, <1>6, <1>7, <1>8, <1>9, <1>10, <1>11, <1>12, <1>13, <1>14,
     <1>15, <1>16, <1>17, <1>18, <1>19, <1>20, <1>21, <1>22, <1>23, <1>24, <1>25, <1>26, <1>27,
     <1>28, <1>29, <1>30
  DEF RestartNext, ActorSteps, StartSteps

-----------------------------------------------------------------------------
(* Whenever the backend serves, no record waits for what died with an       *)
(* earlier process, whenever the crashes came (RecoverService).             *)
THEOREM NothingWaitsForTheDeadAlways == RestartSpec => []NothingWaitsForTheDead
<1>1. RestartInit => RecordTypes /\ DeadInv
  BY RecordTypesInit, DeadInit
<1>2. RecordTypes /\ DeadInv /\ [RestartNext]_restartVars => (RecordTypes /\ DeadInv)'
  BY RecordTypesNext, DeadNext
<1>3. DeadInv => NothingWaitsForTheDead
  BY DEF DeadInv, TaskInv, RunIsDriven, CallIsMade, ResultIsOwed, NothingWaitsForTheDead, Serving
<1> QED
  BY <1>1, <1>2, <1>3, PTL DEF RestartSpec

(* A call the user approved is executed at most once: its decision leaves   *)
(* the queue with the wait of the call, before it is executed               *)
(* (_route_decision).                                                       *)
THEOREM ExecutedOnceAlways == RestartSpec => []ExecutedOnce
<1>1. RestartInit => RecordTypes /\ DeadInv
  BY RecordTypesInit, DeadInit
<1>2. RecordTypes /\ DeadInv /\ [RestartNext]_restartVars => (RecordTypes /\ DeadInv)'
  BY RecordTypesNext, DeadNext
<1>3. DeadInv => ExecutedOnce
  BY DEF DeadInv, TaskInv, ExecutedLast, ExecutedOnce
<1> QED
  BY <1>1, <1>2, <1>3, PTL DEF RestartSpec

(* No input of a Team that ended is left for its node, whichever crash hits *)
(* whichever start: the input is withdrawn before the Team is ended         *)
(* (recover_after_restart).                                                 *)
THEOREM NoInputOutlivesTeam ==
  RestartSpec /\ RecoveryWatch => [](teamRecord # "running" => "agent" \notin queue["node"])
<1> DEFINE Inv == RecordTypes /\ DeadInv /\ TeamInv
<1>1. RestartInit => Inv
  BY RecordTypesInit, DeadInit, TeamInit
<1>2. Inv /\ [RestartNext]_restartVars /\ [WatchStep]_watchVars => Inv'
  BY RecordTypesNext, DeadNext, TeamNext
<1>3. Inv => (teamRecord # "running" => "agent" \notin queue["node"])
  BY DEF TeamInv, NodeParts
<1> QED
  BY <1>1, <1>2, <1>3, PTL DEF RestartSpec, RecoveryWatch

(* A node works only for a Team that runs, unless a start died between the  *)
(* transaction that ended the Team and the one that cancels the suspended   *)
(* Run of the node (team_coordinator.py 703, cancel_orphaned_team_nodes):   *)
(* that is the only crash that leaves an orphan.                            *)
THEOREM NoOrphanNodeAlways == RestartSpec /\ RecoveryWatch => [](NoOrphanNode \/ cut)
<1> DEFINE Inv == RecordTypes /\ DeadInv /\ TeamInv
<1>1. RestartInit => Inv
  BY RecordTypesInit, DeadInit, TeamInit
<1>2. Inv /\ [RestartNext]_restartVars /\ [WatchStep]_watchVars => Inv'
  BY RecordTypesNext, DeadNext, TeamNext
<1>3. Inv => NoOrphanNode \/ cut
  BY DEF TeamInv, NodeParts, Parted, NoOrphanNode, Serving
<1> QED
  BY <1>1, <1>2, <1>3, PTL DEF RestartSpec, RecoveryWatch

(* An Agent whose Run or background work died with the process is told      *)
(* before the backend serves, unless it was on the list, which is in memory *)
(* only, of a start that died before it had told it (notify_interrupted).   *)
THEOREM InterruptedIsToldAlways ==
  RestartSpec /\ RecoveryWatch => [](Serving => untold \subseteq forgotten)
<1> DEFINE Inv == RecordTypes /\ DeadInv /\ ToldInv
<1>1. RestartInit => Inv
  BY RecordTypesInit, DeadInit, ToldInit
<1>2. Inv /\ [RestartNext]_restartVars /\ [WatchStep]_watchVars => Inv'
  BY RecordTypesNext, DeadNext, ToldNext
<1>3. Inv => (Serving => untold \subseteq forgotten)
  BY DEF RecordTypes, RestartTypeOK, ToldInv, Untold, Serving
<1> QED
  BY <1>1, <1>2, <1>3, PTL DEF RestartSpec, RecoveryWatch

(* All that a start promises together, as the runs check it, in every       *)
(* behaviour and until one of the two crashes above has come.               *)
THEOREM RestartIsSoundAlways ==
  RestartSpec /\ RecoveryWatch => [](forgotten = {} /\ ~cut => RestartIsSound)
<1>1. /\ NothingWaitsForTheDead /\ ExecutedOnce /\ (NoOrphanNode \/ cut)
      /\ (Serving => untold \subseteq forgotten)
      => (forgotten = {} /\ ~cut => RestartIsSound)
  BY DEF RestartIsSound, InterruptedIsTold
<1> QED
  BY <1>1, NothingWaitsForTheDeadAlways, ExecutedOnceAlways, NoOrphanNodeAlways,
     InterruptedIsToldAlways, PTL
=============================================================================
