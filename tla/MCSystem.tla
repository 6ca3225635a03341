------------------------------ MODULE MCSystem ------------------------------
(***************************************************************************)
(* Finite instances of the parts around the actor of a Task. They share no *)
(* variable: each initial state chooses the part that is looked at, and    *)
(* the others stand still.                                                 *)
(***************************************************************************)
EXTENDS TaskDeletionProps, TeamRun, TransportStream, Handoff, Restart, TaskContext,
        BackgroundRegistryProps, TLC

CONSTANTS Parts,                      \* the parts a run looks at
          rt, ch, fk, nt, wk, d1, d2, c1, c2

VARIABLE part

MCOwner == (rt :> nt) @@ (ch :> rt) @@ (fk :> nt)
SmallOwner == (rt :> nt) @@ (ch :> rt)
OneTerminal == c1 :> "terminal"
OneTeam == c1 :> "team"

AllVars == <<deletionVars, teamVars, streamVars, handoffVars, restartVars, contextVars,
             vars>>

SystemInit ==
  /\ part \in Parts
  /\ DeletionInit /\ TeamInit /\ StreamInit /\ HandoffInit /\ RestartInit /\ ContextInit /\ Init

Deletion == part = "deletion" /\ DeletionNext
  /\ UNCHANGED <<teamVars, streamVars, handoffVars, restartVars, contextVars, vars, part>>
Team     == part = "team" /\ TeamNext
  /\ UNCHANGED <<deletionVars, streamVars, handoffVars, restartVars, contextVars, vars, part>>
Stream   == part = "stream" /\ StreamNext
  /\ UNCHANGED <<deletionVars, teamVars, handoffVars, restartVars, contextVars, vars, part>>
Handoffs == part = "handoff" /\ HandoffNext
  /\ UNCHANGED <<deletionVars, teamVars, streamVars, restartVars, contextVars, vars, part>>
Restarts == part = "restart" /\ RestartNext
  /\ UNCHANGED <<deletionVars, teamVars, streamVars, handoffVars, contextVars, vars, part>>
Background == part = "background" /\ Next
  /\ UNCHANGED <<deletionVars, teamVars, streamVars, handoffVars, restartVars, contextVars, part>>
Contexts == part = "context" /\ ContextNext
  /\ UNCHANGED <<deletionVars, teamVars, streamVars, handoffVars, restartVars, vars, part>>

SystemNext ==
  Deletion \/ Team \/ Stream \/ Handoffs \/ Restarts \/ Background \/ Contexts

SystemSpec == SystemInit /\ [][SystemNext]_<<AllVars, part>>

(* The parts that stand still have nothing to do in their initial state, so  *)
(* their fairness asks nothing.                                            *)
FairSystemSpec ==
  /\ SystemSpec
  /\ DeletionFairness /\ TeamFairness /\ HandoffFairness /\ RestartFairness /\ Fairness

SystemTypeOK ==
  CASE part = "deletion"   -> DeletionTypeOK
    [] part = "team"       -> TeamTypeOK
    [] part = "stream"     -> StreamTypeOK
    [] part = "handoff"    -> HandoffTypeOK
    [] part = "restart"    -> RestartTypeOK
    [] part = "context"    -> ContextTypeOK
    [] part = "background" -> TypeOK

-----------------------------------------------------------------------------
(* What has begun to end does end: deletions, stopped Teams, hand-overs     *)
(* whose session is over, messages from before a crash, the shutdown and a  *)
(* stopped wait.                                                            *)
SystemComesToRest ==
  /\ DeletionEnds /\ StoppedTeamEnds /\ EndedHandoffIsDecided /\ ArrivedIsHandled
  /\ CloseEnds /\ StoppedWaitReturns
=============================================================================
