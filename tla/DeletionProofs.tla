---------------------------- MODULE DeletionProofs ----------------------------
(***************************************************************************)
(* The deletions of one workspace, for any tree of Tasks and any number of *)
(* requests: a Task that exists has one loop, the tree stays whole, and a  *)
(* survivor of a deletion that failed gets its scheduler back.             *)
(*                                                                         *)
(* The last one needs most. A request may let go of what it stopped only   *)
(* when the rows are gone or the actors are replaced. So at its commit it  *)
(* must delete all it ever stopped: whatever of it still lives is still in *)
(* the tree of the root, though the tree was collected long before and     *)
(* other requests deleted parts of it (StoppedIsTargeted).                 *)
(***************************************************************************)
EXTENDS TaskDeletionProps, TLAPS

RequestType ==
  [at : Stages, root : Tasks \cup {Workspace, NoTask}, forks : SUBSET Tasks,
   found : SUBSET Tasks, left : SUBSET Tasks, stopped : SUBSET Tasks,
   task : Tasks \cup {NoTask}, gen : Nat, gone : {TRUE, FALSE}]

Types ==
  /\ row \in [Tasks \cup {Workspace} -> {"absent", "live", "gone"}]
  /\ origin \in [Tasks -> Tasks \cup {NoTask}]
  /\ space \subseteq Tasks /\ lost \subseteq Tasks /\ stranded \subseteq Tasks
  /\ loop \in [Tasks -> {"none", "running", "stopped"}]
  /\ gen \in [Tasks -> Nat]
  /\ creation \in [Tasks -> Tasks \cup {NoTask}]
  /\ gate \in Deleters \cup {NoTask}
  /\ del \in [Deleters -> RequestType]

Absent == {t \in Tasks : row[t] = "absent"}
Gone   == {t \in Tasks : row[t] = "gone"}

-----------------------------------------------------------------------------
(* A loop is lost only with its Task: what a request finalises is gone.     *)
LoopInv ==
  /\ lost \subseteq Gone
  /\ \A d \in Deleters : del[d].at = "finalize" => del[d].left \subseteq Gone

-----------------------------------------------------------------------------
(* A Task that was never created has left no trace.                         *)
AbsentIsUnknown ==
  /\ Absent \cap space = {}
  /\ \A t \in Absent : origin[t] = NoTask
  /\ \A t \in Tasks : creation[t] \notin Absent
  /\ \A d \in Deleters :
       Absent \cap (del[d].stopped \cup del[d].found \cup del[d].left
                     \cup del[d].forks \cup {del[d].root}) = {}

TreeInv == AbsentIsUnknown /\ TreeStaysWhole

-----------------------------------------------------------------------------
(* What a request has dealt with so far: a stopped loop is only left behind *)
(* by one of them.                                                          *)
Handled(d) == del[d].stopped \cup (del[d].found \ del[d].left)

StopIsOwned ==
  \A t \in Live \cap space : loop[t] = "stopped" =>
    t \in stranded \/ \E d \in Deleters : t \in Handled(d)

(* The stages of a request, and what it still has in hand in each.          *)
StageKept(d) ==
  /\ del[d].at \in {"idle", "done"} => del[d].stopped = {}
  /\ del[d].at \notin {"stop", "await"} => del[d].found = {}
  /\ del[d].at = "collect" => del[d].stopped = {} /\ del[d].left = {}
  /\ del[d].at \in {"stop", "await"} => del[d].left \subseteq del[d].found
  /\ del[d].at = "await" => del[d].task \in Handled(d)
  /\ del[d].at \notin {"idle", "done"} => del[d].root \in Tasks \cup {Workspace}

StagesKept == \A d \in Deleters : StageKept(d)

(* What a request stopped and what still lives is still in its tree; after  *)
(* the commit none of it lives.                                             *)
StoppedTargeted(d) ==
  /\ del[d].at \in {"collect", "stop", "await", "delete", "commit"} =>
       Live \cap (del[d].stopped \cup del[d].found) \subseteq Targets(d)
  /\ del[d].at = "finalize" => Live \cap del[d].stopped = {}

StoppedIsTargeted == \A d \in Deleters : StoppedTargeted(d)

SurvivorInv == StopIsOwned /\ StagesKept /\ StoppedIsTargeted

-----------------------------------------------------------------------------
(* Trees.                                                                   *)
LEMMA TreesClosed ==
  ASSUME NEW roots \in SUBSET Tasks
  PROVE  /\ roots \subseteq Trees(roots) /\ Trees(roots) \subseteq Tasks
         /\ \A u \in Trees(roots) : Children(u) \subseteq Trees(roots)
         /\ Trees(roots) \subseteq roots \cup Live
<1>1. roots \subseteq Trees(roots) /\ Trees(roots) \subseteq Tasks
  BY DEF Trees, Closure
<1>2. ASSUME NEW u \in Trees(roots), NEW c \in Children(u)
      PROVE  c \in Trees(roots)
  BY <1>2 DEF Trees, Closure, Children, Live
<1>3. Trees(roots) \subseteq roots \cup Live
  <2> DEFINE S == roots \cup Live
  <2>1. S \in SUBSET Tasks /\ roots \subseteq S
    BY DEF Live
  <2>2. \A u \in S : Children(u) \subseteq S
    BY DEF Children
  <2> HIDE DEF S
  <2>3. \A t \in Trees(roots) : t \in S
    BY <2>1, <2>2 DEF Trees, Closure
  <2> QED
    BY <2>3 DEF S
<1> QED
  BY <1>1, <1>2, <1>3

LEMMA ForksLive ==
  ASSUME NEW t \in Tasks
  PROVE  ForkDescendants(t) \subseteq Live
<1> DEFINE S == {t} \cup Live
<1>1. S \in SUBSET Tasks /\ {t} \subseteq S
  BY DEF Live
<1>2. \A u \in S : Forks(u) \subseteq S
  BY DEF Forks
<1> HIDE DEF S
<1>3. \A u \in ForkDescendants(t) : u \in S /\ u # t
  BY <1>1, <1>2 DEF ForkDescendants, Closure
<1> QED
  BY <1>3 DEF S

(* A step may take parts of a tree away, but what lives on stays in it: the *)
(* Tasks above it live on too.                                              *)
LEMMA TreesKept ==
  ASSUME TreeStaysWhole', NEW roots \in SUBSET Tasks
  PROVE  Trees(roots) \cap Live' \subseteq Trees(roots)'
<1> SUFFICES ASSUME NEW t \in Trees(roots), t \in Live',
                    NEW S \in SUBSET Tasks, roots \subseteq S,
                    \A u \in S : Children(u)' \subseteq S
             PROVE  t \in S
  BY DEF Trees, Closure
<1> DEFINE T == S \cup (Tasks \ Live')
<1>1. T \in SUBSET Tasks /\ roots \subseteq T
  OBVIOUS
<1>2. ASSUME NEW u \in T, NEW c \in Children(u)
      PROVE  c \in T
  <2>1. c \in Tasks /\ Owner[c] = u
    BY DEF Children, Live
  <2>2. CASE c \notin Live'
    BY <2>1, <2>2
  <2>3. CASE c \in Live'
    <3>1. u \in Tasks /\ u # NoTask
      BY TopologyAssumption DEF TopologyAssumption
    <3>2. u \in Live'
      BY <2>1, <2>3, <3>1 DEF TreeStaysWhole
    <3>3. c \in Children(u)'
      BY <2>1, <2>3 DEF Children
    <3> QED
      BY <3>2, <3>3
  <2> QED
    BY <2>2, <2>3
<1>3. t \in T
  <2>1. \A u \in T : Children(u) \subseteq T
    BY <1>2
  <2> HIDE DEF T
  <2> QED
    BY <1>1, <2>1 DEF Trees, Closure
<1> QED
  BY <1>3

-----------------------------------------------------------------------------
(* The types of the state, and what the steps of a request make of it.      *)
(* The request that there is none, with its fields. *)
LEMMA NoRequestTyped ==
  ASSUME NEW stage \in Stages
  PROVE  /\ NoRequest(stage) \in RequestType
         /\ NoRequest(stage).at = stage /\ NoRequest(stage).stopped = {}
         /\ NoRequest(stage).found = {} /\ NoRequest(stage).left = {}
         /\ NoRequest(stage).forks = {} /\ NoRequest(stage).root = NoTask
<1> DEFINE r == Request(NoTask, {})
<1>1. /\ r \in RequestType /\ r.stopped = {} /\ r.found = {} /\ r.left = {}
      /\ r.forks = {} /\ r.root = NoTask
  BY DEF Request, RequestType, Stages
<1>2. NoRequest(stage) = [r EXCEPT !.at = stage]
  BY DEF NoRequest
<1> HIDE DEF r
<1> QED
  BY <1>1, <1>2 DEF RequestType

(* Every request is one, with the types of its fields. *)
LEMMA RequestFields ==
  ASSUME Types, NEW d \in Deleters
  PROVE  /\ del[d] \in RequestType /\ del[d].at \in Stages
         /\ del[d].root \in Tasks \cup {Workspace, NoTask}
         /\ del[d].forks \subseteq Tasks /\ del[d].found \subseteq Tasks
         /\ del[d].left \subseteq Tasks /\ del[d].stopped \subseteq Tasks
         /\ del[d].task \in Tasks \cup {NoTask}
<1>1. del[d] \in RequestType
  BY DEF Types
<1> QED
  BY <1>1 DEF RequestType

LEMMA TypesInit == DeletionInit => Types
<1> SUFFICES ASSUME DeletionInit PROVE Types
  OBVIOUS
<1>1. NoRequest("idle") \in RequestType
  BY NoRequestTyped DEF Stages
<1>2. del \in [Deleters -> RequestType]
  BY <1>1 DEF DeletionInit
<1>3. row \in [Tasks \cup {Workspace} -> {"absent", "live", "gone"}]
  BY DEF DeletionInit
<1> QED
  BY <1>2, <1>3 DEF DeletionInit, Types

LEMMA TargetsTyped ==
  ASSUME Types, NEW d \in Deleters, del[d].root \in Tasks \cup {Workspace}
  PROVE  Targets(d) \subseteq Tasks /\ Targets(d) \cap Absent \subseteq del[d].forks \cup {del[d].root}
<1>1. CASE del[d].root = Workspace
  BY <1>1 DEF Targets, Live, Exists, Absent
<1>2. CASE del[d].root # Workspace
  <2>1. {del[d].root} \cup del[d].forks \in SUBSET Tasks
    BY <1>2 DEF Types, RequestType
  <2> QED
    BY <1>2, <2>1, TreesClosed DEF Targets, Live, Exists, Absent
<1> QED
  BY <1>1, <1>2

(* Only request d takes a step, and it stays a request for the same. *)
Only(d) ==
  /\ del' \in [Deleters -> RequestType]
  /\ \A e \in Deleters \ {d} : del'[e] = del[e]
Same(d) == del'[d].root = del[d].root /\ del'[d].forks = del[d].forks

LEMMA Updated ==
  ASSUME Types, NEW d \in Deleters, NEW r \in RequestType, del' = [del EXCEPT ![d] = r]
  PROVE  Only(d) /\ del'[d] = r
  BY DEF Types, Only

LEMMA CollectsEffect ==
  ASSUME Types, StagesKept, NEW d \in Deleters, DelCollects(d)
  PROVE  /\ Only(d) /\ Same(d) /\ Targets(d) \subseteq Tasks
         /\ del'[d].stopped = del[d].stopped \cup del[d].found
         /\ del'[d].left = Targets(d) \ del'[d].stopped
         /\ \/ /\ Targets(d) \subseteq del'[d].stopped
               /\ del'[d].at = "delete" /\ del'[d].found = {}
            \/ del'[d].at = "stop" /\ del'[d].found = Targets(d)
<1> DEFINE stopped == del[d].stopped \cup del[d].found
           found == IF Targets(d) \subseteq stopped THEN {} ELSE Targets(d)
           at == IF Targets(d) \subseteq stopped THEN "delete" ELSE "stop"
           left == Targets(d) \ stopped
           r == [del[d] EXCEPT !.stopped = stopped, !.found = found, !.left = left, !.at = at]
<1>1. Targets(d) \subseteq Tasks
  BY TargetsTyped DEF DelCollects, StagesKept, StageKept
<1>2. stopped \subseteq Tasks /\ found \subseteq Tasks /\ left \subseteq Tasks /\ at \in Stages
  BY <1>1, RequestFields DEF Stages
<1>3. del' = [del EXCEPT ![d].stopped = stopped, ![d].found = found, ![d].left = left, ![d].at = at]
  BY Zenon DEF DelCollects
<1>4. \/ Targets(d) \subseteq stopped /\ at = "delete" /\ found = {}
      \/ at = "stop" /\ found = Targets(d)
  OBVIOUS
<1>5. left = Targets(d) \ stopped /\ stopped = del[d].stopped \cup del[d].found
  OBVIOUS
<1> HIDE DEF stopped, found, at, left
<1>6. /\ r \in RequestType /\ r.root = del[d].root /\ r.forks = del[d].forks
      /\ r.at = at /\ r.found = found /\ r.left = left /\ r.stopped = stopped
  <2>1. /\ del[d] \in RequestType /\ at \in Stages /\ stopped \in SUBSET Tasks
        /\ found \in SUBSET Tasks /\ left \in SUBSET Tasks
    BY <1>2, RequestFields
  <2> QED
    BY <2>1 DEF RequestType
<1>7. del' = [del EXCEPT ![d] = r]
  BY <1>3 DEF Types
<1> HIDE DEF r
<1>8. Only(d) /\ del'[d] = r
  BY <1>6, <1>7, Updated
<1> QED
  BY <1>1, <1>4, <1>5, <1>6, <1>8 DEF Same

LEMMA StopsEffect ==
  ASSUME Types, NEW d \in Deleters, NEW t \in Tasks, DelStops(d, t)
  PROVE  /\ Only(d) /\ Same(d)
         /\ del'[d].stopped = del[d].stopped /\ del'[d].found = del[d].found
         /\ del'[d].left = del[d].left \ {t}
         /\ \/ t \in space /\ del'[d].at = "await" /\ del'[d].task = t
            \/ t \notin space /\ del'[d].at = "stop" /\ UNCHANGED stopping
<1> DEFINE left == del[d].left \ {t}
           r == [del[d] EXCEPT !.at = "await", !.left = left, !.task = t, !.gen = gen[t]]
           s == [del[d] EXCEPT !.left = left]
<1>1. del[d] \in RequestType /\ left \subseteq Tasks /\ gen[t] \in Nat /\ del[d].at = "stop"
  BY RequestFields DEF Types, DelStops
<1>2. CASE t \in space
  <2>1. /\ r \in RequestType /\ r.root = del[d].root /\ r.forks = del[d].forks /\ r.task = t
        /\ r.at = "await" /\ r.found = del[d].found /\ r.left = left /\ r.stopped = del[d].stopped
    <3>1. "await" \in Stages /\ left \in SUBSET Tasks
      BY <1>1 DEF Stages
    <3> QED
      BY <1>1, <3>1 DEF RequestType
  <2>2. del' = [del EXCEPT ![d] = r]
    BY <1>2 DEF DelStops, Types
  <2> HIDE DEF r
  <2>3. Only(d) /\ del'[d] = r
    BY <2>1, <2>2, Updated
  <2> QED
    BY <1>2, <2>1, <2>3 DEF Same
<1>3. CASE t \notin space
  <2>1. /\ s \in RequestType /\ s.root = del[d].root /\ s.forks = del[d].forks
        /\ s.at = "stop" /\ s.found = del[d].found /\ s.left = left /\ s.stopped = del[d].stopped
    BY <1>1 DEF RequestType
  <2>2. del' = [del EXCEPT ![d] = s] /\ UNCHANGED stopping
    BY <1>3 DEF DelStops, Types
  <2> HIDE DEF s
  <2>3. Only(d) /\ del'[d] = s
    BY <2>1, <2>2, Updated
  <2> QED
    BY <1>3, <2>1, <2>2, <2>3 DEF Same
<1> QED
  BY <1>2, <1>3

LEMMA StoppedEffect ==
  ASSUME Types, NEW d \in Deleters, DelStopped(d)
  PROVE  /\ Only(d) /\ Same(d)
         /\ del'[d].stopped = del[d].stopped /\ del'[d].found = del[d].found
         /\ del'[d].left = del[d].left /\ del'[d].at = "stop"
<1> DEFINE r == [del[d] EXCEPT !.at = "stop", !.task = NoTask, !.gen = 0]
<1>1. /\ r \in RequestType /\ r.root = del[d].root /\ r.forks = del[d].forks
      /\ r.at = "stop" /\ r.found = del[d].found /\ r.left = del[d].left /\ r.stopped = del[d].stopped
  <2>1. del[d] \in RequestType /\ "stop" \in Stages
    BY RequestFields DEF Stages
  <2> QED
    BY <2>1 DEF RequestType
<1>2. del' = [del EXCEPT ![d] = r]
  BY DEF DelStopped, Types
<1> HIDE DEF r
<1> QED
  BY <1>1, <1>2, Updated DEF Same

(* A request that ends or fails. *)
LEMMA EndsEffect ==
  ASSUME Types, NEW d \in Deleters, NEW left, Ends(d, left)
  PROVE  /\ Only(d) /\ stranded' = stranded \cup left
         /\ del'[d] = NoRequest("done") /\ del'[d].at = "done"
         /\ del'[d].stopped = {} /\ del'[d].found = {} /\ del'[d].left = {} /\ del'[d].forks = {}
<1>1. "done" \in Stages
  BY DEF Stages
<1>2. NoRequest("done") \in RequestType
  BY <1>1, NoRequestTyped
<1>3. Only(d) /\ del'[d] = NoRequest("done")
  BY <1>2, Updated DEF Ends
<1> QED
  BY <1>1, <1>3, NoRequestTyped DEF Ends

LEMMA RollsBackNext ==
  ASSUME Types, NEW d \in Deleters, Fails(d)
  PROVE  \/ Ends(d, del[d].stopped)
         \/ /\ Only(d) /\ Same(d) /\ UNCHANGED stranded
            /\ del'[d].stopped = del[d].stopped /\ del'[d].found = del[d].found
            /\ del'[d].left = del[d].left /\ del'[d].at = "rollback"
<1> DEFINE r == [del[d] EXCEPT !.at = "rollback"]
<1>1. CASE Ends(d, del[d].stopped)
  BY <1>1
<1>2. CASE ~Ends(d, del[d].stopped)
  <2>1. del' = [del EXCEPT ![d] = r] /\ UNCHANGED stranded
    BY <1>2 DEF Fails, Types
  <2>2. /\ r \in RequestType /\ r.root = del[d].root /\ r.forks = del[d].forks
        /\ r.at = "rollback" /\ r.found = del[d].found /\ r.left = del[d].left /\ r.stopped = del[d].stopped
    BY RequestFields DEF RequestType, Stages
  <2> HIDE DEF r
  <2> QED
    BY <2>1, <2>2, Updated DEF Same
<1> QED
  BY <1>1, <1>2

LEMMA TakesGateEffect ==
  ASSUME Types, NEW d \in Deleters, DelTakesGate(d)
  PROVE  /\ Only(d) /\ Same(d)
         /\ del'[d].stopped = del[d].stopped /\ del'[d].found = del[d].found
         /\ del'[d].left = del[d].left /\ del'[d].at = "commit"
<1> DEFINE r == [del[d] EXCEPT !.at = "commit"]
<1>1. del' = [del EXCEPT ![d] = r]
  BY DEF DelTakesGate, Types
<1>2. /\ r \in RequestType /\ r.root = del[d].root /\ r.forks = del[d].forks
      /\ r.at = "commit" /\ r.found = del[d].found /\ r.left = del[d].left /\ r.stopped = del[d].stopped
  BY RequestFields DEF RequestType, Stages
<1> HIDE DEF r
<1> QED
  BY <1>1, <1>2, Updated DEF Same

LEMMA CommitsEffect ==
  ASSUME Types, StagesKept, NEW d \in Deleters, DelCommits(d)
  PROVE  /\ Only(d) /\ Same(d) /\ Targets(d) \subseteq Live
         /\ del'[d].stopped = del[d].stopped /\ del'[d].found = del[d].found
         /\ del'[d].left = Targets(d) /\ del'[d].at = "finalize"
         /\ row' = [t \in Tasks \cup {Workspace} |->
                      IF t \in Targets(d) \cup {del[d].root} THEN "gone" ELSE row[t]]
         /\ origin' = Reparented(del[d].root, Targets(d))
<1> DEFINE r == [del[d] EXCEPT !.at = "finalize", !.left = Targets(d)]
<1>1. del' = [del EXCEPT ![d] = r] /\ Targets(d) \subseteq Live
  BY DEF DelCommits, Types
<1>2. /\ r \in RequestType /\ r.root = del[d].root /\ r.forks = del[d].forks
      /\ r.at = "finalize" /\ r.found = del[d].found /\ r.left = Targets(d) /\ r.stopped = del[d].stopped
  <2>1. del[d] \in RequestType /\ "finalize" \in Stages /\ Targets(d) \in SUBSET Tasks
    BY <1>1, RequestFields DEF Stages, Live
  <2> QED
    BY <2>1 DEF RequestType
<1>3. /\ row' = [t \in Tasks \cup {Workspace} |->
                   IF t \in Targets(d) \cup {del[d].root} THEN "gone" ELSE row[t]]
      /\ origin' = Reparented(del[d].root, Targets(d))
  BY DEF DelCommits, Remove
<1>4. Only(d) /\ del'[d] = r
  BY <1>1, <1>2, Updated
<1> HIDE DEF r
<1> QED
  BY <1>1, <1>2, <1>3, <1>4 DEF Same

LEMMA FinalisesEffect ==
  ASSUME Types, NEW d \in Deleters, NEW t \in Tasks, DelFinalises(d, t)
  PROVE  \/ Ends(d, {}) /\ del[d].left = {t} /\ gate' = NoTask
         \/ /\ Only(d) /\ Same(d) /\ UNCHANGED <<stranded, gate>>
            /\ del'[d].stopped = del[d].stopped /\ del'[d].found = del[d].found
            /\ del'[d].left = del[d].left \ {t} /\ del'[d].at = "finalize"
<1> DEFINE left == del[d].left \ {t}
           r == [del[d] EXCEPT !.left = left]
<1>1. CASE del[d].left = {t}
  BY <1>1 DEF DelFinalises
<1>2. CASE del[d].left # {t}
  <2>1. del' = [del EXCEPT ![d] = r] /\ UNCHANGED <<stranded, gate>> /\ del[d].at = "finalize"
    BY <1>2 DEF DelFinalises, Types
  <2>2. left \subseteq Tasks
    BY RequestFields
  <2>3. /\ r \in RequestType /\ r.root = del[d].root /\ r.forks = del[d].forks
        /\ r.at = del[d].at /\ r.found = del[d].found /\ r.left = left /\ r.stopped = del[d].stopped
    BY <2>2, RequestFields DEF RequestType
  <2> HIDE DEF r
  <2> QED
    BY <2>1, <2>3, Updated DEF Same
<1> QED
  BY <1>1, <1>2

LEMMA AbandonedEffect ==
  ASSUME Types, NEW d \in Deleters, DelAbandoned(d)
  PROVE  \/ /\ del[d].at \in {"collect", "stop", "await"}
            /\ Ends(d, del[d].stopped \cup (del[d].found \ del[d].left))
         \/ /\ Only(d) /\ Same(d) /\ UNCHANGED stranded
            /\ del'[d].stopped = del[d].stopped /\ del'[d].found = del[d].found
            /\ del'[d].left = del[d].left /\ del'[d].at = del[d].at
            /\ del[d].at \in {"delete", "commit"}
<1> DEFINE r == [del[d] EXCEPT !.gone = TRUE]
<1>1. CASE del[d].at \notin {"delete", "commit"}
  BY <1>1 DEF DelAbandoned
<1>2. CASE del[d].at \in {"delete", "commit"}
  <2>1. del' = [del EXCEPT ![d] = r] /\ UNCHANGED stranded
    BY <1>2 DEF DelAbandoned, Types
  <2>2. /\ r \in RequestType /\ r.root = del[d].root /\ r.forks = del[d].forks
        /\ r.at = del[d].at /\ r.found = del[d].found /\ r.left = del[d].left /\ r.stopped = del[d].stopped
    BY RequestFields DEF RequestType
  <2> HIDE DEF r
  <2> QED
    BY <1>2, <2>1, <2>2, Updated DEF Same
<1> QED
  BY <1>1, <1>2

LEMMA BeginsEffect ==
  ASSUME Types, NEW d \in Deleters, NEW root \in Tasks \cup {Workspace},
         NEW forks \in SUBSET Tasks, DelBegins(d, root, forks)
  PROVE  /\ Only(d)
         /\ del'[d].at = "collect" /\ del'[d].root = root /\ del'[d].forks = forks
         /\ del'[d].stopped = {} /\ del'[d].found = {} /\ del'[d].left = {}
<1>1. Request(root, forks) \in RequestType
  BY DEF Request, RequestType, Stages
<1>2. Only(d) /\ del'[d] = Request(root, forks)
  BY <1>1, Updated DEF DelBegins
<1> QED
  BY <1>2 DEF Request

LEMMA TypesNext ==
  ASSUME Types, StagesKept, [DeletionNext]_deletionVars
  PROVE  Types'
<1> USE DEF rows, actors
<1>1. CASE UNCHANGED deletionVars
  BY <1>1 DEF deletionVars, Types
<1>2. ASSUME NEW t \in Tasks, Visit(t) \/ UserSends(t)
      PROVE  Types'
  BY <1>2 DEF Visit, UserSends, Materialise, Types
<1>3. ASSUME NEW t \in Tasks, UserCreates(t) \/ ActorStarts(t) \/ ActorEnds(t)
      PROVE  Types'
  BY <1>3 DEF UserCreates, ActorStarts, ActorEnds, Enters, Types
<1>4. ASSUME NEW t \in Tasks, CleansUp(t)
      PROVE  Types'
  <2> DEFINE deleted == Trees({t})
  <2>1. deleted \subseteq Tasks
    BY TreesClosed
  <2>2. origin' \in [Tasks -> Tasks \cup {NoTask}]
    BY <1>4 DEF CleansUp, Reparented, ForkSource, Types
  <2> HIDE DEF deleted
  <2>3. /\ row' = [u \in Tasks \cup {Workspace} |-> IF u \in deleted THEN "gone" ELSE row[u]]
        /\ space' = space \ deleted
        /\ lost' = lost \cup {u \in deleted : u \notin space \/ loop[u] = "running"}
        /\ loop' = [u \in Tasks |-> IF u \in deleted THEN "none" ELSE loop[u]]
        /\ UNCHANGED <<stranded, gen, creation, gate, del>>
    BY <1>4 DEF CleansUp, deleted
  <2> QED
    BY <2>1, <2>2, <2>3 DEF Types
<1>5. ASSUME NEW t \in Tasks, ToolPuts(t)
      PROVE  Types'
  BY <1>5 DEF ToolPuts, Materialise, Types
<1>6. ASSUME NEW t \in Tasks, NEW u \in Tasks, ToolDelegates(t, u) \/ ToolForks(t, u) \/ UserForks(t, u)
      PROVE  Types'
  BY <1>6 DEF ToolDelegates, ToolForks, UserForks, Fork, Enters, Types
<1>7. ASSUME NEW d \in Deleters, DelCollects(d)
      PROVE  Types'
  BY <1>7, CollectsEffect DEF DelCollects, Only, Types
<1>8. ASSUME NEW d \in Deleters, DelStopped(d)
      PROVE  Types'
  <2>1. loop' \in [Tasks -> {"none", "running", "stopped"}]
    BY <1>8 DEF DelStopped, Types
  <2> QED
    BY <1>8, <2>1, StoppedEffect DEF DelStopped, Only, Types
<1>9. ASSUME NEW d \in Deleters, NEW t \in Tasks, DelStops(d, t)
      PROVE  Types'
  BY <1>9, StopsEffect DEF DelStops, Only, Types
<1>10. ASSUME NEW d \in Deleters, NEW t \in Tasks, DelFinalises(d, t)
       PROVE  Types'
  <2>1. Only(d) /\ gate' \in Deleters \cup {NoTask} /\ stranded' \subseteq Tasks
    BY <1>10, FinalisesEffect, EndsEffect DEF Types
  <2> QED
    BY <1>10, <2>1 DEF DelFinalises, Unload, Only, Types
<1>11. ASSUME NEW d \in Deleters, DelRefused(d) \/ DelFailsInside(d)
       PROVE  Types'
  <2>1. /\ UNCHANGED <<row, origin, space, lost, loop, gen, creation>>
        /\ gate' \in Deleters \cup {NoTask}
        /\ Fails(d)
    BY <1>11 DEF DelRefused, DelFailsInside, Types
  <2>2. Only(d) /\ stranded' \subseteq Tasks
    BY <2>1, RollsBackNext, EndsEffect, RequestFields DEF Types
  <2> QED
    BY <2>1, <2>2 DEF Only, Types
<1>12. ASSUME NEW d \in Deleters, DelTakesGate(d)
       PROVE  Types'
  BY <1>12, TakesGateEffect DEF DelTakesGate, Only, Types
<1>13. ASSUME NEW d \in Deleters, DelCommits(d)
       PROVE  Types'
  <2>1. /\ row' \in [Tasks \cup {Workspace} -> {"absent", "live", "gone"}]
        /\ Only(d)
    BY <1>13, CommitsEffect DEF Types
  <2>2. origin' \in [Tasks -> Tasks \cup {NoTask}]
    <3>1. ForkSource(del[d].root, Targets(d)) \in Tasks \cup {NoTask}
      BY <1>13 DEF StagesKept, StageKept, DelCommits, ForkSource, Types
    <3> QED
      BY <1>13, <3>1, CommitsEffect DEF Reparented, Types
  <2> QED
    BY <1>13, <2>1, <2>2 DEF DelCommits, Only, Types
<1>14. ASSUME NEW d \in Deleters, DelEnds(d)
       PROVE  Types'
  BY <1>14, EndsEffect DEF DelEnds, Only, Types
<1>15. ASSUME NEW d \in Deleters, DelRollsBack(d)
       PROVE  Types'
  <2> DEFINE ts == Stopped(del[d].stopped)
  <2>1. ts \subseteq Tasks
    BY DEF Stopped, Types
  <2>2. Only(d) /\ stranded' \subseteq Tasks
    BY <1>15, EndsEffect DEF DelRollsBack, Types
  <2>3. /\ loop' = [t \in Tasks |-> IF t \in ts THEN "running" ELSE loop[t]]
        /\ lost' = lost \cup {t \in ts : loop[t] = "running"}
        /\ gen' = [t \in Tasks |-> IF t \in ts THEN gen[t] + 1 ELSE gen[t]]
        /\ UNCHANGED <<row, origin, space, creation, gate>>
    BY <1>15 DEF DelRollsBack, Restart
  <2> HIDE DEF ts
  <2>4. loop' \in [Tasks -> {"none", "running", "stopped"}]
    BY <2>3 DEF Types
  <2>5. gen' \in [Tasks -> Nat]
    <3>1. \A t \in Tasks : gen[t] \in Nat
      BY DEF Types
    <3>2. \A t \in Tasks : gen[t] + 1 \in Nat
      BY <3>1
    <3> QED
      BY <2>3, <3>1, <3>2
  <2> QED
    BY <2>1, <2>2, <2>3, <2>4, <2>5 DEF Only, Types
<1>16. ASSUME NEW d \in Deleters, DelAbandoned(d)
       PROVE  Types'
  <2>1. Only(d) /\ stranded' \subseteq Tasks
    <3>1. CASE UNCHANGED stranded /\ Only(d)
      BY <3>1 DEF Types
    <3>2. CASE Ends(d, del[d].stopped \cup (del[d].found \ del[d].left))
      BY <3>2, EndsEffect, RequestFields DEF Types
    <3> QED
      BY <1>16, <3>1, <3>2, AbandonedEffect
  <2> QED
    BY <1>16, <2>1 DEF DelAbandoned, Only, Types
<1>17. ASSUME NEW d \in Deleters, NEW root \in Tasks \cup {Workspace}, NEW forks \in SUBSET Tasks,
              DelBegins(d, root, forks)
       PROVE  Types'
  BY <1>17, BeginsEffect DEF DelBegins, Only, Types
<1> QED
  BY <1>1, <1>2, <1>3, <1>4, <1>5, <1>6, <1>7, <1>8, <1>9, <1>10, <1>11, <1>12, <1>13,
     <1>14, <1>15, <1>16, <1>17
  DEF DeletionNext, Works, Deletes

-----------------------------------------------------------------------------
(* One loop per Task: a rollback replaces only loops that are stopped, and *)
(* only what is deleted loses its loop.                                    *)
LEMMA LoopKept ==
  ASSUME LoopInv, NEW d \in Deleters, Only(d), Gone \subseteq Gone', lost' \subseteq Gone',
         del'[d].at = "finalize" => del'[d].left \subseteq Gone'
  PROVE  LoopInv'
  BY DEF LoopInv, Only

LEMMA LoopNext ==
  ASSUME Types, StagesKept, LoopInv, [DeletionNext]_deletionVars
  PROVE  LoopInv'
<1> USE DEF rows, actors
<1>0. ASSUME Gone \subseteq Gone', UNCHANGED <<lost, del>>
      PROVE  LoopInv'
  BY <1>0 DEF LoopInv
<1>1. CASE UNCHANGED deletionVars
  BY <1>1, <1>0 DEF deletionVars, Gone
<1>2. ASSUME NEW t \in Tasks, Visit(t) \/ UserSends(t) \/ ActorStarts(t) \/ ActorEnds(t) \/ ToolPuts(t)
      PROVE  LoopInv'
  <2>1. UNCHANGED <<row, lost, del>>
    BY <1>2 DEF Visit, UserSends, ActorStarts, ActorEnds, ToolPuts
  <2> QED
    BY <2>1, <1>0 DEF Gone
<1>3. ASSUME NEW t \in Tasks, Enters(t), UNCHANGED <<lost, del>>
      PROVE  LoopInv'
  <2>1. Gone \subseteq Gone'
    BY <1>3 DEF Enters, Gone, Types
  <2> QED
    BY <1>3, <2>1, <1>0
<1>4. ASSUME NEW t \in Tasks, UserCreates(t)
      PROVE  LoopInv'
  BY <1>4, <1>3 DEF UserCreates
<1>5. ASSUME NEW t \in Tasks, NEW u \in Tasks, ToolDelegates(t, u) \/ ToolForks(t, u) \/ UserForks(t, u)
      PROVE  LoopInv'
  BY <1>5, <1>3 DEF ToolDelegates, ToolForks, UserForks, Fork
<1>6. ASSUME NEW t \in Tasks, CleansUp(t)
      PROVE  LoopInv'
  <2> DEFINE deleted == Trees({t})
  <2>1. deleted \subseteq Tasks
    BY TreesClosed
  <2>2. /\ row' = [u \in Tasks \cup {Workspace} |-> IF u \in deleted THEN "gone" ELSE row[u]]
        /\ lost' \subseteq lost \cup deleted
        /\ UNCHANGED del
    BY <1>6 DEF CleansUp
  <2> HIDE DEF deleted
  <2>3. Gone \subseteq Gone' /\ deleted \subseteq Gone'
    BY <2>1, <2>2 DEF Gone
  <2> QED
    BY <2>2, <2>3 DEF LoopInv
<1>7. ASSUME NEW d \in Deleters, DelCollects(d)
      PROVE  LoopInv'
  BY <1>7, CollectsEffect, LoopKept DEF DelCollects, LoopInv, Gone
<1>8. ASSUME NEW d \in Deleters, DelStopped(d)
      PROVE  LoopInv'
  BY <1>8, StoppedEffect, LoopKept DEF DelStopped, LoopInv, Gone
<1>9. ASSUME NEW d \in Deleters, NEW t \in Tasks, DelStops(d, t)
      PROVE  LoopInv'
  BY <1>9, StopsEffect, LoopKept DEF DelStops, LoopInv, Gone
<1>10. ASSUME NEW d \in Deleters, NEW t \in Tasks, DelFinalises(d, t)
       PROVE  LoopInv'
  <2>1. UNCHANGED row /\ del[d].at = "finalize" /\ t \in del[d].left /\ lost' \subseteq lost \cup {t}
    BY <1>10 DEF DelFinalises, Unload
  <2>2. UNCHANGED Gone /\ lost' \subseteq Gone' /\ del[d].left \subseteq Gone'
    BY <2>1 DEF LoopInv, Gone
  <2>3. Only(d) /\ (del'[d].at = "finalize" => del'[d].left \subseteq del[d].left)
    BY <1>10, FinalisesEffect, EndsEffect
  <2> QED
    BY <2>2, <2>3, LoopKept
<1>11. ASSUME NEW d \in Deleters, DelRefused(d) \/ DelFailsInside(d)
       PROVE  LoopInv'
  <2>1. UNCHANGED <<row, lost>> /\ Fails(d)
    BY <1>11 DEF DelRefused, DelFailsInside
  <2>2. Only(d) /\ del'[d].at # "finalize"
    BY <2>1, RollsBackNext, EndsEffect
  <2> QED
    BY <2>1, <2>2, LoopKept DEF LoopInv, Gone
<1>12. ASSUME NEW d \in Deleters, DelTakesGate(d)
       PROVE  LoopInv'
  BY <1>12, TakesGateEffect, LoopKept DEF DelTakesGate, LoopInv, Gone
<1>13. ASSUME NEW d \in Deleters, DelCommits(d)
       PROVE  LoopInv'
  <2>1. /\ Only(d) /\ del'[d].left = Targets(d) /\ Targets(d) \subseteq Tasks
        /\ row' = [t \in Tasks \cup {Workspace} |->
                     IF t \in Targets(d) \cup {del[d].root} THEN "gone" ELSE row[t]]
    BY <1>13, CommitsEffect DEF Live
  <2>2. Gone \subseteq Gone' /\ Targets(d) \subseteq Gone'
    BY <2>1 DEF Gone
  <2>3. UNCHANGED lost
    BY <1>13 DEF DelCommits
  <2>4. lost' \subseteq Gone'
    BY <2>2, <2>3 DEF LoopInv
  <2> QED
    BY <2>1, <2>2, <2>4, LoopKept
<1>14. ASSUME NEW d \in Deleters, DelEnds(d)
       PROVE  LoopInv'
  BY <1>14, EndsEffect, LoopKept DEF DelEnds, LoopInv, Gone
<1>15. ASSUME NEW d \in Deleters, DelRollsBack(d)
       PROVE  LoopInv'
  <2>1. UNCHANGED <<row, lost>>
    BY <1>15 DEF DelRollsBack, Restart, Stopped
  <2>2. Only(d) /\ del'[d].at = "done"
    BY <1>15, EndsEffect DEF DelRollsBack
  <2> QED
    BY <2>1, <2>2, LoopKept DEF LoopInv, Gone
<1>16. ASSUME NEW d \in Deleters, DelAbandoned(d)
       PROVE  LoopInv'
  <2>1. UNCHANGED <<row, lost>>
    BY <1>16 DEF DelAbandoned
  <2>2. Only(d) /\ del'[d].at # "finalize"
    BY <1>16, AbandonedEffect, EndsEffect
  <2> QED
    BY <2>1, <2>2, LoopKept DEF LoopInv, Gone
<1>17. ASSUME NEW d \in Deleters, NEW root \in Tasks \cup {Workspace}, NEW forks \in SUBSET Tasks,
              DelBegins(d, root, forks)
       PROVE  LoopInv'
  BY <1>17, BeginsEffect, LoopKept DEF DelBegins, LoopInv, Gone
<1> QED
  BY <1>1, <1>2, <1>4, <1>5, <1>6, <1>7, <1>8, <1>9, <1>10, <1>11, <1>12, <1>13,
     <1>14, <1>15, <1>16, <1>17
  DEF DeletionNext, Works, Deletes


-----------------------------------------------------------------------------
(* The tree stays whole.                                                   *)
Known(d) ==
  del[d].stopped \cup del[d].found \cup del[d].left \cup del[d].forks \cup {del[d].root}

LEMMA AbsentKept ==
  ASSUME AbsentIsUnknown, Absent' \subseteq Absent,
         space' \cap Absent = {},
         \A t \in Absent' : origin'[t] = NoTask,
         \A t \in Tasks : creation'[t] \notin Absent',
         \A d \in Deleters : del'[d] = del[d] \/ Absent \cap Known(d)' = {}
  PROVE  AbsentIsUnknown'
  BY DEF AbsentIsUnknown, Known

LEMMA TreeInit == DeletionInit => TreeInv
<1> SUFFICES ASSUME DeletionInit PROVE TreeInv
  OBVIOUS
<1>1. Live = Born
  BY TopologyAssumption DEF DeletionInit, Live, Exists, TopologyAssumption
<1>2. TreeStaysWhole
  BY <1>1, TopologyAssumption DEF DeletionInit, TreeStaysWhole, TopologyAssumption
<1>3. \A d \in Deleters : Known(d) = {NoTask}
  BY NoRequestTyped DEF DeletionInit, Known, Stages
<1>4. NoTask \notin Absent
  BY TopologyAssumption DEF TopologyAssumption, Absent
<1>5. Absent \cap space = {} /\ \A t \in Absent : origin[t] = NoTask
  BY DEF DeletionInit, Absent
<1>6. \A t \in Tasks : creation[t] \notin Absent
  BY <1>4 DEF DeletionInit
<1> QED
  BY <1>2, <1>3, <1>4, <1>5, <1>6 DEF TreeInv, AbsentIsUnknown, Known

(* A step that leaves rows and forks alone. *)
LEMMA TreeStill ==
  ASSUME TreeInv, UNCHANGED <<row, origin>>,
         space' \subseteq space \cup Live,
         \A t \in Tasks : creation'[t] \in {creation[t], NoTask},
         \A d \in Deleters : del'[d] = del[d] \/ Absent \cap Known(d)' = {}
  PROVE  TreeInv'
<1>1. Absent' = Absent /\ Live' = Live /\ Live \cap Absent = {} /\ NoTask \notin Absent
  BY TopologyAssumption DEF Absent, Live, Exists, TopologyAssumption
<1>2. AbsentIsUnknown'
  BY <1>1, AbsentKept DEF TreeInv, AbsentIsUnknown
<1>3. TreeStaysWhole'
  BY <1>1 DEF TreeInv, TreeStaysWhole
<1> QED
  BY <1>2, <1>3 DEF TreeInv

(* A Task enters: below a Task that lives, or as a fork of one. *)
LEMMA TreeGrows ==
  ASSUME Types, TreeInv, NEW t \in Tasks, Enters(t), UNCHANGED <<space, del>>,
         Owner[t] \in Live \cup {NoTask},
         NEW source \in Live \cup {NoTask}, origin' = [origin EXCEPT ![t] = source],
         \A u \in Tasks : creation'[u] \in {creation[u], t}
  PROVE  TreeInv'
<1>1. /\ Absent' = Absent \ {t} /\ Live' = Live \cup {t}
      /\ t \in Absent /\ t \notin Live /\ t # NoTask
  BY TopologyAssumption DEF Enters, Absent, Live, Exists, Types, TopologyAssumption
<1>2. AbsentIsUnknown'
  BY <1>1, AbsentKept DEF TreeInv, AbsentIsUnknown, Types
<1>3. ASSUME NEW u \in Live'
      PROVE  /\ Owner[u] # NoTask => Owner[u] \in Live'
             /\ origin'[u] # NoTask => origin'[u] \in Live'
  BY <1>1, <1>3 DEF TreeInv, TreeStaysWhole, Types, Live
<1> QED
  BY <1>2, <1>3 DEF TreeInv, TreeStaysWhole

(* Tasks are removed with all below them, and their forks are hung on what  *)
(* the root was a fork of.                                                  *)
LEMMA TreeShrinks ==
  ASSUME Types, TreeInv, NEW root \in Tasks \cup {Workspace}, Exists(root),
         NEW deleted \in SUBSET Tasks, \A u \in deleted : Children(u) \subseteq deleted,
         Live' = Live \ deleted, Absent' = Absent \ deleted,
         origin' = Reparented(root, deleted),
         space' \subseteq space, UNCHANGED creation,
         \A d \in Deleters : del'[d] = del[d] \/ Absent \cap Known(d)' = {}
  PROVE  TreeInv'
<1>1. NoTask \notin Tasks
  BY TopologyAssumption DEF TopologyAssumption
<1>2. AbsentIsUnknown'
  <2>1. \A t \in Absent' : origin'[t] = NoTask
    BY <1>1 DEF TreeInv, AbsentIsUnknown, Reparented, Absent
  <2> QED
    BY <2>1, AbsentKept DEF TreeInv, AbsentIsUnknown
<1>3. ForkSource(root, deleted) = NoTask \/ ForkSource(root, deleted) \in Live \ deleted
  BY DEF ForkSource, TreeInv, TreeStaysWhole, Live
<1>4. ASSUME NEW u \in Live'
      PROVE  Owner[u] # NoTask => Owner[u] \in Live'
  BY <1>4 DEF TreeInv, TreeStaysWhole, Children
<1>5. ASSUME NEW u \in Live'
      PROVE  origin'[u] # NoTask => origin'[u] \in Live'
  <2>1. u \in Live /\ u \in Tasks /\ u \notin deleted
    BY <1>5 DEF Live
  <2>2. origin'[u] = IF origin[u] \in deleted THEN ForkSource(root, deleted) ELSE origin[u]
    BY <2>1 DEF Reparented
  <2> QED
    BY <1>3, <2>1, <2>2 DEF TreeInv, TreeStaysWhole
<1> QED
  BY <1>2, <1>4, <1>5 DEF TreeInv, TreeStaysWhole

LEMMA TreeNext ==
  ASSUME Types, StagesKept, TreeInv, [DeletionNext]_deletionVars
  PROVE  TreeInv'
<1> USE DEF rows, actors
<1>1. CASE UNCHANGED deletionVars
  BY <1>1, TreeStill DEF deletionVars
<1>2. ASSUME NEW t \in Tasks, Visit(t) \/ UserSends(t)
      PROVE  TreeInv'
  <2>1. space' \subseteq space \cup Live /\ UNCHANGED <<row, origin, creation, del>>
    BY <1>2 DEF Visit, UserSends, CanMaterialise, Materialise
  <2> QED
    BY <2>1, TreeStill
<1>3. ASSUME NEW t \in Tasks, ActorStarts(t) \/ ActorEnds(t)
      PROVE  TreeInv'
  <2>1. UNCHANGED <<row, origin, space, creation, del>>
    BY <1>3 DEF ActorStarts, ActorEnds
  <2> QED
    BY <2>1, TreeStill
<1>4. ASSUME NEW t \in Tasks, ToolPuts(t)
      PROVE  TreeInv'
  <2>1. space' \subseteq space \cup Live /\ UNCHANGED <<row, origin, del>>
    BY <1>4 DEF ToolPuts, Materialise
  <2>2. \A u \in Tasks : creation'[u] \in {creation[u], NoTask}
    BY <1>4 DEF ToolPuts, Types
  <2> QED
    BY <2>1, <2>2, TreeStill
<1>5. ASSUME NEW t \in Tasks, UserCreates(t)
      PROVE  TreeInv'
  <2>1. origin[t] = NoTask
    BY <1>5 DEF UserCreates, Enters, TreeInv, AbsentIsUnknown, Absent
  <2>2. origin' = [origin EXCEPT ![t] = NoTask]
    BY <1>5, <2>1 DEF UserCreates, Types
  <2> QED
    BY <1>5, <2>2, TreeGrows DEF UserCreates, UserFacing
<1>6. ASSUME NEW t \in Tasks, NEW u \in Tasks, ToolDelegates(t, u)
      PROVE  TreeInv'
  <2>1. origin[u] = NoTask
    BY <1>6 DEF ToolDelegates, Enters, TreeInv, AbsentIsUnknown, Absent
  <2>2. origin' = [origin EXCEPT ![u] = NoTask]
    BY <1>6, <2>1 DEF ToolDelegates, Types
  <2>3. \A v \in Tasks : creation'[v] \in {creation[v], u}
    BY <1>6 DEF ToolDelegates, Types
  <2> QED
    BY <1>6, <2>2, <2>3, TreeGrows DEF ToolDelegates
<1>7. ASSUME NEW t \in Tasks, NEW u \in Tasks, ToolForks(t, u)
      PROVE  TreeInv'
  <2>1. \A v \in Tasks : creation'[v] \in {creation[v], u}
    BY <1>7 DEF ToolForks, Types
  <2> QED
    BY <1>7, <2>1, TreeGrows DEF ToolForks, Fork, UserFacing
<1>8. ASSUME NEW t \in Tasks, NEW u \in Tasks, UserForks(t, u)
      PROVE  TreeInv'
  BY <1>8, TreeGrows DEF UserForks, Fork, UserFacing
<1>9. ASSUME NEW t \in Tasks, CleansUp(t)
      PROVE  TreeInv'
  <2> DEFINE deleted == Trees({t})
  <2>1. /\ deleted \subseteq Tasks /\ Exists(t)
        /\ \A u \in deleted : Children(u) \subseteq deleted
    BY <1>9, TreesClosed DEF CleansUp, Live
  <2>2. /\ row' = [u \in Tasks \cup {Workspace} |-> IF u \in deleted THEN "gone" ELSE row[u]]
        /\ origin' = Reparented(t, deleted)
        /\ space' \subseteq space
        /\ UNCHANGED <<creation, del>>
    BY <1>9 DEF CleansUp
  <2> HIDE DEF deleted
  <2>3. Live' = Live \ deleted /\ Absent' = Absent \ deleted
    BY <2>1, <2>2 DEF Live, Exists, Absent
  <2> QED
    BY <2>1, <2>2, <2>3, TreeShrinks
<1>a. ASSUME NEW d \in Deleters, Only(d), Absent \cap Known(d)' = {},
             UNCHANGED <<row, origin, creation>>, space' \subseteq space
      PROVE  TreeInv'
  BY <1>a, TreeStill DEF Only
<1>b. \A d \in Deleters : Absent \cap Known(d) = {}
  BY DEF TreeInv, AbsentIsUnknown, Known
<1>c. ASSUME NEW d \in Deleters, NEW left, Ends(d, left)
      PROVE  Only(d) /\ Absent \cap Known(d)' = {}
  <2>1. Known(d)' = {NoTask}
    BY <1>c, EndsEffect, NoRequestTyped DEF Known, Stages
  <2> QED
    BY <1>c, <2>1, EndsEffect, TopologyAssumption DEF TopologyAssumption, Absent
<1>10. ASSUME NEW d \in Deleters, DelCollects(d)
       PROVE  TreeInv'
  <2>1. Targets(d) \cap Absent = {}
    BY <1>10, <1>b, TargetsTyped DEF DelCollects, StagesKept, StageKept, Known
  <2>2. Absent \cap Known(d)' = {}
    BY <1>10, <1>b, <2>1, CollectsEffect DEF Known, Same
  <2> QED
    BY <1>10, <1>a, <2>2, CollectsEffect DEF DelCollects
<1>11. ASSUME NEW d \in Deleters, DelStopped(d)
       PROVE  TreeInv'
  <2>1. Absent \cap Known(d)' = {}
    BY <1>11, <1>b, StoppedEffect DEF Known, Same
  <2> QED
    BY <1>11, <1>a, <2>1, StoppedEffect DEF DelStopped
<1>12. ASSUME NEW d \in Deleters, NEW t \in Tasks, DelStops(d, t)
       PROVE  TreeInv'
  <2>1. Absent \cap Known(d)' = {}
    BY <1>12, <1>b, StopsEffect DEF Known, Same
  <2> QED
    BY <1>12, <1>a, <2>1, StopsEffect DEF DelStops
<1>13. ASSUME NEW d \in Deleters, NEW t \in Tasks, DelFinalises(d, t)
       PROVE  TreeInv'
  <2>1. Only(d) /\ Absent \cap Known(d)' = {}
    BY <1>13, <1>b, <1>c, FinalisesEffect DEF Known, Same
  <2> QED
    BY <1>13, <1>a, <2>1 DEF DelFinalises, Unload
<1>14. ASSUME NEW d \in Deleters, DelRefused(d) \/ DelFailsInside(d)
       PROVE  TreeInv'
  <2>1. UNCHANGED <<row, origin, creation, space>> /\ Fails(d)
    BY <1>14 DEF DelRefused, DelFailsInside
  <2>2. Only(d) /\ Absent \cap Known(d)' = {}
    BY <2>1, <1>b, <1>c, RollsBackNext DEF Known, Same
  <2> QED
    BY <1>a, <2>1, <2>2
<1>15. ASSUME NEW d \in Deleters, DelTakesGate(d)
       PROVE  TreeInv'
  <2>1. Absent \cap Known(d)' = {}
    BY <1>15, <1>b, TakesGateEffect DEF Known, Same
  <2> QED
    BY <1>15, <1>a, <2>1, TakesGateEffect DEF DelTakesGate
<1>16. ASSUME NEW d \in Deleters, DelCommits(d)
       PROVE  TreeInv'
  <2> DEFINE root == del[d].root
             deleted == Targets(d)
  <2>1. /\ root \in Tasks \cup {Workspace} /\ Exists(root)
        /\ deleted \subseteq Live
    BY <1>16 DEF DelCommits, StagesKept, StageKept
  <2>2. \A u \in deleted : Children(u) \subseteq deleted
    <3>1. CASE root = Workspace
      BY <3>1 DEF Targets, Children
    <3>2. CASE root # Workspace
      <4>1. {root} \cup del[d].forks \in SUBSET Tasks
        BY <2>1, <3>2, RequestFields
      <4> QED
        BY <3>2, <4>1, TreesClosed DEF Targets
    <3> QED
      BY <3>1, <3>2
  <2>3. root \in Tasks => root \in deleted
    <3>1. ASSUME root \in Tasks
          PROVE  root \in deleted
      <4>1. {root} \cup del[d].forks \in SUBSET Tasks /\ root # Workspace
        BY <3>1, RequestFields, TopologyAssumption DEF TopologyAssumption
      <4> QED
        BY <4>1, TreesClosed DEF Targets
    <3> QED
      BY <3>1
  <2>4. Live' = Live \ deleted /\ Absent' = Absent \ deleted
    <3>1. row' = [t \in Tasks \cup {Workspace} |-> IF t \in deleted \cup {root} THEN "gone" ELSE row[t]]
      BY <1>16, CommitsEffect
    <3> HIDE DEF deleted, root
    <3>2. \A t \in Tasks : row'[t] = IF t \in deleted THEN "gone" ELSE row[t]
      BY <2>3, <3>1
    <3> QED
      BY <3>2 DEF Live, Exists, Absent
  <2>5. \A e \in Deleters : del'[e] = del[e] \/ Absent \cap Known(e)' = {}
    <3>1. Absent \cap Known(d)' = {}
      <4>1. Absent \cap Live = {}
        BY DEF Absent, Live, Exists
      <4> QED
        BY <1>16, <1>b, <2>1, <4>1, CommitsEffect DEF Known, Same
    <3> QED
      BY <1>16, <3>1, CommitsEffect DEF Only
  <2>6. origin' = Reparented(root, deleted) /\ UNCHANGED <<space, creation>>
    BY <1>16, CommitsEffect DEF DelCommits
  <2>7. deleted \in SUBSET Tasks
    BY <2>1 DEF Live
  <2> HIDE DEF root, deleted
  <2> QED
    BY <2>1, <2>2, <2>4, <2>5, <2>6, <2>7, TreeShrinks
<1>17. ASSUME NEW d \in Deleters, DelEnds(d)
       PROVE  TreeInv'
  BY <1>17, <1>a, <1>c DEF DelEnds
<1>18. ASSUME NEW d \in Deleters, DelRollsBack(d)
       PROVE  TreeInv'
  BY <1>18, <1>a, <1>c DEF DelRollsBack
<1>19. ASSUME NEW d \in Deleters, DelAbandoned(d)
       PROVE  TreeInv'
  <2>1. Only(d) /\ Absent \cap Known(d)' = {}
    BY <1>19, <1>b, <1>c, AbandonedEffect DEF Known, Same
  <2> QED
    BY <1>19, <1>a, <2>1 DEF DelAbandoned
<1>20. ASSUME NEW d \in Deleters, NEW root \in Tasks \cup {Workspace}, NEW forks \in SUBSET Tasks,
              DelBegins(d, root, forks)
       PROVE  TreeInv'
  <2>1. root \notin Absent /\ forks \cap Absent = {}
    <3>1. row[root] = "live" /\ (forks = {} \/ (root \in Tasks /\ forks = ForkDescendants(root)))
      BY <1>20 DEF DelBegins, Exists
    <3> QED
      BY <3>1, ForksLive DEF Absent, Live, Exists
  <2>2. Absent \cap Known(d)' = {}
    BY <1>20, <2>1, BeginsEffect DEF Known
  <2> QED
    BY <1>20, <1>a, <2>2, BeginsEffect DEF DelBegins
<1> QED
  BY <1>1, <1>2, <1>3, <1>4, <1>5, <1>6, <1>7, <1>8, <1>9, <1>10, <1>11, <1>12, <1>13,
     <1>14, <1>15, <1>16, <1>17, <1>18, <1>19, <1>20
  DEF DeletionNext, Works, Deletes


-----------------------------------------------------------------------------
(* What comes to life was absent: nobody stopped it before.                 *)
LEMMA LiveNext ==
  ASSUME Types, StagesKept, TreeInv, [DeletionNext]_deletionVars
  PROVE  Live' \subseteq Live \cup Absent /\ Live' \cap space \subseteq Live
<1> USE DEF rows, actors
<1>0. ASSUME Live' \subseteq Live \cup Absent
      PROVE  Live' \subseteq Live \cup Absent /\ Live' \cap space \subseteq Live
  BY <1>0 DEF TreeInv, AbsentIsUnknown
<1>1. CASE UNCHANGED row
  BY <1>1, <1>0 DEF Live, Exists
<1>2. ASSUME NEW t \in Tasks, Enters(t)
      PROVE  Live' \subseteq Live \cup Absent
  BY <1>2 DEF Enters, Live, Exists, Absent, Types
<1>3. ASSUME NEW t \in Tasks, CleansUp(t)
      PROVE  Live' \subseteq Live \cup Absent
  <2> DEFINE deleted == Trees({t})
  <2>1. row' = [u \in Tasks \cup {Workspace} |-> IF u \in deleted THEN "gone" ELSE row[u]]
    BY <1>3 DEF CleansUp
  <2> HIDE DEF deleted
  <2> QED
    BY <2>1 DEF Live, Exists
<1>4. ASSUME NEW d \in Deleters, DelCommits(d)
      PROVE  Live' \subseteq Live \cup Absent
  BY <1>4, CommitsEffect DEF Live, Exists
<1>5. \/ UNCHANGED row
      \/ \E t \in Tasks : Enters(t) \/ CleansUp(t)
      \/ \E d \in Deleters : DelCommits(d)
  <2>1. CASE UNCHANGED deletionVars
    BY <2>1 DEF deletionVars
  <2>2. ASSUME NEW t \in Tasks, Works(t)
        PROVE  UNCHANGED row \/ \E u \in Tasks : Enters(u) \/ CleansUp(u)
    <3>1. ASSUME NEW u \in Tasks, ToolDelegates(t, u) \/ ToolForks(t, u) \/ UserForks(t, u)
          PROVE  Enters(u)
      BY <3>1 DEF ToolDelegates, ToolForks, UserForks, Fork
    <3>2. ASSUME Visit(t) \/ UserSends(t) \/ ActorStarts(t) \/ ActorEnds(t) \/ ToolPuts(t)
          PROVE  UNCHANGED row
      BY <3>2 DEF Visit, UserSends, ActorStarts, ActorEnds, ToolPuts
    <3>3. UserCreates(t) => Enters(t)
      BY DEF UserCreates
    <3> QED
      BY <2>2, <3>1, <3>2, <3>3 DEF Works
  <2>3. ASSUME NEW d \in Deleters, Deletes(d) \/ DelAbandoned(d), ~DelCommits(d)
        PROVE  UNCHANGED row
    BY <2>3 DEF Deletes, DelAbandoned, DelCollects, DelStopped, DelStops, DelFinalises,
       DelRefused, DelTakesGate, DelFailsInside, DelEnds, DelRollsBack
  <2>4. ASSUME NEW d \in Deleters, NEW root \in Tasks \cup {Workspace}, NEW forks \in SUBSET Tasks,
               DelBegins(d, root, forks)
        PROVE  UNCHANGED row
    BY <2>4 DEF DelBegins
  <2> QED
    BY <2>1, <2>2, <2>3, <2>4 DEF DeletionNext
<1> QED
  BY <1>0, <1>1, <1>2, <1>3, <1>4, <1>5

(* A target that lives on stays one. *)
LEMMA TargetsNext ==
  ASSUME Types, TreeInv', NEW d \in Deleters, Same(d),
         del[d].root \in Tasks \cup {Workspace}
  PROVE  Targets(d) \cap Live' \subseteq Targets(d)'
<1>1. CASE del[d].root = Workspace
  BY <1>1 DEF Targets, Same
<1>2. CASE del[d].root # Workspace
  <2>1. PICK roots \in SUBSET Tasks : roots = {del[d].root} \cup del[d].forks
    BY <1>2, RequestFields
  <2>2. Targets(d) = Trees(roots) /\ Targets(d)' = Trees(roots)'
    BY <1>2, <2>1 DEF Targets, Same
  <2>3. Trees(roots) \cap Live' \subseteq Trees(roots)'
    BY TreesKept DEF TreeInv
  <2> QED
    BY <2>2, <2>3
<1> QED
  BY <1>1, <1>2


-----------------------------------------------------------------------------
(* The survivors. *)
LEMMA OthersTargeted ==
  ASSUME Types, StagesKept, TreeInv, TreeInv', StoppedIsTargeted, [DeletionNext]_deletionVars,
         NEW d \in Deleters, Same(d),
         del'[d].at = del[d].at \/ del'[d].at \in {"collect", "stop", "await", "delete", "commit"},
         del[d].at \in {"collect", "stop", "await", "delete", "commit", "finalize"},
         del[d].at = "finalize" => del'[d].at = "finalize",
         del'[d].stopped \cup del'[d].found \subseteq del[d].stopped \cup del[d].found,
         del[d].at = "finalize" => del'[d].stopped \subseteq del[d].stopped
  PROVE  StoppedTargeted(d)'
<1>1. Live' \subseteq Live \cup Absent
  BY LiveNext
<1>2. Absent \cap (del[d].stopped \cup del[d].found) = {}
  BY DEF TreeInv, AbsentIsUnknown
<1>3. Targets(d) \cap Live' \subseteq Targets(d)'
  BY TargetsNext DEF StagesKept, StageKept
<1> QED
  BY <1>1, <1>2, <1>3 DEF StoppedIsTargeted, StoppedTargeted

(* A request that no longer stops and has not committed has nothing to show. *)
LEMMA NothingTargeted ==
  ASSUME NEW d \in Deleters, del'[d].at \in {"idle", "rollback", "done"}
  PROVE  StoppedTargeted(d)'
  BY DEF StoppedTargeted

LEMMA OthersStill ==
  ASSUME Types, StagesKept, TreeInv, TreeInv', StoppedIsTargeted, [DeletionNext]_deletionVars,
         NEW d \in Deleters, del'[d] = del[d]
  PROVE  StageKept(d)' /\ StoppedTargeted(d)' /\ Handled(d)' = Handled(d)
<1>1. StageKept(d)' /\ Handled(d)' = Handled(d)
  BY DEF StagesKept, StageKept, Handled
<1>2. CASE del[d].at \in {"collect", "stop", "await", "delete", "commit", "finalize"}
  BY <1>1, <1>2, OthersTargeted DEF Same
<1>3. CASE del[d].at \in {"idle", "rollback", "done"}
  BY <1>1, <1>3, NothingTargeted
<1> QED
  BY <1>1, <1>2, <1>3, RequestFields DEF Stages

LEMMA SurvivorStill ==
  ASSUME Types, TreeInv, TreeInv', SurvivorInv, [DeletionNext]_deletionVars,
         UNCHANGED <<stranded, del>>,
         \A t \in Tasks : t \in space' /\ loop'[t] = "stopped" => t \in space /\ loop[t] = "stopped"
  PROVE  SurvivorInv'
<1>1. \A d \in Deleters : StageKept(d)' /\ StoppedTargeted(d)' /\ Handled(d)' = Handled(d)
  BY OthersStill DEF SurvivorInv
<1>2. Live' \cap space \subseteq Live /\ Live' \subseteq Tasks
  BY LiveNext DEF SurvivorInv, Live
<1>3. StopIsOwned'
  BY <1>1, <1>2 DEF SurvivorInv, StopIsOwned
<1> QED
  BY <1>1, <1>3 DEF SurvivorInv, StagesKept, StoppedIsTargeted

LEMMA SurvivorMoves ==
  ASSUME Types, TreeInv, TreeInv', SurvivorInv, [DeletionNext]_deletionVars,
         NEW d \in Deleters, Only(d), StageKept(d)', StoppedTargeted(d)',
         space' \subseteq space, stranded \subseteq stranded',
         \A t \in Live \cap Live' \cap space' : loop'[t] = "stopped" =>
            \/ t \in Handled(d)' \cup stranded'
            \/ loop[t] = "stopped" /\ t \notin Handled(d)
  PROVE  SurvivorInv'
<1>1. \A e \in Deleters \ {d} : StageKept(e)' /\ StoppedTargeted(e)' /\ Handled(e)' = Handled(e)
  BY OthersStill DEF SurvivorInv, Only
<1>2. Live' \cap space \subseteq Live
  BY LiveNext DEF SurvivorInv
<1>3. ASSUME NEW t \in Live' \cap space', loop'[t] = "stopped"
      PROVE  t \in stranded' \/ \E e \in Deleters : t \in Handled(e)'
  <2>1. t \in Live \cap Live' \cap space'
    BY <1>2
  <2>2. CASE t \in Handled(d)' \cup stranded'
    BY <2>2
  <2>3. CASE loop[t] = "stopped" /\ t \notin Handled(d)
    <3>1. t \in stranded \/ \E e \in Deleters : t \in Handled(e)
      BY <2>1, <2>3 DEF SurvivorInv, StopIsOwned
    <3> QED
      BY <1>1, <2>3, <3>1
  <2> QED
    BY <1>3, <2>1, <2>2, <2>3
<1>4. StopIsOwned'
  BY <1>3 DEF StopIsOwned
<1> QED
  BY <1>1, <1>4 DEF SurvivorInv, StagesKept, StoppedIsTargeted

LEMMA SurvivorNext ==
  ASSUME Types, TreeInv, TreeInv', SurvivorInv, [DeletionNext]_deletionVars
  PROVE  SurvivorInv'
<1> USE DEF rows, actors
<1>0. StagesKept /\ StoppedIsTargeted /\ \A t \in Live : t \in Tasks
  BY DEF SurvivorInv, Live
<1>1. CASE UNCHANGED deletionVars
  BY <1>1, SurvivorStill DEF deletionVars
<1>2. ASSUME NEW t \in Tasks, Visit(t) \/ UserSends(t)
      PROVE  SurvivorInv'
  <2>1. Materialise({t}) /\ UNCHANGED <<stranded, del>>
    BY <1>2 DEF Visit, UserSends
  <2> QED
    BY <2>1, SurvivorStill DEF Materialise
<1>3. ASSUME NEW t \in Tasks, UserCreates(t) \/ ActorStarts(t) \/ ActorEnds(t)
      PROVE  SurvivorInv'
  <2>1. UNCHANGED <<space, loop, stranded, del>>
    BY <1>3 DEF UserCreates, ActorStarts, ActorEnds
  <2> QED
    BY <2>1, SurvivorStill
<1>4. ASSUME NEW t \in Tasks, ToolPuts(t)
      PROVE  SurvivorInv'
  <2>1. UNCHANGED <<stranded, del>>
    BY <1>4 DEF ToolPuts
  <2>2. UNCHANGED <<space, loop>> \/ Materialise({creation[t]})
    BY <1>4 DEF ToolPuts
  <2> QED
    BY <2>1, <2>2, SurvivorStill DEF Materialise
<1>5. ASSUME NEW t \in Tasks, NEW u \in Tasks, ToolDelegates(t, u) \/ ToolForks(t, u) \/ UserForks(t, u)
      PROVE  SurvivorInv'
  <2>1. UNCHANGED <<space, loop, stranded, del>>
    BY <1>5 DEF ToolDelegates, ToolForks, UserForks
  <2> QED
    BY <2>1, SurvivorStill
<1>6. ASSUME NEW t \in Tasks, CleansUp(t)
      PROVE  SurvivorInv'
  <2> DEFINE deleted == Trees({t})
  <2>1. /\ space' = space \ deleted
        /\ loop' = [u \in Tasks |-> IF u \in deleted THEN "none" ELSE loop[u]]
        /\ UNCHANGED <<stranded, del>>
    BY <1>6 DEF CleansUp
  <2> HIDE DEF deleted
  <2> QED
    BY <2>1, SurvivorStill
<1>7. ASSUME NEW d \in Deleters, DelCollects(d)
      PROVE  SurvivorInv'
  <2>1. /\ Only(d) /\ Same(d) /\ UNCHANGED <<row, origin, space, loop, stranded>>
        /\ del[d].at \in {"collect", "stop"} /\ del[d].left = {}
    BY <1>7, <1>0, CollectsEffect DEF DelCollects, StagesKept, StageKept
  <2>2. StageKept(d)'
    BY <1>7, <1>0, <2>1, CollectsEffect DEF StagesKept, StageKept, Same
  <2>3. Targets(d)' = Targets(d) /\ Live' = Live
    BY <2>1 DEF Targets, Same, Live, Exists, Trees, Closure, Children
  <2>4. StoppedTargeted(d)'
    BY <1>7, <1>0, <2>1, <2>3, CollectsEffect DEF StoppedIsTargeted, StoppedTargeted
  <2>5. Handled(d) \subseteq Handled(d)'
    BY <1>7, <1>0, <2>1, CollectsEffect DEF Handled
  <2> QED
    BY <2>1, <2>2, <2>4, <2>5, SurvivorMoves
<1>8. ASSUME NEW d \in Deleters, DelStopped(d)
      PROVE  SurvivorInv'
  <2>1. /\ Only(d) /\ Same(d) /\ UNCHANGED <<row, origin, space, stranded>>
        /\ del[d].at = "await" /\ del[d].task \in Handled(d)
    BY <1>8, <1>0, StoppedEffect DEF DelStopped, StagesKept, StageKept
  <2>2. Handled(d)' = Handled(d)
    BY <1>8, StoppedEffect DEF Handled
  <2>3. StageKept(d)'
    BY <1>8, <1>0, <2>1, StoppedEffect DEF StagesKept, StageKept, Same
  <2>4. StoppedTargeted(d)'
    BY <1>8, <1>0, <2>1, StoppedEffect, OthersTargeted
  <2>5. \A t \in Tasks : loop'[t] = "stopped" => loop[t] = "stopped" \/ t = del[d].task
    BY <1>8 DEF DelStopped, Types
  <2> QED
    BY <1>0, <2>1, <2>2, <2>3, <2>4, <2>5, SurvivorMoves
<1>9. ASSUME NEW d \in Deleters, NEW t \in Tasks, DelStops(d, t)
      PROVE  SurvivorInv'
  <2>1. /\ Only(d) /\ Same(d) /\ UNCHANGED <<row, origin, space, loop, stranded>>
        /\ del[d].at = "stop" /\ t \in del[d].left
    BY <1>9, StopsEffect DEF DelStops
  <2>2. Handled(d) \subseteq Handled(d)'
    BY <1>9, StopsEffect DEF Handled
  <2>3. StageKept(d)'
    <3>1. CASE t \in space
      BY <1>9, <1>0, <2>1, <3>1, StopsEffect DEF StagesKept, StageKept, Same, Handled
    <3>2. CASE t \notin space
      BY <1>9, <1>0, <2>1, <3>2, StopsEffect DEF StagesKept, StageKept, Same, Handled
    <3> QED
      BY <3>1, <3>2
  <2>4. StoppedTargeted(d)'
    BY <1>9, <1>0, <2>1, StopsEffect, OthersTargeted
  <2> QED
    BY <2>1, <2>2, <2>3, <2>4, SurvivorMoves
<1>10. ASSUME NEW d \in Deleters, NEW t \in Tasks, DelFinalises(d, t)
       PROVE  SurvivorInv'
  <2>1. /\ space' \subseteq space /\ UNCHANGED <<row, origin>>
        /\ del[d].at = "finalize" /\ del[d].found = {} /\ Live \cap del[d].stopped = {}
        /\ Live' = Live
        /\ \A u \in Tasks : loop'[u] = "stopped" => loop[u] = "stopped"
    BY <1>10, <1>0 DEF DelFinalises, Unload, StagesKept, StageKept, StoppedIsTargeted, StoppedTargeted,
       Types, Live, Exists
  <2>2. Live \cap Handled(d) = {}
    BY <2>1 DEF Handled
  <2>3. Only(d) /\ stranded \subseteq stranded' /\ StageKept(d)' /\ StoppedTargeted(d)'
    <3>1. CASE Ends(d, {})
      BY <3>1, EndsEffect, NothingTargeted DEF StageKept
    <3>2. CASE ~Ends(d, {})
      BY <1>10, <1>0, <2>1, <3>2, FinalisesEffect DEF StageKept, StagesKept, StoppedTargeted, Same
    <3> QED
      BY <3>1, <3>2
  <2> QED
    BY <1>0, <2>1, <2>2, <2>3, SurvivorMoves
<1>11. ASSUME NEW d \in Deleters, DelRefused(d) \/ DelFailsInside(d)
       PROVE  SurvivorInv'
  <2>1. /\ UNCHANGED <<row, origin, space, loop>> /\ Fails(d)
        /\ del[d].at \in {"delete", "commit"} /\ del[d].found = {}
    BY <1>11, <1>0 DEF DelRefused, DelFailsInside, StagesKept, StageKept
  <2>2. Handled(d) = del[d].stopped
    BY <2>1 DEF Handled
  <2>3. /\ Only(d) /\ stranded \subseteq stranded' /\ StageKept(d)' /\ StoppedTargeted(d)'
        /\ Handled(d) \subseteq Handled(d)' \cup stranded'
    <3>1. CASE Ends(d, del[d].stopped)
      BY <2>2, <3>1, EndsEffect, NothingTargeted DEF StageKept
    <3>2. CASE ~Ends(d, del[d].stopped)
      BY <1>0, <2>1, <2>2, <3>2, RollsBackNext, NothingTargeted DEF StageKept, StagesKept, Same, Handled
    <3> QED
      BY <3>1, <3>2
  <2> QED
    BY <2>1, <2>3, SurvivorMoves
<1>12. ASSUME NEW d \in Deleters, DelTakesGate(d)
       PROVE  SurvivorInv'
  <2>1. /\ Only(d) /\ Same(d) /\ UNCHANGED <<row, origin, space, loop, stranded>>
        /\ del[d].at = "delete"
    BY <1>12, TakesGateEffect DEF DelTakesGate
  <2>2. StageKept(d)' /\ Handled(d)' = Handled(d)
    BY <1>12, <1>0, <2>1, TakesGateEffect DEF StageKept, StagesKept, Same, Handled
  <2>3. StoppedTargeted(d)'
    BY <1>12, <1>0, <2>1, TakesGateEffect, OthersTargeted
  <2> QED
    BY <2>1, <2>2, <2>3, SurvivorMoves
<1>13. ASSUME NEW d \in Deleters, DelCommits(d)
       PROVE  SurvivorInv'
  <2>1. /\ Only(d) /\ Same(d) /\ UNCHANGED <<space, loop, stranded>>
        /\ del[d].at = "commit" /\ del[d].found = {}
        /\ del'[d].at = "finalize" /\ del'[d].stopped = del[d].stopped
        /\ Live \cap del[d].stopped \subseteq Targets(d)
    BY <1>13, <1>0, CommitsEffect DEF DelCommits, StagesKept, StageKept, StoppedIsTargeted, StoppedTargeted
  <2>2. Live' \cap del[d].stopped = {}
    <3>1. \A t \in Tasks : row'[t] = IF t \in Targets(d) \cup {del[d].root} THEN "gone" ELSE row[t]
      BY <1>13, <1>0, CommitsEffect
    <3>2. Live' \subseteq Live \ Targets(d)
      BY <3>1 DEF Live, Exists
    <3> QED
      BY <2>1, <3>2
  <2>3. Handled(d)' = Handled(d)
    <3>1. del'[d].found = {}
      BY <1>13, <1>0, <2>1, CommitsEffect
    <3> QED
      BY <2>1, <3>1 DEF Handled
  <2>4. StageKept(d)' /\ StoppedTargeted(d)'
    BY <1>13, <1>0, <2>1, <2>2, CommitsEffect DEF StageKept, StagesKept, Same, StoppedTargeted
  <2> QED
    BY <2>1, <2>3, <2>4, SurvivorMoves
<1>14. ASSUME NEW d \in Deleters, DelEnds(d)
       PROVE  SurvivorInv'
  <2>1. /\ UNCHANGED <<row, origin, space, loop>> /\ Ends(d, {})
        /\ Live \cap Handled(d) = {}
    BY <1>14, <1>0 DEF DelEnds, StagesKept, StageKept, StoppedIsTargeted, StoppedTargeted, Handled
  <2>2. Only(d) /\ stranded \subseteq stranded' /\ StageKept(d)' /\ StoppedTargeted(d)'
    BY <2>1, EndsEffect, NothingTargeted DEF StageKept
  <2> QED
    BY <2>1, <2>2, SurvivorMoves
<1>15. ASSUME NEW d \in Deleters, DelRollsBack(d)
       PROVE  SurvivorInv'
  <2>1. /\ UNCHANGED <<row, origin, space>> /\ Ends(d, {})
        /\ Handled(d) = del[d].stopped
    BY <1>15, <1>0 DEF DelRollsBack, StagesKept, StageKept, Handled
  <2>2. Only(d) /\ stranded \subseteq stranded' /\ StageKept(d)' /\ StoppedTargeted(d)'
    BY <2>1, EndsEffect, NothingTargeted DEF StageKept
  <2>3. \A t \in Tasks : t \in space /\ loop'[t] = "stopped" => loop[t] = "stopped" /\ t \notin del[d].stopped
    BY <1>15 DEF DelRollsBack, Restart, Stopped
  <2> QED
    BY <1>0, <2>1, <2>2, <2>3, SurvivorMoves
<1>16. ASSUME NEW d \in Deleters, DelAbandoned(d)
       PROVE  SurvivorInv'
  <2>1. UNCHANGED <<row, origin, space, loop>>
    BY <1>16 DEF DelAbandoned
  <2>2. /\ Only(d) /\ stranded \subseteq stranded' /\ StageKept(d)' /\ StoppedTargeted(d)'
        /\ Handled(d) \subseteq Handled(d)' \cup stranded'
    <3>1. CASE Ends(d, Handled(d))
      BY <3>1, EndsEffect, NothingTargeted DEF StageKept
    <3>2. CASE ~Ends(d, Handled(d))
      <4>1. /\ Only(d) /\ Same(d) /\ UNCHANGED stranded
            /\ del'[d].stopped = del[d].stopped /\ del'[d].found = del[d].found
            /\ del'[d].left = del[d].left /\ del'[d].at = del[d].at
            /\ del[d].at \in {"delete", "commit"}
        BY <1>16, <3>2, AbandonedEffect DEF Handled
      <4>2. StageKept(d)' /\ Handled(d)' = Handled(d)
        BY <1>0, <4>1 DEF StageKept, StagesKept, Same, Handled
      <4>3. StoppedTargeted(d)'
        BY <1>0, <4>1, OthersTargeted
      <4> QED
        BY <4>1, <4>2, <4>3
    <3> QED
      BY <3>1, <3>2
  <2> QED
    BY <2>1, <2>2, SurvivorMoves
<1>17. ASSUME NEW d \in Deleters, NEW root \in Tasks \cup {Workspace}, NEW forks \in SUBSET Tasks,
              DelBegins(d, root, forks)
       PROVE  SurvivorInv'
  <2>1. /\ Only(d) /\ UNCHANGED <<row, origin, space, loop, stranded>>
        /\ del[d].at = "idle" /\ del[d].stopped = {} /\ del[d].found = {}
    BY <1>17, <1>0, BeginsEffect DEF DelBegins, StagesKept, StageKept
  <2>2. StageKept(d)' /\ StoppedTargeted(d)' /\ Handled(d) = {}
    BY <1>17, <2>1, BeginsEffect DEF StageKept, StoppedTargeted, Handled
  <2> QED
    BY <2>1, <2>2, SurvivorMoves
<1> QED
  BY <1>1, <1>2, <1>3, <1>4, <1>5, <1>6, <1>7, <1>8, <1>9, <1>10, <1>11, <1>12, <1>13,
     <1>14, <1>15, <1>16, <1>17
  DEF DeletionNext, Works, Deletes


-----------------------------------------------------------------------------
DeletionInv == Types /\ LoopInv /\ TreeInv /\ SurvivorInv

LEMMA SurvivorInit == DeletionInit => SurvivorInv
<1> SUFFICES ASSUME DeletionInit PROVE SurvivorInv
  OBVIOUS
<1>1. \A d \in Deleters : del[d].at = "idle" /\ del[d].stopped = {} /\ del[d].found = {}
  BY NoRequestTyped DEF DeletionInit, Stages
<1>2. StagesKept /\ StoppedIsTargeted
  BY <1>1 DEF StagesKept, StageKept, StoppedIsTargeted, StoppedTargeted
<1>3. StopIsOwned
  BY DEF DeletionInit, StopIsOwned
<1> QED
  BY <1>2, <1>3 DEF SurvivorInv

LEMMA LoopInit == DeletionInit => LoopInv
<1> SUFFICES ASSUME DeletionInit PROVE LoopInv
  OBVIOUS
<1>1. \A d \in Deleters : del[d].at = "idle"
  BY NoRequestTyped DEF DeletionInit, Stages
<1> QED
  BY <1>1 DEF DeletionInit, LoopInv

(* The inductive invariant of the deletions: types, loops, the tree and     *)
(* what each request holds.                                                 *)
THEOREM DeletionInvAlways == DeletionSpec => []DeletionInv
<1>1. DeletionInit => DeletionInv
  BY TypesInit, LoopInit, TreeInit, SurvivorInit DEF DeletionInv
<1>2. DeletionInv /\ [DeletionNext]_deletionVars => DeletionInv'
  <2> SUFFICES ASSUME DeletionInv, [DeletionNext]_deletionVars
               PROVE  DeletionInv'
    OBVIOUS
  <2>1. Types /\ LoopInv /\ TreeInv /\ SurvivorInv /\ StagesKept
    BY DEF DeletionInv, SurvivorInv
  <2>2. Types'
    BY <2>1, TypesNext
  <2>3. LoopInv'
    BY <2>1, LoopNext
  <2>4. TreeInv'
    BY <2>1, TreeNext
  <2>5. SurvivorInv'
    BY <2>1, <2>4, SurvivorNext
  <2> QED
    BY <2>2, <2>3, <2>4, <2>5 DEF DeletionInv
<1> QED
  BY <1>1, <1>2, PTL DEF DeletionSpec

(* A Task that exists has one loop, and never two: what a rollback restarts *)
(* is stopped, and a loop is lost only with its Task.                       *)
THEOREM OneLoopPerTaskAlways == DeletionSpec => []OneLoopPerTask
<1>1. DeletionInv => OneLoopPerTask
  BY DEF DeletionInv, LoopInv, Gone, OneLoopPerTask, Live, Exists
<1> QED
  BY <1>1, DeletionInvAlways, PTL

(* However deletions, forks and delegations interleave, nothing is left     *)
(* that belongs to nobody: no Task of a Task that is gone, no fork of one,  *)
(* and no survivor without its scheduler that no request stopped.           *)
THEOREM TreeIsSoundAlways == DeletionSpec => []TreeIsSound
<1>1. DeletionInv => TreeStaysWhole
  BY DEF DeletionInv, TreeInv
<1>2. DeletionInv => SurvivorsAreScheduled
  <2>1. ASSUME NEW d \in Deleters
        PROVE  Handled(d) \subseteq Held
    BY DEF Handled, Held
  <2> QED
    BY <2>1 DEF DeletionInv, SurvivorInv, StopIsOwned, SurvivorsAreScheduled
<1> QED
  BY <1>1, <1>2, DeletionInvAlways, PTL DEF TreeIsSound

(* What the transaction of a deletion removes is more than what the request *)
(* stopped and never less: what it stopped and still lives is in the tree   *)
(* it deletes, so that no stopped Task outlives a deletion that succeeds.   *)
NoStoppedSurvivor ==
  \A d \in Deleters : del[d].at = "finalize" => Live \cap del[d].stopped = {}

THEOREM NoStoppedSurvivorAlways == DeletionSpec => []NoStoppedSurvivor
<1>1. DeletionInv => NoStoppedSurvivor
  BY DEF DeletionInv, SurvivorInv, StoppedIsTargeted, StoppedTargeted, NoStoppedSurvivor
<1> QED
  BY <1>1, DeletionInvAlways, PTL

=============================================================================
