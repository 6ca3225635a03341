---------------------------- MODULE TaskDeletion ----------------------------
(***************************************************************************)
(* The tree of Tasks of one workspace and the requests that delete parts   *)
(* of it (task_runtime/service/task_service.py, workspace_service.py) while *)
(* the Tasks go on working: their spaces are materialised, their actors    *)
(* run (task_runtime_space_registry.py), their tools delegate to new child *)
(* Tasks and fork the conversation.                                        *)
(*                                                                         *)
(* A deletion collects and stops the tree again and again until it grows   *)
(* no more, and then deletes the rows in one transaction under the gate of *)
(* the workspace. An actor is seen from outside here: its loop runs or is  *)
(* stopped, and it executes a Run or not; TaskActor has its inside.        *)
(***************************************************************************)
EXTENDS Integers, FiniteSets

CONSTANTS Tasks,      \* the ids a Task may get
          NoTask,
          Owner,      \* parent_task_id of each id: a Task that delegates to it, or NoTask
          Born,       \* the Tasks that exist at the start
          Deleters,   \* requests that delete a Task
          Workspace,  \* what a request deletes that is for the whole workspace
          MaxCommands    \* bound: how many commands the user gives

ASSUME TopologyAssumption ==
  /\ NoTask \notin Tasks
  /\ Workspace \notin Tasks \cup {NoTask}
  /\ Owner \in [Tasks -> Tasks \cup {NoTask}]
  /\ Born \subseteq Tasks /\ \A t \in Born : Owner[t] \in Born \cup {NoTask}
  /\ MaxCommands \in Nat

VARIABLES
  row,       \* row[t]: "absent" (never created), "live" or "gone"; of the workspace too
  origin,    \* origin[t]: extra.fork.source_task_id of a fork
  hasRun,    \* the Tasks with a Run
  commands,     \* how many commands the user has given
  mail,      \* the Tasks with a message in their queue
  space,     \* the Tasks with a runtime space in the registry
  tombstones,    \* TaskRuntimeSpaceRegistry._deleted_task_ids
  loop,      \* loop[t]: the loop of the actor in the space: "none", "running", "stopped"
  stopping,  \* the Tasks whose actor has _stopping set
  busy,      \* the Tasks whose actor executes a Run
  gen,       \* gen[t]: which actor of the Task, counted by restarts
  stranded,  \* the Tasks left stopped by requests whose client went away
  lost,      \* the Tasks with a running loop that no space holds any more
  creation,      \* tool[t]: the Task a tool of t has created and not yet messaged
  gate,      \* the request that holds the workspace gate, or NoTask
  del        \* del[d]: the state of a request

(* The database; the process; the requests. *)
rows   == <<row, origin, hasRun>>
actors == <<loop, stopping, busy, gen, lost>>
deletionVars   == <<rows, commands, mail, space, tombstones, actors, stranded, creation, gate, del>>

Stages == {"idle", "collect", "stop", "await", "delete", "commit", "finalize",
           "rollback", "done"}

(* A request: its stage, what it deletes, the fork descendants it collected *)
(* at the start, the last collection, what is left of it to stop or to      *)
(* finalise, what it stopped, the actor it waits for, and whether its       *)
(* client has gone.                                                         *)
Request(root, forks) ==
  [at |-> "collect", root |-> root, forks |-> forks, found |-> {}, left |-> {},
   stopped |-> {}, task |-> NoTask, gen |-> 0, gone |-> FALSE]

NoRequest(stage) == [Request(NoTask, {}) EXCEPT !.at = stage]

DeletionInit ==
  /\ row = [t \in Tasks \cup {Workspace} |-> IF t \in Born \cup {Workspace} THEN "live" ELSE "absent"]
  /\ origin = [t \in Tasks |-> NoTask]
  /\ hasRun = {} /\ commands = 0 /\ mail = {} /\ stranded = {} /\ space = {} /\ tombstones = {}
  /\ loop = [t \in Tasks |-> "none"]
  /\ stopping = {} /\ busy = {} /\ lost = {}
  /\ gen = [t \in Tasks |-> 0]
  /\ creation = [t \in Tasks |-> NoTask]
  /\ gate = NoTask
  /\ del = [d \in Deleters |-> NoRequest("idle")]

-----------------------------------------------------------------------------
(* The tree. *)

Exists(x) == row[x] = "live"
Live == {t \in Tasks : Exists(t)}

(* The least set with the roots in which Step(t) goes along with t: what a  *)
(* breadth first search finds.                                              *)
Closure(roots, Step(_)) ==
  {t \in Tasks : \A S \in SUBSET Tasks :
     roots \subseteq S /\ (\A u \in S : Step(u) \subseteq S) => t \in S}

Children(t) == {c \in Live : Owner[c] = t}
Forks(t)    == {f \in Live : origin[f] = t}

(* The ownership trees of some roots, the roots included whether they exist *)
(* or not.                                                                  *)
Trees(roots) == Closure(roots, Children)

ForkDescendants(t) == Closure({t}, Forks) \ {t}

UserFacing(t) == Owner[t] = NoTask

-----------------------------------------------------------------------------
(* Spaces and actors. *)

(* get_or_create: a new space reads the row of its Task, and its actor's    *)
(* loop starts.                                                             *)
CanMaterialise(t) == t \in space \/ (t \in Live /\ t \notin tombstones)

Materialise(ts) ==
  /\ space' = space \cup ts
  /\ loop' = [t \in Tasks |-> IF t \in ts \ space THEN "running" ELSE loop[t]]
  /\ stopping' = stopping \ (ts \ space)

Command == commands < MaxCommands /\ commands' = commands + 1

(* Anyone looks at a Task: the snapshot, a subscription, a command.         *)
Visit(t) ==
  /\ t \notin space /\ CanMaterialise(t)
  /\ Command
  /\ Materialise({t})
  /\ UNCHANGED <<rows, mail, tombstones, busy, gen, lost, stranded, creation, gate, del>>

(* A command of the user puts a message into the queue of the Task; the     *)
(* row of the message refers to the row of the Task.                        *)
UserSends(t) ==
  /\ Command
  /\ t \in Live \ mail /\ CanMaterialise(t)
  /\ Materialise({t})
  /\ mail' = mail \cup {t}
  /\ UNCHANGED <<rows, tombstones, busy, gen, lost, stranded, creation, gate, del>>

(* The loop opens a Run for the message and starts an execution.            *)
ActorStarts(t) ==
  /\ t \in space /\ loop[t] = "running"
  /\ t \in (mail \cap Live) \ (stopping \cup busy)
  /\ mail' = mail \ {t}
  /\ hasRun' = hasRun \cup {t}
  /\ busy' = busy \cup {t}
  /\ UNCHANGED <<row, origin, commands, space, tombstones, loop, stopping, gen, lost, stranded, creation, gate, del>>

(* The Run ends, or heeds the signal of a stop, when no tool of it is left. *)
ActorEnds(t) ==
  /\ t \in busy /\ creation[t] = NoTask
  /\ busy' = busy \ {t}
  /\ UNCHANGED <<rows, commands, mail, space, tombstones, loop, stopping, gen, lost, stranded, creation, gate, del>>

(* A Task gets its row.                                                     *)
Enters(t) == row[t] = "absent" /\ row' = [row EXCEPT ![t] = "live"]

(* A tool of t delegates: the child Task is inserted first. The foreign key *)
(* refuses it when t is gone. The tool looked for a stop before, so one may *)
(* have come meanwhile.                                                     *)
ToolDelegates(t, c) ==
  /\ t \in busy \cap Live /\ creation[t] = NoTask
  /\ Owner[c] = t /\ Enters(c)
  /\ creation' = [creation EXCEPT ![t] = c]
  /\ UNCHANGED <<origin, hasRun, commands, mail, space, tombstones, actors, stranded, gate, del>>

(* _clone_prefix: the fork is created with a copy of the finished Runs, in  *)
(* one transaction, while nobody holds the gate of the workspace.           *)
Fork(s, f) ==
  /\ gate = NoTask
  /\ s \in Live /\ UserFacing(s)
  /\ UserFacing(f) /\ Enters(f)
  /\ origin' = [origin EXCEPT ![f] = s]
  /\ hasRun' = hasRun \cup {f}

ToolForks(t, f) ==
  /\ t \in busy /\ creation[t] = NoTask
  /\ Fork(t, f)
  /\ creation' = [creation EXCEPT ![t] = f]
  /\ UNCHANGED <<commands, mail, space, tombstones, actors, stranded, gate, del>>

UserForks(s, f) ==
  /\ s \in hasRun
  /\ Fork(s, f)
  /\ UNCHANGED <<commands, mail, space, tombstones, actors, stranded, creation, gate, del>>

(* Creating a Task of the user takes the gate of the workspace.             *)
UserCreates(t) ==
  /\ gate = NoTask
  /\ Exists(Workspace)
  /\ UserFacing(t) /\ Enters(t)
  /\ UNCHANGED <<origin, hasRun, commands, mail, space, tombstones, actors, stranded, creation, gate, del>>

(* Then the tool puts the message for the new Task, which materialises its  *)
(* space; when the Task is gone the tool gives up.                          *)
ToolPuts(t) ==
  /\ creation[t] # NoTask
  /\ IF CanMaterialise(creation[t]) /\ creation[t] \in Live
     THEN Materialise({creation[t]}) /\ mail' = mail \cup {creation[t]}
     ELSE UNCHANGED <<space, loop, stopping, mail>>
  /\ creation' = [creation EXCEPT ![t] = NoTask]
  /\ UNCHANGED <<rows, commands, tombstones, busy, gen, lost, stranded, gate, del>>

-----------------------------------------------------------------------------
(* A request deletes a Task, with or without its forks, or the workspace.   *)

DelBegins(d, root, forks) ==
  /\ del[d].at = "idle"
  /\ Exists(root)
  /\ forks \in {{}, IF root = Workspace THEN {} ELSE ForkDescendants(root)}
  /\ del' = [del EXCEPT ![d] = Request(root, forks)]
  /\ UNCHANGED <<rows, commands, mail, space, tombstones, actors, stranded, creation, gate>>

Targets(d) == IF del[d].root = Workspace THEN Live
              ELSE Trees({del[d].root} \cup del[d].forks)

(* Mutant of DelCollects: it goes on until what it finds is what it stopped. *)
DelCollectsExactly(d) ==
  LET stopped == del[d].stopped \cup del[d].found IN
  /\ del[d].at = "collect" \/ (del[d].at = "stop" /\ del[d].left = {})
  /\ del' = [del EXCEPT ![d].stopped = stopped,
       ![d].found = IF Targets(d) = stopped THEN {} ELSE Targets(d),
       ![d].left = Targets(d) \ stopped,
       ![d].at = IF Targets(d) = stopped THEN "delete" ELSE "stop"]
  /\ UNCHANGED <<rows, commands, mail, space, tombstones, actors, stranded, creation, gate>>

(* All that was collected is stopped and its Teams have drained; the tree is *)
(* collected anew, and what is new in it is stopped next.                   *)
DelCollects(d) ==
  LET stopped == del[d].stopped \cup del[d].found IN
  /\ del[d].at = "collect" \/ (del[d].at = "stop" /\ del[d].left = {})
  /\ del' = [del EXCEPT ![d].stopped = stopped,
       ![d].found = IF Targets(d) \subseteq stopped THEN {} ELSE Targets(d),
       ![d].left = Targets(d) \ stopped,
       ![d].at = IF Targets(d) \subseteq stopped THEN "delete" ELSE "stop"]
  /\ UNCHANGED <<rows, commands, mail, space, tombstones, actors, stranded, creation, gate>>

(* TaskActor.stop of the next Task: no new execution, and the current one   *)
(* is signalled. A Task without a space is passed over.                     *)
DelStops(d, t) ==
  /\ del[d].at = "stop" /\ t \in del[d].left
  /\ IF t \in space
     THEN /\ stopping' = stopping \cup {t}
          /\ del' = [del EXCEPT ![d].at = "await", ![d].left = @ \ {t},
                                ![d].task = t, ![d].gen = gen[t]]
     ELSE /\ UNCHANGED stopping
          /\ del' = [del EXCEPT ![d].left = @ \ {t}]
  /\ UNCHANGED <<rows, commands, mail, space, tombstones, loop, busy, gen, lost, stranded, creation, gate>>

(* The execution has ended and the loop of that actor is stopped. When the  *)
(* actor was replaced meanwhile, it is the old one that was awaited.        *)
DelStopped(d) ==
  LET t == del[d].task
      current == gen[t] = del[d].gen /\ t \in space
  IN /\ del[d].at = "await"
     /\ current => t \notin busy
     /\ loop' = IF current THEN [loop EXCEPT ![t] = "stopped"] ELSE loop
     /\ del' = [del EXCEPT ![d].at = "stop", ![d].task = NoTask, ![d].gen = 0]
     /\ UNCHANGED <<rows, commands, mail, space, tombstones, stopping, busy, gen, lost, stranded, creation, gate>>

(* The request is over, and leaves some Tasks stopped.                      *)
Ends(d, left) ==
  /\ del' = [del EXCEPT ![d] = NoRequest("done")]
  /\ stranded' = stranded \cup left

(* The client goes away while the request is stopping: it ends where it is. *)
(* While the deletion runs in its thread, only the rollback is lost.        *)
DelAbandoned(d) ==
  /\ del[d].at \in {"collect", "stop", "await", "delete", "commit"} /\ ~del[d].gone
  /\ IF del[d].at \in {"delete", "commit"}
     THEN del' = [del EXCEPT ![d].gone = TRUE] /\ UNCHANGED stranded
     ELSE Ends(d, del[d].stopped \cup (del[d].found \ del[d].left))
  /\ UNCHANGED <<rows, commands, mail, space, tombstones, actors, creation, gate>>

(* The deletion fails before it holds the gate: no such Task, or the gate   *)
(* is busy for too long.                                                    *)
Fails(d) ==
  IF del[d].gone THEN Ends(d, del[d].stopped)
  ELSE del' = [del EXCEPT ![d].at = "rollback"] /\ UNCHANGED stranded

DelRefused(d) ==
  /\ del[d].at = "delete"
  /\ gate # NoTask \/ ~Exists(del[d].root)
  /\ Fails(d)
  /\ UNCHANGED <<rows, commands, mail, space, tombstones, actors, creation, gate>>

DelTakesGate(d) ==
  /\ del[d].at = "delete" /\ gate = NoTask
  /\ Exists(del[d].root)
  /\ gate' = d
  /\ del' = [del EXCEPT ![d].at = "commit"]
  /\ UNCHANGED <<rows, commands, mail, space, tombstones, actors, stranded, creation>>

(* _fork_source: where the forks of what is deleted are hung.               *)
ForkSource(root, deleted) ==
  IF root = Workspace \/ origin[root] \in deleted THEN NoTask ELSE origin[root]

(* reparent_forks *)
Reparented(root, deleted) ==
  [t \in Tasks |-> IF t \notin deleted /\ origin[t] \in deleted
                   THEN ForkSource(root, deleted) ELSE origin[t]]

(* Mutant of Remove: the messages of the deleted Tasks stay.                *)
RemoveButMail(d, deleted) ==
  /\ row' = [t \in Tasks \cup {Workspace} |->
               IF t \in deleted \cup {del[d].root} THEN "gone" ELSE row[t]]
  /\ origin' = Reparented(del[d].root, deleted)
  /\ hasRun' = hasRun \ deleted
  /\ UNCHANGED mail

(* The rows of what is deleted, with their Runs and messages; of the         *)
(* workspace too when it is the root.                                       *)
Remove(d, deleted) ==
  /\ row' = [t \in Tasks \cup {Workspace} |->
               IF t \in deleted \cup {del[d].root} THEN "gone" ELSE row[t]]
  /\ origin' = Reparented(del[d].root, deleted)
  /\ hasRun' = hasRun \ deleted
  /\ mail' = mail \ deleted

(* Mutant of DelCommits: the transaction deletes what was stopped.          *)
DelCommitsStopped(d) ==
  LET deleted == del[d].stopped \cup ({del[d].root} \cap Tasks) IN
  /\ del[d].at = "commit"
  /\ Exists(del[d].root) /\ deleted \subseteq Live
  /\ Remove(d, deleted)
  /\ del' = [del EXCEPT ![d].at = "finalize", ![d].left = deleted]
  /\ UNCHANGED <<commands, space, tombstones, actors, stranded, creation, gate>>

(* delete_task_tree_in_session: one transaction that collects the tree anew *)
(* and deletes it with its Runs and messages.                               *)
DelCommits(d) ==
  /\ del[d].at = "commit"
  /\ Exists(del[d].root) /\ Targets(d) \subseteq Live
  /\ Remove(d, Targets(d))
  /\ del' = [del EXCEPT ![d].at = "finalize", ![d].left = Targets(d)]
  /\ UNCHANGED <<commands, space, tombstones, actors, stranded, creation, gate>>

(* A Task of the collection is gone already, or the database fails.         *)
DelFailsInside(d) ==
  /\ del[d].at = "commit"
  /\ gate' = NoTask
  /\ Fails(d)
  /\ UNCHANGED <<rows, commands, mail, space, tombstones, actors, creation>>

(* _unload_deleted_task_spaces of one Task: its id is marked, the space     *)
(* goes. A loop that still runs is then held by nobody.                     *)
Unload(ts) ==
  /\ tombstones' = tombstones \cup ts
  /\ space' = space \ ts
  /\ lost' = lost \cup {t \in ts \cap space : loop[t] = "running"}
  /\ loop' = [t \in Tasks |-> IF t \in ts THEN "none" ELSE loop[t]]

(* After the last one the request is over and the gate is free.             *)
DelFinalises(d, t) ==
  /\ del[d].at = "finalize" /\ t \in del[d].left
  /\ Unload({t})
  /\ IF del[d].left = {t}
     THEN gate' = NoTask /\ Ends(d, {})
     ELSE del' = [del EXCEPT ![d].left = @ \ {t}] /\ UNCHANGED <<gate, stranded>>
  /\ UNCHANGED <<rows, commands, mail, stopping, busy, gen, creation>>

(* An empty workspace has no Task to finalise.                              *)
DelEnds(d) ==
  /\ del[d].at = "finalize" /\ del[d].left = {}
  /\ gate' = NoTask /\ Ends(d, {})
  /\ UNCHANGED <<rows, commands, mail, space, tombstones, actors, creation>>

(* restart_stopped: the Tasks whose loop is stopped get a new actor.        *)
(* Mutant of Stopped: every Task with a space.                              *)
StoppedOrNot(ts) == ts \cap space

Stopped(ts) == {t \in ts \cap space : loop[t] = "stopped"}

Restart(ts) ==
  /\ loop' = [t \in Tasks |-> IF t \in ts THEN "running" ELSE loop[t]]
  /\ lost' = lost \cup {t \in ts : loop[t] = "running"}
  /\ gen' = [t \in Tasks |-> IF t \in ts THEN gen[t] + 1 ELSE gen[t]]
  /\ stopping' = stopping \ ts

DelRollsBack(d) ==
  /\ del[d].at = "rollback"
  /\ Restart(Stopped(del[d].stopped))
  /\ Ends(d, {})
  /\ UNCHANGED <<rows, commands, mail, space, tombstones, busy, creation, gate>>

(* cleanup_provisional_task: a Task whose first command was refused. It is  *)
(* deleted without a stop, under the gates of the workspace, of the Task    *)
(* and of its ancestors, as long as no Run exists; taking the gate of a     *)
(* Task materialises its space.                                             *)
CleansUp(t) ==
  /\ gate = NoTask
  /\ t \in Live /\ UserFacing(t) /\ origin[t] = NoTask
  /\ Trees({t}) \cap hasRun = {}
  /\ \A u \in Trees({t}) : CanMaterialise(u)
  /\ LET deleted == Trees({t}) IN
     /\ row' = [u \in Tasks \cup {Workspace} |-> IF u \in deleted THEN "gone" ELSE row[u]]
     /\ origin' = Reparented(t, deleted)
     /\ mail' = mail \ deleted
     /\ tombstones' = tombstones \cup deleted
     /\ space' = space \ deleted
     /\ lost' = lost \cup {u \in deleted : u \notin space \/ loop[u] = "running"}
     /\ loop' = [u \in Tasks |-> IF u \in deleted THEN "none" ELSE loop[u]]
  /\ UNCHANGED <<hasRun, commands, stopping, busy, gen, stranded, creation, gate, del>>

-----------------------------------------------------------------------------

Works(t) ==
  \/ Visit(t) \/ UserSends(t) \/ UserCreates(t) \/ CleansUp(t)
  \/ ActorStarts(t) \/ ActorEnds(t) \/ ToolPuts(t)
  \/ \E u \in Tasks : ToolDelegates(t, u) \/ ToolForks(t, u) \/ UserForks(t, u)

Deletes(d) ==
  \/ DelCollects(d) \/ DelStopped(d)
  \/ \E t \in Tasks : DelStops(d, t) \/ DelFinalises(d, t)
  \/ DelRefused(d) \/ DelTakesGate(d) \/ DelCommits(d)
  \/ DelFailsInside(d) \/ DelEnds(d) \/ DelRollsBack(d)

DeletionNext ==
  \/ \E t \in Tasks : Works(t)
  \/ \E d \in Deleters :
       \/ Deletes(d)
       \/ DelAbandoned(d)
       \/ \E root \in Tasks \cup {Workspace}, forks \in SUBSET Tasks : DelBegins(d, root, forks)

(* Threads and the event loop go on: a request takes its steps, a tool ends *)
(* and an execution that was told to stop does. Users owe nothing.          *)
DeletionFairness ==
  /\ \A d \in Deleters : WF_deletionVars(Deletes(d))
  /\ \A t \in Tasks : WF_deletionVars(t \in stopping /\ ActorEnds(t)) /\ WF_deletionVars(ToolPuts(t))

DeletionSpec == DeletionInit /\ [][DeletionNext]_deletionVars
FairDeletionSpec == DeletionSpec /\ DeletionFairness
=============================================================================
