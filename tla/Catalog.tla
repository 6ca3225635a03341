------------------------------- MODULE Catalog -------------------------------
(***************************************************************************)
(* The configurations of child Agents and of Agent Teams: a file for each  *)
(* one, an index in memory (AgentProfileRegistry,                          *)
(* AgentTeamConfigurationRegistry) that reads the directory of a scope     *)
(* when the scope is first asked for, and what a Task knows of the Agents  *)
(* it may delegate to. The requests that edit run on the event loop, one   *)
(* after the other; the threads of tools load a scope meanwhile, and a     *)
(* deleted workspace drops its own. One Agent id and one Team id stand for *)
(* all, and a description for a document.                                  *)
(***************************************************************************)
EXTENDS Integers

CONSTANTS MaxDocuments,       \* bound: versions of documents
          MaxDrops,           \* bound: workspaces that are deleted
          DropsWhileEdited,   \* whether a workspace goes while a configuration of it is edited
          LoadsWhileUpdated,  \* whether a scope is read while a Team of it is updated
          ReadFails,          \* whether a directory cannot be read
          SyncFails,          \* whether a deletion fails after the file is gone
          EditsUnseen         \* whether Agents change while nothing runs on the Task

ASSUME CatalogAssumption ==
  /\ {MaxDocuments, MaxDrops} \subseteq Nat
  /\ {DropsWhileEdited, LoadsWhileUpdated, ReadFails, SyncFails, EditsUnseen} \subseteq BOOLEAN

VARIABLES
  files,      \* the version in every file, Nowhere if there is none
  index,      \* the version in memory
  loaded,     \* _loaded_scopes
  loading,    \* _load_lock: the scope that is read, and what was found
  edit,       \* the request on the event loop
  versions,   \* versions used
  drops,
  manager,    \* whether the Task has a live context manager
  prompt,     \* what the Task knows of the Agent in every scope
  told        \* whether it was told of a change

catalogVars == <<files, index, loaded, loading, edit, versions, drops, manager, prompt, told>>

DocKinds   == {"agent", "team"}
Scopes  == {"system", "workspace"}
Nowhere == 0
Unread  == [of |-> "none", found |-> Nowhere]
NoEdit  == [kind |-> "agent", of |-> "system", new |-> Nowhere, at |-> "over"]
NoPrompt == [s \in Scopes |-> -1]

CatalogInit ==
  /\ files \in [DocKinds -> [Scopes -> {Nowhere, 1}]]
  /\ index = [kind \in DocKinds |-> [s \in Scopes |-> Nowhere]]
  /\ loaded = [kind \in DocKinds |-> {}] /\ loading = [kind \in DocKinds |-> Unread]
  /\ edit = NoEdit /\ versions = 1 /\ drops = 0
  /\ manager = FALSE /\ prompt = NoPrompt /\ told = FALSE

CatalogTypeOK ==
  /\ {files, index} \subseteq [DocKinds -> [Scopes -> 0..versions]]
  /\ loaded \in [DocKinds -> SUBSET Scopes]
  /\ loading \in [DocKinds -> [of : Scopes \cup {"none"}, found : 0..versions]]
  /\ edit \in [kind : DocKinds, of : Scopes, new : 0..versions,
               at : {"over", "create", "replace", "delete", "register", "swap", "unregister"}]
  /\ versions \in 1..MaxDocuments /\ drops \in 0..MaxDrops
  /\ manager \in BOOLEAN /\ prompt \in [Scopes -> -1..versions] /\ told \in BOOLEAN

taskVars == <<manager, prompt, told>>

-----------------------------------------------------------------------------
(* _ensure_scope: the first to ask for a scope reads its directory and then *)
(* merges what was found; nobody else loads meanwhile. A workspace is read  *)
(* after the system, of Agents always.                                      *)
Editing(kind, s) == edit.at # "over" /\ edit.kind = kind /\ edit.of = s

(* A directory that cannot be read counts as empty.                         *)
FoundIn(kind, s) == {files[kind][s]} \cup (IF ReadFails THEN {Nowhere} ELSE {})

Reads(kind, s) ==
  /\ loading[kind] = Unread /\ s \notin loaded[kind]
  /\ \E found \in FoundIn(kind, s) :
       loading' = [loading EXCEPT ![kind] = [of |-> s, found |-> found]]
  /\ UNCHANGED <<files, index, loaded, edit, versions, drops, taskVars>>

ReadsAgents(s) == (s = "workspace" => "system" \in loaded["agent"]) /\ Reads("agent", s)
ReadsTeams(s)  == (Editing("team", s) => LoadsWhileUpdated) /\ Reads("team", s)

(* _decide_registration: not twice in a scope, not in the system what a     *)
(* workspace has, not in a workspace what the system has.                   *)
MayRegister(s) == \A t \in Scopes : index["agent"][t] = Nowhere

(* _merge_scope: of Agents the first to be registered stays, of Teams the   *)
(* file that was read wins.                                                 *)
MergedAgent(s, found) == IF MayRegister(s) THEN found ELSE index["agent"][s]
MergedTeam(s, found)  == IF found = Nowhere THEN index["team"][s] ELSE found

Merges(kind, merged) ==
  LET s == loading[kind].of IN
  /\ index' = [index EXCEPT ![kind][s] = merged]
  /\ loaded' = [loaded EXCEPT ![kind] = @ \cup {s}]
  /\ loading' = [loading EXCEPT ![kind] = Unread]
  /\ UNCHANGED <<files, edit, versions, drops, taskVars>>

MergesAgents ==
  /\ loading["agent"] # Unread
  /\ Merges("agent", MergedAgent(loading["agent"].of, loading["agent"].found))
MergesTeams ==
  /\ loading["team"] # Unread
  /\ Merges("team", MergedTeam(loading["team"].of, loading["team"].found))

(* drop_scope: the scope is forgotten, and its files stay.                  *)
AgentsDropped == [index["agent"] EXCEPT !["workspace"] = Nowhere]
TeamsDropped  == [index["team"] EXCEPT !["workspace"] = Nowhere]

(* A workspace was deleted: both registries forget it, and its Tasks are    *)
(* deleted with it.                                                         *)
DropsScope ==
  /\ drops < MaxDrops /\ drops' = drops + 1
  /\ \A kind \in DocKinds : loading[kind] = Unread
  /\ DropsWhileEdited \/ ~\E kind \in DocKinds : Editing(kind, "workspace")
  /\ index' = [kind \in DocKinds |-> IF kind = "agent" THEN AgentsDropped ELSE TeamsDropped]
  /\ loaded' = [kind \in DocKinds |-> loaded[kind] \ {"workspace"}]
  /\ manager' = FALSE /\ prompt' = NoPrompt /\ told' = FALSE
  /\ UNCHANGED <<files, loading, edit, versions>>

-----------------------------------------------------------------------------
(* Requests. What a request finds out before its first change is decided at *)
(* its beginning: the event loop does not turn before the request is over.  *)

Begins(kind, s, step) ==
  /\ edit.at = "over"
  /\ kind = "team" /\ loading[kind].of = s => LoadsWhileUpdated
  /\ kind = "agent" => EditsUnseen \/ manager \/ prompt = NoPrompt
  /\ edit' = [kind |-> kind, of |-> s, new |-> versions', at |-> step]

WithNew == versions < MaxDocuments /\ versions' = versions + 1
AgentsLoaded(s) == {s, "system"} \subseteq loaded["agent"]

(* register, resolve_local and resolve: of a workspace, else of the system. *)
AgentRegistered(s) == MayRegister(s) /\ index' = [index EXCEPT !["agent"][s] = versions']
HasAgent(s) == index["agent"][s] # Nowhere
ResolvesAgent(s) == \E t \in {s, "system"} : HasAgent(t)

(* create_document: registered in memory first, then written.               *)
CreatesAgent(s) ==
  /\ AgentsLoaded(s) /\ files["agent"][s] = Nowhere
  /\ WithNew /\ Begins("agent", s, "create")
  /\ AgentRegistered(s)
  /\ UNCHANGED <<files, loaded, loading, drops, taskVars>>

(* update_document and delete_document.                                     *)
UpdatesAgent(s) ==
  /\ AgentsLoaded(s) /\ HasAgent(s)
  /\ WithNew /\ Begins("agent", s, "replace")
  /\ UNCHANGED <<files, index, loaded, loading, drops, taskVars>>

DeletesAgent(s) ==
  /\ AgentsLoaded(s) /\ HasAgent(s) /\ files["agent"][s] # Nowhere
  /\ UNCHANGED versions /\ Begins("agent", s, "delete")
  /\ UNCHANGED <<files, index, loaded, loading, drops, taskVars>>

(* _validate_node_profiles: the profile of every node is there.             *)
NodesResolve(s) == AgentsLoaded(s) /\ ResolvesAgent(s)

(* _create_configuration_file and update: whether a file is there, not      *)
(* whether its scope was read; delete asks for both.                        *)
TeamIsNew(s) == files["team"][s] = Nowhere
TeamIsThere(s) == files["team"][s] # Nowhere
TeamIsListed(s) == s \in loaded["team"] /\ index["team"][s] # Nowhere

(* save_confirmed, update_confirmed, delete.                                *)
SavesTeam(s) ==
  /\ NodesResolve(s) /\ TeamIsNew(s)
  /\ WithNew /\ Begins("team", s, "create")
  /\ UNCHANGED <<files, index, loaded, loading, drops, taskVars>>

UpdatesTeam(s) ==
  /\ NodesResolve(s) /\ TeamIsThere(s)
  /\ WithNew /\ Begins("team", s, "replace")
  /\ UNCHANGED <<files, index, loaded, loading, drops, taskVars>>

DeletesTeam(s) ==
  /\ TeamIsListed(s) /\ TeamIsThere(s)
  /\ UNCHANGED versions /\ Begins("team", s, "delete")
  /\ UNCHANGED <<files, index, loaded, loading, drops, taskVars>>

(* write_text_atomic: the file is replaced whole, or not at all; an Agent   *)
(* that was registered for it is taken back.                                *)
FileWritten ==
  /\ edit.at \in {"create", "replace"}
  /\ files' = [files EXCEPT ![edit.kind][edit.of] = edit.new]
  /\ edit' = [edit EXCEPT !.at = IF @ = "create" /\ edit.kind = "agent" THEN "swap" ELSE "register"]
  /\ UNCHANGED <<index, loaded, loading, versions, drops, taskVars>>

(* Mutant of TakenBack: the write fails, and the Agent stays.               *)
TakenBackNever == index

TakenBack ==
  IF edit.at = "create" /\ edit.kind = "agent" THEN [index EXCEPT !["agent"][edit.of] = Nowhere] ELSE index

WriteFails ==
  /\ edit.at \in {"create", "replace", "delete"} /\ edit' = NoEdit
  /\ index' = TakenBack
  /\ UNCHANGED <<files, loaded, loading, versions, drops, taskVars>>

(* delete_file: the directory is synchronised after the file is gone.       *)
FileDeleted ==
  /\ edit.at = "delete"
  /\ files' = [files EXCEPT ![edit.kind][edit.of] = Nowhere]
  /\ \/ edit' = [edit EXCEPT !.at = "unregister"]
     \/ SyncFails /\ edit' = NoEdit
  /\ UNCHANGED <<index, loaded, loading, versions, drops, taskVars>>

(* broadcast_runtime_notice: who has a manager is told, and nobody else.    *)
IsNotified == edit.kind = "agent" /\ manager

(* _notify_catalog_change                                                   *)
TellsTask(s, now) ==
  IF IsNotified
  THEN prompt' = [prompt EXCEPT ![s] = now] /\ told' = TRUE /\ UNCHANGED manager
  ELSE UNCHANGED taskVars

(* register of a Team puts what was written in any case; unregister,        *)
(* replace and unregister of an Agent miss what is not there, and the       *)
(* request fails then.                                                      *)
TeamRegistered == [index EXCEPT !["team"][edit.of] = edit.new]
TeamUnregistered == [index EXCEPT !["team"][edit.of] = Nowhere]
AgentReplaced == [index EXCEPT !["agent"][edit.of] = edit.new]
AgentUnregistered == [index EXCEPT !["agent"][edit.of] = Nowhere]

TeamFollows ==
  /\ edit.kind = "team" /\ edit.at \in {"register", "unregister"} /\ edit' = NoEdit
  /\ index' = IF edit.at = "register" THEN TeamRegistered ELSE TeamUnregistered
  /\ UNCHANGED <<files, loaded, loading, versions, drops, taskVars>>

AgentFollows ==
  /\ edit.kind = "agent" /\ edit.at \in {"register", "swap", "unregister"} /\ edit' = NoEdit
  /\ \/ edit.at = "swap" /\ TellsTask(edit.of, edit.new) /\ UNCHANGED index
     \/ /\ edit.at # "swap" /\ index["agent"][edit.of] = Nowhere /\ UNCHANGED <<index, taskVars>>
     \/ /\ edit.at = "register" /\ index["agent"][edit.of] # Nowhere
        /\ index' = AgentReplaced /\ TellsTask(edit.of, edit.new)
     \/ /\ edit.at = "unregister" /\ index["agent"][edit.of] # Nowhere
        /\ index' = AgentUnregistered /\ TellsTask(edit.of, Nowhere)
  /\ UNCHANGED <<files, loaded, loading, versions, drops>>

-----------------------------------------------------------------------------
(* child_agent_summary: what a prompt says that the Task may delegate to.   *)
Advertised == index["agent"]

(* The system prompt is stored with the first Run and read by the others.   *)
PromptStored ==
  IF prompt = NoPrompt THEN loaded["agent"] = Scopes /\ prompt' = Advertised ELSE UNCHANGED prompt

(* A Run of the Task: the manager is made (get_context_manager), with the   *)
(* prompt that was stored when the Task was new, and is gone with the Run.  *)
RunBegins ==
  /\ edit.at = "over" /\ ~manager /\ manager' = TRUE
  /\ PromptStored
  /\ UNCHANGED <<files, index, loaded, loading, edit, versions, drops, told>>

RunEnds ==
  /\ edit.at = "over" /\ manager /\ manager' = FALSE
  /\ UNCHANGED <<files, index, loaded, loading, edit, versions, drops, prompt, told>>

(* The requests of the settings pages.                                      *)
AgentRequests == \E s \in Scopes : CreatesAgent(s) \/ UpdatesAgent(s) \/ DeletesAgent(s)
TeamRequests  == \E s \in Scopes : SavesTeam(s) \/ UpdatesTeam(s) \/ DeletesTeam(s)

CatalogNext ==
  \/ MergesAgents \/ MergesTeams \/ \E s \in Scopes : ReadsAgents(s) \/ ReadsTeams(s)
  \/ AgentRequests \/ TeamRequests
  \/ FileWritten \/ WriteFails \/ FileDeleted \/ AgentFollows \/ TeamFollows
  \/ DropsScope \/ RunBegins \/ RunEnds

CatalogSpec == CatalogInit /\ [][CatalogNext]_catalogVars

-----------------------------------------------------------------------------
Quiet == edit.at = "over" /\ \A kind \in DocKinds : loading[kind] = Unread

(* When no request and no load is under way, the index of a scope that was  *)
(* loaded holds what the files say, of the version that was saved last; it  *)
(* lacks only an Agent of a workspace that has the id of one of the system. *)
IndexIsFiles ==
  Quiet => \A kind \in DocKinds : \A s \in loaded[kind] :
    \/ index[kind][s] = files[kind][s]
    \/ kind = "agent" /\ s = "workspace" /\ index[kind][s] = Nowhere

(* A Task that runs knows of every Agent what it may delegate to now.       *)
TaskKnowsCatalog == (Quiet /\ manager) => prompt = Advertised

(* The configurations in memory are those in the files, and a Task that     *)
(* runs knows them.                                                         *)
CatalogIsTrue == IndexIsFiles /\ TaskKnowsCatalog

(* AgentCatalogChange says of a change: what is not listed is as it was.    *)
ToldIsWhole == (Quiet /\ told) => prompt = Advertised
=============================================================================
