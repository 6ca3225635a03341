------------------------------- MODULE MCTools -------------------------------
(***************************************************************************)
(* Finite instances of the tools and of what they rest on: files and their *)
(* browser, terminals, MCP servers and the host. They share no variable:   *)
(* each initial state chooses the part that is looked at, and the others   *)
(* stand still.                                                            *)
(***************************************************************************)
EXTENDS McpPool, FileTools, TerminalProps, WorkspaceFiles, HostLink, TerminalWorker,
        TLC

CONSTANTS Parts,                      \* the parts a run looks at
          f1, f2, f3, t1, t2

VARIABLE part

-----------------------------------------------------------------------------
(* Two Tasks: one makes two calls in a step, the other one.                 *)
MCBatch == (t1 :> <<f1, f2>>) @@ (t2 :> <<f3>>)
PlanOf(x, y, z) == (f1 :> x) @@ (f2 :> y) @@ (f3 :> z)
MCPlans == {PlanOf("replace", "patch", "write"), PlanOf("patch", "move", "write"),
            PlanOf("move", "search", "patch"), PlanOf("job", "delete", "move"),
            PlanOf("ask", "write", "ask"), PlanOf("write", "search", "delete")}
MCText == {<<"query", "query">>}
JobPlans == {PlanOf("job", "write", "search")}

-----------------------------------------------------------------------------
(* A part that stands still has one initial state.                          *)
ToolsInit ==
  /\ part \in Parts
  /\ McpInit /\ ChannelInit /\ ExecInit /\ HostInit /\ WorkerInit
  /\ IF part = "file" THEN FileInit
     ELSE FilesAt("done") /\ plan = (CHOOSE p \in Plans : TRUE) /\ \A f \in Files : file[f] = Absent
  /\ FilesInit   /\ (part # "files"   => \A d \in Dirs : OnDisk(d) = {})

ToolsNext ==
  /\ UNCHANGED part
  /\ IF part = "mcp"        THEN McpNext        ELSE UNCHANGED mcpVars
  /\ IF part = "file"       THEN FileNext       ELSE UNCHANGED fileVars
  /\ IF part = "channel"    THEN ChannelNext    ELSE UNCHANGED channelVars
  /\ IF part = "exec"       THEN ExecNext       ELSE UNCHANGED execVars
  /\ IF part = "files"      THEN FilesNext      ELSE UNCHANGED filesVars
  /\ IF part = "host"       THEN HostNext       ELSE UNCHANGED hostVars
  /\ IF part = "worker"     THEN WorkerNext     ELSE UNCHANGED workerVars

AllVars == <<part, mcpVars, fileVars, channelVars, execVars, filesVars, hostVars,
             workerVars>>

ToolsSpec == ToolsInit /\ [][ToolsNext]_AllVars

(* The parts that stand still have nothing to do in their initial state, so  *)
(* their fairness asks nothing.                                            *)
FairToolsSpec ==
  /\ ToolsSpec
  /\ McpFairness /\ FileFairness /\ ChannelFairness /\ ExecFairness /\ FilesFairness /\ HostFairness
  /\ WorkerFairness

(* The calls of MCP tools, and those of host tools, are alike.              *)
ToolsSymmetry == Permutations(McpCalls) \union Permutations(HostCalls)

ToolsTypeOK ==
  CASE part = "mcp"        -> McpTypeOK
    [] part = "file"       -> FileTypeOK
    [] part = "channel"    -> ChannelTypeOK
    [] part = "exec"       -> ExecTypeOK
    [] part = "files"      -> FilesTypeOK
    [] part = "host"       -> HostTypeOK
    [] part = "worker"     -> WorkerTypeOK

-----------------------------------------------------------------------------
(* Calls of tools, commands, workers of terminals and views come to an end. *)
ToolsComeToRest ==
  /\ CallsEnd /\ ProcessCallsEnd /\ CommandReturns /\ EndsWithLink /\ WorkerEnds /\ ReaderGoesOn
  /\ ViewEnds /\ ViewIsFresh
=============================================================================
