------------------------------- MODULE MCViews -------------------------------
(***************************************************************************)
(* Finite instances of what turns one form of the data into another: the   *)
(* view of a conversation, the configuration, the edit of a patch, the     *)
(* pages of a file, what is typed into a terminal and what its worker      *)
(* shows, the input of a user with its attachments, the graph of a Team    *)
(* and the view of its run, and the mirrors of what lives in the process.  *)
(* They share no variable: each initial state chooses the part that is     *)
(* looked at, and the others stand still.                                  *)
(***************************************************************************)
EXTENDS ProjectionRun, Catalog, PatchText, Paging, ShellProps, UserInput, TeamGraph,
        LiveState, TLC

CONSTANT Parts   \* the parts a run looks at

VARIABLE part

MCScripts == {<<"text", "p1">>, <<"query", "query">>}
MCPast == <<"old">>
MCWords == {<<"a">>, <<"b", "a">>}

-----------------------------------------------------------------------------
LiveParts == {"board", "handoffs", "terminals"}   \* of LiveState, one at a time

(* A part that stands still has one initial state.                          *)
ViewsInit ==
  /\ part \in Parts
  /\ part # "catalog" => files = [d \in DocKinds |-> [s \in Scopes |-> Nowhere]]
  /\ part # "patch"   => seenLines = <<>>
  /\ part # "input"   => kind = [w \in WriteCalls |-> "line"]
  /\ part # "graph"   => draft = CHOOSE d \in Configurations : TRUE
  /\ part # "paging"  => tool = "lines" /\ whole = <<>>
  /\ ProjectionInit /\ CatalogInit /\ PatchInit /\ WorkerInit /\ InputInit /\ UserInputInit
  /\ LiveInit /\ TeamGraphInit /\ PagingInit

ViewsNext ==
  /\ UNCHANGED part
  /\ IF part = "projection" THEN ProjectionNext ELSE UNCHANGED projectionVars
  /\ IF part = "catalog"    THEN CatalogNext    ELSE UNCHANGED catalogVars
  /\ IF part = "patch"      THEN PatchNext      ELSE UNCHANGED patchVars
  /\ IF part = "input"      THEN InputNext      ELSE UNCHANGED inputVars
  /\ IF part = "worker"     THEN WorkerNext     ELSE UNCHANGED workerVars
  /\ IF part = "paging"     THEN PagingNext     ELSE UNCHANGED pagingVars
  /\ IF part = "message"    THEN UserInputNext  ELSE UNCHANGED userInputVars
  /\ IF part = "graph"      THEN TeamGraphNext  ELSE UNCHANGED teamGraphVars
  /\ IF part \in LiveParts THEN LiveNext       ELSE UNCHANGED liveVars
  /\ part = "board"     => UNCHANGED <<leases, opened, ended>>
  /\ part = "handoffs"  => UNCHANGED <<callRow, listens, opened, ended>>
  /\ part = "terminals" => UNCHANGED <<callRow, listens, leases, rerun>>

ViewsSpec == ViewsInit /\ [][ViewsNext]_<<part, projectionVars, catalogVars, patchVars, pagingVars,
                                    inputVars, workerVars, userInputVars, teamGraphVars, liveVars>>

ViewsTypeOK ==
  CASE part = "projection" -> ProjectionTypeOK
    [] part = "catalog"    -> CatalogTypeOK
    [] part = "patch"      -> PatchTypeOK
    [] part = "input"      -> InputTypeOK
    [] part = "worker"     -> WorkerTypeOK
    [] part = "paging"     -> PagingTypeOK
    [] part = "message"    -> UserInputTypeOK
    [] part = "graph"      -> TeamGraphTypeOK
    [] part \in LiveParts  -> LiveTypeOK

(* What is shown of a Task, live or made anew, of its conversation and of   *)
(* what lives in the process.                                              *)
SnapshotIsSound ==
  /\ part = "projection" => SnapshotIsCanonical /\ SnapshotIsValid /\ PagesKeepTurns
  /\ part \in LiveParts => LiveIsTrue

(* What a tool shows in pages is all there is, and all that was found.      *)
PagesAreSound == PagesMakeWhole /\ NoOccurrenceIsMissed

(* What the user said reaches the model, and attachments are stored once.   *)
MessageIsSound == InputIsShown /\ StoreIsCanonical

(* A Team that may be saved can end, and the view of its run is true.       *)
TeamGraphIsSound == GraphIsSound /\ TeamViewIsTrue
=============================================================================
