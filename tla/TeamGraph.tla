------------------------------- MODULE TeamGraph -------------------------------
(***************************************************************************)
(* The graph of an Agent Team: what makes a configuration valid, the walk  *)
(* of the coordinator from node to node, and what the view and the archive *)
(* read back from the stored state. TeamRun models how one node is         *)
(* dispatched, awaited and stopped; here a dispatch is a step and the      *)
(* nodes, their statuses and the transitions are what counts.              *)
(***************************************************************************)
EXTENDS Integers, FiniteSets, Sequences

CONSTANTS MaxRounds,    \* bound: max_runs, which the configuration keeps at 10 or more
          MoreRuns      \* bound: Runs of nodes beyond one for each round: somebody wrote to the node

ASSUME TeamGraphAssumption == MaxRounds \in Nat /\ MoreRuns \in Nat

VARIABLES draft,   \* the configuration the user is asked to approve
          row,     \* the stored TeamRun: status, end_reason, state_json
          mem,     \* AgentTeamRunState of _drive
          at,      \* where the proposal or its execution is
          rounds,  \* node executions begun
          runs,    \* the Runs of the nodes, with what the coordinator did after each
          stop     \* _TeamExecution.stop_reason is set

teamGraphVars == <<draft, row, mem, at, rounds, runs, stop>>

-----------------------------------------------------------------------------
(* A configuration: nodes with their statuses, a start, and transitions in   *)
(* the order they are written.                                               *)
END == "END"
Edge(from, status, to) == [from |-> from, status |-> status, to |-> to]
Node(id, statuses)     == [id |-> id, statuses |-> statuses]

Ids(d)        == {d.nodes[n].id : n \in DOMAIN d.nodes}
Duplicated(d) == {d.nodes[n].id : n \in {m \in DOMAIN d.nodes : \E k \in DOMAIN d.nodes :
                                           k # m /\ d.nodes[k].id = d.nodes[m].id}}
NodeMap(d)    == Ids(d) \ Duplicated(d)
Statuses(d, id) == UNION {d.nodes[n].statuses : n \in {m \in DOMAIN d.nodes : d.nodes[m].id = id}}

(* collect_team_graph_issues. A transition of a known node and one of its    *)
(* statuses takes the key; whoever comes later with the same key does not    *)
(* count.                                                                    *)
TakesKey(d, k) ==
  LET e == d.edges[k] IN e.from # END /\ e.from \in NodeMap(d) /\ e.status \in Statuses(d, e.from)
Keys(d) == {<<d.edges[k].from, d.edges[k].status>> : k \in {j \in DOMAIN d.edges : TakesKey(d, j)}}

Verdict(d, k) ==
  LET e == d.edges[k] IN
  CASE e.from = END                         -> "end_as_source"
    [] e.from # END /\ e.from \in Duplicated(d) -> "skipped"
    [] e.from # END /\ e.from \notin Ids(d) -> "unknown_source"
    [] e.from # END /\ e.from \in NodeMap(d) /\ e.status \notin Statuses(d, e.from) -> "undeclared_status"
    [] TakesKey(d, k) /\ (\E j \in 1..(k - 1) : TakesKey(d, j) /\ d.edges[j].from = e.from
                                                /\ d.edges[j].status = e.status) -> "ambiguous_transition"
    [] OTHER -> IF e.to = END \/ e.to \in NodeMap(d) THEN "edge"
                ELSE IF e.to \in Duplicated(d) THEN "skipped" ELSE "unknown_target"

Arcs(d) == {<<d.edges[k].from, d.edges[k].to>> : k \in {j \in DOMAIN d.edges : Verdict(d, j) = "edge"}}

(* _walk_graph                                                               *)
Walked(start, arcs) ==
  LET after[k \in Nat] ==
        IF k = 0 THEN {start} ELSE after[k - 1] \cup {arc[2] : arc \in {a \in arcs : a[1] \in after[k - 1]}}
  IN after[Cardinality(arcs)]
Backwards(arcs) == {<<arc[2], arc[1]>> : arc \in arcs}

StartIsValid(d) == Cardinality({n \in DOMAIN d.nodes : d.nodes[n].id = d.start}) = 1

Issue(code, node) == [code |-> code, node |-> node]
StructureIssues(d) ==
  {Issue("duplicate_node_id", id) : id \in Duplicated(d)}
  \cup {Issue("reserved_end_id", id) : id \in Ids(d) \cap {END}}
  \cup (IF StartIsValid(d) THEN {} ELSE {Issue("invalid_start", d.start)})
  \cup {Issue(Verdict(d, k), d.edges[k].from) : k \in {j \in DOMAIN d.edges : Verdict(d, j) \notin {"edge", "skipped"}}}
  \cup {Issue("status_without_transition", id) :
          id \in {i \in NodeMap(d) : \E s \in Statuses(d, i) : <<i, s>> \notin Keys(d)}}

(* Mutant of ReachIssues: the way to END is looked for along the arrows.    *)
ReachIssuesForward(d) ==
  (IF StartIsValid(d) THEN {Issue("unreachable_node", id) : id \in Ids(d) \ Walked(d.start, Arcs(d))} ELSE {})
  \cup {Issue("dead_end_node", id) : id \in IF END \in Walked(d.start, Arcs(d)) THEN {} ELSE Ids(d)}

ReachIssues(d) ==
  (IF StartIsValid(d) THEN {Issue("unreachable_node", id) : id \in Ids(d) \ Walked(d.start, Arcs(d))} ELSE {})
  \cup {Issue("dead_end_node", id) : id \in Ids(d) \ Walked(END, Backwards(Arcs(d)))}

GraphIssues(d) ==
  IF d.nodes = <<>> THEN {Issue("no_nodes", END)}
  ELSE StructureIssues(d) \cup (IF Duplicated(d) # {} THEN {} ELSE ReachIssues(d))

(* validate_team_graph                                                       *)
AcceptsGraph(d) == GraphIssues(d) = {}

-----------------------------------------------------------------------------
(* The stored state: AgentTeamRunState. Bound: nodes of these names.         *)
NodeIds == {"first", "second"}
NoNode  == "none"
Fresh   == [cursor |-> NoNode, visits |-> [n \in NodeIds |-> <<>>], history |-> <<>>]
NoRow   == [status |-> "none", reason |-> "none", state |-> Fresh]

(* update_status_if_in with the state; stops are taken without it.           *)
Persisted(state)            == [row EXCEPT !.state = state]
RowWith(status, reason, state) == [status |-> status, reason |-> reason, state |-> state]

(* has_next_node                                                             *)
Targets(node, status) == {d.to : d \in {draft.edges[k] : k \in {j \in DOMAIN draft.edges :
                            draft.edges[j].from = node /\ draft.edges[j].status = status}}}

-----------------------------------------------------------------------------
(* The configurations: every assignment of targets to the statuses of two    *)
(* nodes or of one, with one mistake or none.                                *)
Pairs == <<Edge("first", "ok", END), Edge("first", "bad", END), Edge("second", "ok", END)>>
Choosable == NodeIds \cup {END, "left out"}

Written(to) == SelectSeq([k \in 1..3 |-> [Pairs[k] EXCEPT !.to = to[k]]], LAMBDA e : e.to # "left out")

Both == <<Node("first", {"ok", "bad"}), Node("second", {"ok"})>>
Graph(nodes, start, edges) == [nodes |-> nodes, start |-> start, edges |-> edges]

Mistakes == {Edge(END, "ok", "first"), Edge("stranger", "ok", END), Edge("second", "bad", END),
             Edge("first", "ok", "second"), Edge("second", "ok", "stranger")}
Configurations ==
  LET plain == [1..3 -> Choosable] IN
  {Graph(Both, start, Written(to)) : start \in NodeIds, to \in plain}
  \cup {Graph(Both, "first", <<e>> \o Written(to)) : e \in Mistakes, to \in plain}
  \cup {Graph(Both \o <<Node(id, {"ok"})>>, "first", Written(to)) : id \in {"second", END}, to \in plain}
  \cup {Graph(<<Node("first", {"ok", "bad"})>>, start, Written(to)) : start \in NodeIds, to \in plain}
  \cup {Graph(<<>>, "first", <<>>)}

TeamGraphInit ==
  /\ draft \in Configurations
  /\ row = NoRow /\ mem = Fresh /\ at = "drafting" /\ rounds = 0 /\ runs = <<>> /\ stop = FALSE

-----------------------------------------------------------------------------
(* prepare_team_run: a subgoal for every node and for no other.              *)
GoalsFit(goals) == goals = Ids(draft)

(* resolve_node_profile, resolve_node_model: the Agent of every node is a    *)
(* child Agent that exists, and it or the main Agent has a model.            *)
ProfilesFound(d, agents) == Ids(d) \subseteq agents
ModelsFound(d, models)   == "main" \in models \/ Ids(d) \subseteq models

Prepares(goals, agents, models) ==
  /\ at = "drafting" /\ GoalsFit(goals)
  /\ ProfilesFound(draft, agents) /\ ModelsFound(draft, models) /\ AcceptsGraph(draft)
  /\ row' = RowWith("pending", "none", Fresh) /\ at' = "pending"
  /\ UNCHANGED <<draft, mem, rounds, runs, stop>>

Rejects ==
  /\ at = "pending"
  /\ row' = RowWith("cancelled", "user_rejected", Fresh) /\ at' = "rest"
  /\ UNCHANGED <<draft, mem, rounds, runs, stop>>

(* confirm: the user may have edited the plan, which is validated and        *)
(* prepared again; a node's Agent or its model may have gone since.          *)
Confirms(d, agents, models) ==
  /\ at = "pending"
  /\ IF AcceptsGraph(d) /\ ProfilesFound(d, agents) /\ ModelsFound(d, models)
     THEN /\ draft' = d
          /\ row' = RowWith("running", "none", Fresh) /\ at' = "round"
          /\ mem' = [Fresh EXCEPT !.cursor = d.start]
     ELSE row' = RowWith("failed", "team_start_failed", Fresh) /\ at' = "rest" /\ UNCHANGED <<draft, mem>>
  /\ UNCHANGED <<rounds, runs, stop>>

(* _fail: the cursor stands on the node that failed.                         *)
Fails(reason) == row' = RowWith("failed", reason, mem) /\ at' = "rest"

(* The head of the loop in _drive.                                           *)
RoundBegins ==
  /\ at = "round" /\ ~stop
  /\ IF rounds >= MaxRounds
     THEN Fails("max_runs_exceeded") /\ UNCHANGED rounds
     ELSE row' = Persisted(mem) /\ at' = "enqueue" /\ rounds' = rounds + 1
  /\ UNCHANGED <<draft, mem, runs, stop>>

(* _enqueue_node; the Task of the node or its tools cannot be had: raises.   *)
NodeEnqueued ==
  /\ at = "enqueue"
  /\ row' = Persisted(mem) /\ at' = "dispatched"
  /\ UNCHANGED <<draft, mem, rounds, runs, stop>>
DispatchFails ==
  /\ at = "enqueue"
  /\ Fails("next_node_start_failed")
  /\ UNCHANGED <<draft, mem, rounds, runs, stop>>

(* _await_node_run: a Run that is not known yet joins those of the node.     *)
NewRun(node) == [node |-> node, status |-> "running", output |-> "none", took |-> NoNode]

NodeRunOpens ==
  /\ \/ at = "dispatched"
     \/ at = "awaiting" /\ runs[Len(runs)].status # "running" /\ ~stop
        /\ Len(runs) < rounds + MoreRuns
  /\ runs' = Append(runs, NewRun(mem.cursor))
  /\ mem' = [mem EXCEPT !.visits[mem.cursor] = Append(@, Len(runs) + 1)]
  /\ row' = Persisted(mem') /\ at' = "awaiting"
  /\ UNCHANGED <<draft, rounds, stop>>

Outputs == {"ok", "bad", "broken"}
NodeRunEnds(status, output) ==
  /\ at = "awaiting" /\ runs[Len(runs)].status = "running"
  /\ stop => status = "cancelled"
  /\ runs' = [runs EXCEPT ![Len(runs)] = [@ EXCEPT !.status = status,
                                             !.output = IF status = "completed" THEN output ELSE "none"]]
  /\ UNCHANGED <<draft, row, mem, at, rounds, stop>>

(* The node is quiescent: _parse_handoff and has_next_node. Nothing is       *)
(* stored before the next round begins or the Team has ended.                *)
Moved(status, to) ==
  [mem EXCEPT !.history = Append(@, Edge(mem.cursor, status, to)),
              !.cursor  = IF to = END THEN @ ELSE to]

NodeSettles ==
  /\ at = "awaiting" /\ ~stop
  /\ LET last == runs[Len(runs)]
         to   == Targets(mem.cursor, last.output)
     IN /\ last.status # "running"
        /\ IF last.status # "completed"
           THEN /\ Fails(IF last.status = "cancelled" THEN "node_run_cancelled" ELSE "node_run_failed")
                /\ UNCHANGED <<mem, runs>>
           ELSE IF last.output = "broken" THEN Fails("node_output_invalid") /\ UNCHANGED <<mem, runs>>
           ELSE IF to = {} THEN Fails("transition_not_found") /\ UNCHANGED <<mem, runs>>
           ELSE \E target \in to :
                  /\ mem' = Moved(last.output, target)
                  /\ runs' = [runs EXCEPT ![Len(runs)].took = target]
                  /\ IF target = END THEN row' = RowWith("completed", "none", mem') /\ at' = "rest"
                     ELSE at' = "round" /\ UNCHANGED row
  /\ UNCHANGED <<draft, rounds, stop>>

(* request_stop is heard at the next look; _cancel_if_active leaves the      *)
(* stored state as it is.                                                    *)
StopAsked ==
  /\ at \in {"round", "enqueue", "dispatched", "awaiting"} /\ ~stop
  /\ stop' = TRUE
  /\ UNCHANGED <<draft, row, mem, at, rounds, runs>>
StopHeard ==
  /\ stop /\ at \in {"round", "dispatched", "awaiting"}
  /\ at = "awaiting" => runs[Len(runs)].status # "running"
  /\ row' = RowWith("cancelled", "cancelled", row.state) /\ at' = "rest"
  /\ UNCHANGED <<draft, mem, rounds, runs, stop>>

(* A crash, and recover_after_restart: the Team first, the Runs later.       *)
Restarts ==
  /\ at \in {"round", "enqueue", "dispatched", "awaiting"}
  /\ row' = RowWith("cancelled", "runtime_restarted", row.state) /\ at' = "left" /\ mem' = Fresh
  /\ UNCHANGED <<draft, rounds, runs, stop>>
RunsRecovered ==
  /\ at = "left" /\ at' = "rest"
  /\ runs' = [k \in DOMAIN runs |->
                IF runs[k].status = "running" THEN [runs[k] EXCEPT !.status = "cancelled"] ELSE runs[k]]
  /\ UNCHANGED <<draft, row, mem, rounds, stop>>

ModelSets == {{}, {"first"}, {"main"}}
TeamGraphNext ==
  \/ \E goals \in SUBSET (NodeIds \cup {END}), agents \in SUBSET NodeIds, models \in ModelSets :
       Prepares(goals, agents, models)
  \/ Rejects \/ RoundBegins \/ NodeEnqueued \/ DispatchFails \/ NodeRunOpens \/ NodeSettles
  \/ \E agents \in SUBSET NodeIds, models \in ModelSets :
       Confirms(draft, agents, models) \/ Confirms(Graph(Both, "second", draft.edges), agents, models)
  \/ \E status \in {"completed", "failed", "cancelled"}, output \in Outputs : NodeRunEnds(status, output)
  \/ StopAsked \/ StopHeard \/ Restarts \/ RunsRecovered

TeamGraphSpec == TeamGraphInit /\ [][TeamGraphNext]_teamGraphVars

TeamGraphTypeOK ==
  /\ row.status \in {"none", "pending", "running", "completed", "failed", "cancelled"}
  /\ at \in {"drafting", "pending", "round", "enqueue", "dispatched", "awaiting", "left", "rest"}
  /\ rounds \in 0..MaxRounds /\ Len(runs) <= rounds + MoreRuns
  /\ \A state \in {row.state, mem} : state.cursor \in NodeIds \cup {NoNode}

-----------------------------------------------------------------------------
(* What is read back from the row: failed_node_id, the archive of            *)
(* write_terminal_archive, the visits and statuses of get_view.              *)
OnItsNode == {"node_run_failed", "node_run_cancelled", "node_output_invalid", "transition_not_found",
              "next_node_start_failed"}
FailedNode == IF row.status = "failed" /\ row.reason \in OnItsNode THEN row.state.cursor ELSE NoNode

TakenFrom(node) == SelectSeq(row.state.history, LAMBDA e : e.from = node)

Decision(node, visit) ==
  IF visit <= Len(TakenFrom(node)) THEN TakenFrom(node)[visit] ELSE Edge(node, "none", NoNode)

Placeholder(node) ==
  /\ row.status = "running" /\ row.state.cursor = node
  /\ Len(row.state.visits[node]) <= Len(TakenFrom(node))

NodeStatus(node) ==
  LET visits == row.state.visits[node] IN
  IF FailedNode = node THEN "failed"
  ELSE IF Placeholder(node) THEN "running"
  ELSE IF visits # <<>> THEN runs[visits[Len(visits)]].status
  ELSE IF row.status \in {"completed", "failed", "cancelled"} THEN "skipped" ELSE "queued"

-----------------------------------------------------------------------------
(* The validator is exact: it finds nothing wrong with a configuration just  *)
(* when its nodes have different names other than END, the start is one of   *)
(* them, each status of each node has one transition and no other exists,    *)
(* every node can be reached and can reach END. So an approved Team never    *)
(* misses a transition unless a node reports a status that is not its own    *)
(* (graph_validation.py, collect_team_graph_issues; team_coordinator.py,     *)
(* TRANSITION_NOT_FOUND).                                                    *)
Closed(set, arcs) == \A arc \in arcs : arc[1] \in set => arc[2] \in set
Leads(from, to, arcs, all) == \A set \in SUBSET all : from \in set /\ Closed(set, arcs) => to \in set

IsRoutable(d) ==
  LET ids  == Ids(d)
      arcs == {<<d.edges[k].from, d.edges[k].to>> : k \in DOMAIN d.edges}
      all  == ids \cup {END}
  IN /\ Cardinality(ids) = Len(d.nodes) /\ END \notin ids /\ d.start \in ids
     /\ \A k \in DOMAIN d.edges : d.edges[k].from \in ids /\ d.edges[k].status \in Statuses(d, d.edges[k].from)
                                  /\ d.edges[k].to \in all
     /\ \A id \in ids : \A s \in Statuses(d, id) :
          Cardinality({k \in DOMAIN d.edges : d.edges[k].from = id /\ d.edges[k].status = s}) = 1
     /\ \A id \in ids : Leads(d.start, id, arcs, all) /\ Leads(id, END, arcs, all)

GraphIsSound ==
  /\ AcceptsGraph(draft) <=> IsRoutable(draft)
  /\ row.reason = "transition_not_found" =>
       runs[Len(runs)].output \notin Statuses(draft, runs[Len(runs)].node)

(* The archive tells what happened: a decision it gives to a visit was the   *)
(* output of that visit's Run and where the coordinator went from it; only   *)
(* the last visit of a Team that did not complete has none; and the visits   *)
(* in the order of their Runs are a walk from the start                      *)
(* (agent_team_run_archive_service.py, _build_document, which pairs the      *)
(* visits of a node with its transitions by their index).                    *)
HistoryIsTrue ==
  at \in {"left", "rest"} =>
    /\ \A node \in NodeIds : \A visit \in DOMAIN row.state.visits[node] :
         LET id == row.state.visits[node][visit]
             decision == Decision(node, visit)
         IN /\ runs[id].node = node
            /\ decision.to # NoNode => decision.to = runs[id].took /\ decision.status = runs[id].output
            /\ decision.to = NoNode => id = Len(runs) /\ row.status # "completed"
            /\ IF id = 1 THEN node = draft.start ELSE runs[id - 1].took = node
    /\ \A id \in DOMAIN runs : \E node \in NodeIds : id \in {row.state.visits[node][v] : v \in DOMAIN row.state.visits[node]}

(* The view of a Team points at the node that works: the one that was        *)
(* dispatched and has no Run yet, on a first visit and on a later one, or    *)
(* the one whose Run has not ended; no node works once the Team has ended    *)
(* and the Runs a restart left behind are taken back                         *)
(* (agent_team_execution_timeline.py, project_node_visits;                   *)
(* agent_team_run_service.py, get_view).                                     *)
AtWork ==
  IF at \in {"enqueue", "dispatched"} \/ (at = "awaiting" /\ runs[Len(runs)].status = "running")
  THEN {mem.cursor} ELSE {}
ViewPointsAtWork == at # "left" => {n \in NodeIds \cap Ids(draft) : NodeStatus(n) = "running"} = AtWork

TeamViewIsTrue == HistoryIsTrue /\ ViewPointsAtWork
=============================================================================
