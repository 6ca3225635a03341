------------------------------- MODULE McpPool -------------------------------
(***************************************************************************)
(* The pool of long-lived MCP connections (tools/mcp/connection_pool.py)   *)
(* and the tool that calls through it (tool_handler/mcp_tool.py), for one  *)
(* server: servers share nothing but the loop. A call is a coroutine on    *)
(* the loop of the pool, and a thread that waits for it and may give up. A *)
(* connection is an owner task that holds the session. Every await of a    *)
(* coroutine is a value of "at", and two awaits of two coroutines          *)
(* interleave freely.                                                      *)
(***************************************************************************)
EXTENDS Integers, FiniteSets

CONSTANTS McpCalls,
          NoMcpCall,
          MaxConnections,   \* bound: connections opened in a behaviour
          MaxEdits,         \* bound: changes of the configuration and of the catalog
          ClosesWhileOpening,  \* whether the pool may close while it connects
          NotifiesWhileListing \* whether the catalog may change while it is fetched

ASSUME McpAssumption ==
  /\ NoMcpCall \notin McpCalls
  /\ {MaxConnections, MaxEdits} \subseteq Nat
  /\ {ClosesWhileOpening, NotifiesWhileListing} \subseteq BOOLEAN

VARIABLES
  config,     \* the configured server: its fingerprint, or "off"
  catalog,    \* whether the server offers the tool that is wanted
  edits,
  connection, \* _Connection, by number
  opened,     \* how many were made
  pooled,     \* the number in _connections, or 0
  holder,     \* who holds the open lock of the server
  mcp,        \* the coroutine of a call
  dropped,    \* the cancellation of the future: "no", "pending", "delivered"
  closed      \* the pool: "no", "closing", "waiting", "stopped"

serverVars == <<config, catalog, edits>>
mcpVars == <<serverVars, connection, opened, pooled, holder, mcp, dropped, closed>>

Fingerprints == {"a", "b"}
Connections == 1..MaxConnections
Unknown == "unknown"
Catalogs == {"with", "without"}   \* of the tool that is wanted

Unborn == [fp |-> "a", own |-> "none", ready |-> "no", closing |-> FALSE,
           tools |-> Unknown, notified |-> FALSE]
Fresh(fp) == [Unborn EXCEPT !.fp = fp, !.own = "opening"]

Waiting == {"lock", "discard", "connect", "undo", "listing", "listed", "calling", "failing"}
(* "using" is not an await: the step after it is the code that follows.     *)
Using   == {"using", "listing", "listed", "calling", "failing"}

Idle == [at |-> "new", fp |-> "a", on |-> 0, seen |-> Unknown, refreshed |-> FALSE,
         wants |-> "call"]

McpTypeOK ==
  /\ config \in Fingerprints \cup {"off"} /\ catalog \in Catalogs /\ edits \in 0..MaxEdits
  /\ connection \in [Connections ->
       [fp : Fingerprints, own : {"none", "opening", "open", "ended"},
        ready : {"no", "yes", "failed"}, closing : BOOLEAN,
        tools : Catalogs \cup {Unknown}, notified : BOOLEAN]]
  /\ opened \in 0..MaxConnections /\ pooled \in 0..MaxConnections
  /\ holder \in McpCalls \cup {NoMcpCall}
  /\ mcp \in [McpCalls ->
       [at : Waiting \cup {"new", "using", "ended"}, fp : Fingerprints,
        on : 0..MaxConnections, seen : Catalogs \cup {Unknown}, refreshed : BOOLEAN,
        wants : {"list", "call"}]]
  /\ dropped \in [McpCalls -> {"no", "pending", "delivered"}]
  /\ closed \in {"no", "closing", "waiting", "stopped"}

McpInit ==
  /\ config = "a" /\ catalog = "without" /\ edits = 0
  /\ connection = [k \in Connections |-> Unborn]
  /\ opened = 0 /\ pooled = 0 /\ holder = NoMcpCall
  /\ mcp = [c \in McpCalls |-> Idle]
  /\ dropped = [c \in McpCalls |-> "no"]
  /\ closed = "no"

-----------------------------------------------------------------------------
(* A connection.                                                            *)

Alive(k) == connection[k].own = "open"

(* in_flight: the calls between the two ends of _use.                       *)
InFlight(k) == {c \in McpCalls : mcp[c].on = k /\ mcp[c].at \in Using}

(* _wait_owner: the owner has ended, or five seconds are over and it is     *)
(* cancelled. Which comes first is up to the server.                        *)
CloseReturns(k) == TRUE

(* _discard: the connection leaves the pool and is asked to close.          *)
Discard(k) ==
  /\ pooled' = IF pooled = k THEN 0 ELSE pooled
  /\ connection' = [connection EXCEPT ![k].closing = TRUE]

(* _own: the handshake succeeds, fails, or the transport breaks later; a    *)
(* connection that is asked to close ends.                                  *)
Ready(k) ==
  /\ connection[k].own = "opening"
  /\ connection' = [connection EXCEPT ![k].own = "open", ![k].ready = "yes"]

CallEnds(k) ==
  /\ connection[k].own \in {"opening", "open"}
  /\ connection' = [connection EXCEPT ![k] =
       [@ EXCEPT !.own = "ended", !.tools = Unknown, !.notified = FALSE,
                 !.ready = IF connection[k].ready = "no" THEN "failed" ELSE connection[k].ready]]

(* Mutant of Notified: the message is logged, and the copy is kept.         *)
NotifiedOnly(k) ==
  /\ connection[k].notified /\ Alive(k)
  /\ connection' = [connection EXCEPT ![k].notified = FALSE]

(* _on_message: the catalog has changed, and the copy is thrown away.       *)
Notified(k) ==
  /\ connection[k].notified /\ Alive(k)
  /\ NotifiesWhileListing \/ \A c \in InFlight(k) : mcp[c].at \notin {"listing", "listed"}
  /\ connection' = [connection EXCEPT ![k].notified = FALSE, ![k].tools = Unknown]

Owner ==
  /\ closed # "stopped"
  /\ \E k \in 1..opened : Ready(k) \/ CallEnds(k) \/ Notified(k)
  /\ UNCHANGED <<serverVars, opened, pooled, holder, mcp, dropped, closed>>

(* The user edits the configuration; the server changes its tools and says  *)
(* so to every session.                                                     *)
Edit ==
  /\ edits < MaxEdits /\ edits' = edits + 1
  /\ \/ /\ config' \in (Fingerprints \cup {"off"}) \ {config}
        /\ UNCHANGED <<catalog, connection>>
     \/ /\ catalog' \in Catalogs \ {catalog}
        /\ connection' = [k \in Connections |->
             IF Alive(k) THEN [connection[k] EXCEPT !.notified = TRUE] ELSE connection[k]]
        /\ UNCHANGED config
  /\ UNCHANGED <<opened, pooled, holder, mcp, dropped, closed>>

-----------------------------------------------------------------------------
(* The coroutine of a call.                                                 *)

Finish(c) == mcp' = [mcp EXCEPT ![c] = [Idle EXCEPT !.at = "ended"]]

(* MCPTool.execute and submit: the configuration is read once, and the call *)
(* carries what it said; a closed pool refuses.                             *)
Submit(c) ==
  /\ mcp[c].at = "new"
  /\ \E wants \in {"list", "call"} :
       IF config = "off" \/ closed # "no"
       THEN Finish(c)
       ELSE mcp' = [mcp EXCEPT ![c].at = "lock", ![c].fp = config, ![c].wants = wants]
  /\ UNCHANGED <<serverVars, connection, opened, pooled, holder, dropped, closed>>

LockIsFree(c) == holder = NoMcpCall

(* _acquire: the connection in the pool, when it lives and was opened for   *)
(* this configuration.                                                      *)
Reusable(c) == pooled # 0 /\ Alive(pooled) /\ connection[pooled].fp = mcp[c].fp

Reuse(c) ==
  /\ mcp[c].at = "lock" /\ LockIsFree(c) /\ Reusable(c)
  /\ mcp' = [mcp EXCEPT ![c].at = "using", ![c].on = pooled]
  /\ UNCHANGED <<connection, opened, pooled, holder>>

(* _acquire: another one is discarded first, under the lock.                *)
Replace(c) ==
  /\ mcp[c].at = "lock" /\ LockIsFree(c) /\ pooled # 0 /\ ~Reusable(c)
  /\ Discard(pooled)
  /\ holder' = c
  /\ mcp' = [mcp EXCEPT ![c].at = "discard", ![c].on = pooled]
  /\ UNCHANGED opened

(* _Connection.open: an owner task is started, and waited for.              *)
Open(c) ==
  /\ \/ mcp[c].at = "lock" /\ LockIsFree(c) /\ pooled = 0
     \/ mcp[c].at = "discard" /\ CloseReturns(mcp[c].on)
  /\ opened < MaxConnections
  /\ opened' = opened + 1 /\ holder' = c
  /\ connection' = [connection EXCEPT ![opened + 1] = Fresh(mcp[c].fp)]
  /\ mcp' = [mcp EXCEPT ![c].at = "connect", ![c].on = opened + 1]
  /\ UNCHANGED pooled

Opened(c) ==
  /\ mcp[c].at = "connect" /\ connection[mcp[c].on].ready = "yes"
  /\ pooled' = mcp[c].on /\ holder' = NoMcpCall
  /\ mcp' = [mcp EXCEPT ![c].at = "using"]
  /\ UNCHANGED <<connection, opened>>

(* The handshake failed, or takes longer than thirty seconds, or the call   *)
(* was given up: what was opened is closed before the lock is released.     *)
OpenFails(c) ==
  /\ mcp[c].at = "connect"
  /\ connection' = [connection EXCEPT ![mcp[c].on].closing = TRUE]
  /\ mcp' = [mcp EXCEPT ![c].at = "undo"]
  /\ dropped' = [dropped EXCEPT ![c] = IF @ = "pending" THEN "delivered" ELSE @]
  /\ UNCHANGED <<opened, pooled, holder>>

Undone(c) ==
  /\ mcp[c].at = "undo" /\ CloseReturns(mcp[c].on)
  /\ holder' = NoMcpCall
  /\ Finish(c)
  /\ UNCHANGED <<connection, opened, pooled>>

(* tools: without a cached catalog, the session is asked for it.            *)
Ask(c) ==
  /\ mcp[c].at = "using" /\ Alive(mcp[c].on) /\ connection[mcp[c].on].tools = Unknown
  /\ mcp' = [mcp EXCEPT ![c].at = "listing"]
  /\ UNCHANGED <<connection, opened, pooled, holder>>

(* The server answers with its tools of that moment.                        *)
Listed(c) ==
  /\ mcp[c].at = "listing" /\ Alive(mcp[c].on)
  /\ mcp' = [mcp EXCEPT ![c].at = "listed", ![c].seen = catalog]
  /\ UNCHANGED <<connection, opened, pooled, holder>>

(* The catalog is at hand: the answer that has come, or the cached one.     *)
AtHand(c) ==
  \/ mcp[c].at = "listed"
  \/ mcp[c].at = "using" /\ connection[mcp[c].on].tools # Unknown
Offered(c) == IF mcp[c].at = "listed" THEN mcp[c].seen ELSE connection[mcp[c].on].tools

(* list_tools, has_tool: a tool that is missing is looked for once more,    *)
(* and then it is an error of the call, not of the connection.              *)
Looked(c) ==
  /\ AtHand(c)
  /\ LET again   == mcp[c].wants = "call" /\ Offered(c) = "without" /\ ~mcp[c].refreshed
         missing == mcp[c].wants = "call" /\ Offered(c) = "without" /\ mcp[c].refreshed IN
     /\ missing => Alive(mcp[c].on)
     /\ connection' = [connection EXCEPT ![mcp[c].on].tools = IF again THEN Unknown ELSE Offered(c)]
     /\ CASE again   -> mcp' = [mcp EXCEPT ![c].at = "listing", ![c].refreshed = TRUE]
          [] missing -> Finish(c)
          [] OTHER   -> IF mcp[c].wants = "list" THEN Finish(c)
                        ELSE mcp' = [mcp EXCEPT ![c].at = "calling"]
  /\ UNCHANGED <<opened, pooled, holder>>

(* call_tool: the server answers, with a result or with an error of its own.*)
Called(c) ==
  /\ mcp[c].at = "calling" /\ Alive(mcp[c].on)
  /\ Finish(c)
  /\ UNCHANGED <<connection, opened, pooled, holder>>

(* _use: a failure of the connection discards it; who comes second does not *)
(* wait.                                                                    *)
Fails(c) ==
  /\ mcp[c].at \in {"using", "listing", "listed", "calling"}
  /\ mcp[c].at \in {"using", "listed"} => ~Alive(mcp[c].on)
  /\ Discard(mcp[c].on)
  /\ IF connection[mcp[c].on].closing THEN Finish(c)
     ELSE mcp' = [mcp EXCEPT ![c].at = "failing"]
  /\ UNCHANGED <<opened, holder>>

Failed(c) ==
  /\ mcp[c].at = "failing" /\ CloseReturns(mcp[c].on)
  /\ Finish(c)
  /\ UNCHANGED <<connection, opened, pooled, holder>>

(* The future was cancelled: CancelledError at the next await. The lock is  *)
(* released on the way out, and a connection that is being opened is undone.*)
Cancelled(c) ==
  /\ dropped[c] = "pending" /\ mcp[c].at \in Waiting \ {"connect"}
  /\ holder' = IF holder = c THEN NoMcpCall ELSE holder
  /\ dropped' = [dropped EXCEPT ![c] = IF @ = "pending" THEN "delivered" ELSE @]
  /\ Finish(c)
  /\ UNCHANGED <<connection, opened, pooled>>

Coroutine(c) ==
  /\ closed # "stopped"
  /\ \/ OpenFails(c) \/ Cancelled(c)
     \/ /\ \/ Reuse(c) \/ Replace(c) \/ Open(c) \/ Opened(c) \/ Undone(c)
           \/ Ask(c) \/ Listed(c) \/ Looked(c) \/ Called(c) \/ Fails(c) \/ Failed(c)
        /\ UNCHANGED dropped
  /\ UNCHANGED <<serverVars, closed>>

(* wait_for_call: the thread takes the answer when there is one; or it gives *)
(* up (the Task stops, the call is cancelled, its time is over) and cancels *)
(* the future.                                                              *)
GivesUp(c) ==
  /\ mcp[c].at \notin {"new", "ended"} /\ dropped[c] = "no"
  /\ dropped' = [dropped EXCEPT ![c] = "pending"]
  /\ UNCHANGED <<serverVars, connection, opened, pooled, holder, mcp, closed>>

-----------------------------------------------------------------------------
(* reap_idle: nothing is in flight. How long it has been idle is left open. *)
Reapable(k) == InFlight(k) = {}

(* What the reaper waits for afterwards is nobody else's business.          *)
Reap ==
  /\ closed \in {"no", "closing"}
  /\ pooled # 0 /\ Reapable(pooled)
  /\ Discard(pooled)
  /\ UNCHANGED <<serverVars, opened, holder, mcp, dropped, closed>>

(* close: nothing is submitted any more; then, on the loop, _close_all      *)
(* cancels the reaper and discards what is in the pool; then the loop stops.*)
Shutdown ==
  /\ closed = "no"
  /\ closed' = "closing"
  /\ UNCHANGED <<serverVars, connection, opened, pooled, holder, mcp, dropped>>

CloseAll ==
  /\ closed = "closing"
  /\ ClosesWhileOpening \/ \A c \in McpCalls : mcp[c].at \notin {"lock", "discard", "connect"}
  /\ closed' = "waiting"
  /\ IF pooled = 0 THEN UNCHANGED <<connection, pooled>> ELSE Discard(pooled)
  /\ UNCHANGED <<serverVars, opened, holder, mcp, dropped>>

LoopStops ==
  /\ closed = "waiting"
  /\ closed' = "stopped"
  /\ UNCHANGED <<serverVars, connection, opened, pooled, holder, mcp, dropped>>

McpNext ==
  \/ Owner \/ Edit \/ Reap \/ Shutdown \/ CloseAll \/ LoopStops
  \/ \E c \in McpCalls : Submit(c) \/ Coroutine(c) \/ GivesUp(c)

McpSpec == McpInit /\ [][McpNext]_mcpVars

(* The loop runs, and the clocks do; what a server does is up to the server.*)
McpFairness ==
  /\ WF_mcpVars(CloseAll) /\ WF_mcpVars(LoopStops)
  /\ \A c \in McpCalls : WF_mcpVars(GivesUp(c))
  /\ \A c \in McpCalls : WF_mcpVars(Coroutine(c))

-----------------------------------------------------------------------------
(* A connection that is up and that nobody has asked to close is the one in *)
(* the pool, or the one the holder of the lock is opening: no subprocess of *)
(* a server is left where no call, no reaper and no shutdown finds it.      *)
NoConnectionIsLost ==
  \A k \in 1..opened :
    (connection[k].own \in {"opening", "open"} /\ ~connection[k].closing) =>
      \/ pooled = k
      \/ holder # NoMcpCall /\ mcp[holder].on = k /\ mcp[holder].at = "connect"

(* A tool that the server has taken away is not offered from the copy of    *)
(* the catalog once the server has said so.                                 *)
CatalogIsFresh ==
  \A k \in 1..opened :
    (Alive(k) /\ ~connection[k].notified) => connection[k].tools \in {catalog, Unknown}

(* No connection to an MCP server is lost, and its tools are listed as the  *)
(* server has them.                                                         *)
ConnectionsAreSound == NoConnectionIsLost /\ CatalogIsFresh

(* Once the loop has stopped, nothing of the pool is left open.             *)
NothingOpenAfterClose ==
  closed = "stopped" => \A k \in 1..opened : connection[k].own = "ended" \/ connection[k].closing

(* Every call that was submitted comes to an end on the loop, whatever the  *)
(* server does: the lock of a server is not held for ever.                  *)
CallsEnd ==
  \A c \in McpCalls :
    (mcp[c].at \notin {"new", "ended"}) ~> (mcp[c].at = "ended" \/ closed = "stopped")
=============================================================================
