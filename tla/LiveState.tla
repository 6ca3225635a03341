------------------------------ MODULE LiveState ------------------------------
(***************************************************************************)
(* What the snapshot of a Task shows of facts that live in the process:    *)
(* the board of background work, the calls that wait in the foreground,    *)
(* the resources handed to the user and the terminals. Each of them is     *)
(* read anew under the lock of the state service                           *)
(* (conversation_task_state_service.py) when its source has told of a      *)
(* change; the source changes under a lock of its own, tells later and by  *)
(* a thread of its own, and the board depends on the cards of the calls as *)
(* well, which events change. "todo" is what the holder of the lock still  *)
(* has to do: a mirror to read, an event to apply, or to leave.            *)
(***************************************************************************)
EXTENDS Integers, Sequences, FiniteSets
LOCAL INSTANCE SequencesExt

CONSTANTS LiveCalls, Terminals,
          PastCalls,          \* those whose work is over, in order
          MaxEndedJobs,       \* MAX_ENDED_PER_TASK
          MaxEndedTerminals,  \* Constant.Terminal.MAX_ENDED_SESSIONS_PER_TASK
          SettlesUnseen       \* whether placeholders are settled while a copy is made

ASSUME LiveAssumption ==
  /\ PastCalls \in Seq(LiveCalls)
  /\ {MaxEndedJobs, MaxEndedTerminals} \subseteq Nat \ {0} /\ SettlesUnseen \in BOOLEAN

VARIABLES
  runOn,      \* whether a Run is running
  callRow,    \* the row of every call: its status, with or without a record of background work
  listens,    \* the entry of every call in the registry of background results
  began,      \* the calls in the order of their entries
  stamps,     \* the calls in the order in which their work ended
  inQueue,    \* calls whose conclusion waits to be consumed
  leases,     \* what is handed to the user, in order
  terminal,   \* every terminal
  opened, ended,   \* the terminals, in the order in which they began and ended
  owes,       \* sources that have changed and have not told yet
  notices,    \* sources that have told
  news,       \* the event of the execution that is not applied yet
  lateNews,   \* that of a thread that settles placeholders
  rerun,      \* how far the user's edit has come
  deletion,   \* and the deletion of the Task
  watching, copy, todo

boardFacts  == <<runOn, callRow, listens, began, stamps, inQueue, lateNews>>
mirrorFacts == <<leases, terminal, opened, ended>>
liveVars    ==
  <<boardFacts, mirrorFacts, owes, notices, news, rerun, deletion, watching, copy, todo>>

-----------------------------------------------------------------------------
(* The facts, as the snapshot shows them.                                   *)
LatestOf(seq, n) == SubSeq(seq, IF Len(seq) > n THEN Len(seq) - n + 1 ELSE 1, Len(seq))

(* project_background_tasks: an entry first, then the record of the card.   *)
HasRecord == {"pending", "completed", "cancelled"}
BoardStatus(card, k) ==
  IF listens[k] = "background" /\ card[k] # "none" THEN "running"
  ELSE IF card[k] = "pending" THEN "settling"
  ELSE IF card[k] \in HasRecord THEN card[k] ELSE "absent"

OnBoard(card, k) == <<k, BoardStatus(card, k)>>
Board(card) ==
  LET AtWork(k)  == BoardStatus(card, k) \in {"running", "settling"}
      IsOver(k)  == BoardStatus(card, k) \in {"completed", "cancelled"}
      Rows(list) == [n \in DOMAIN list |-> OnBoard(card, list[n])]
  IN  Rows(SelectSeq(began, AtWork)) \o Rows(LatestOf(SelectSeq(stamps, IsOver), MaxEndedJobs))

(* foreground_calls.                                                        *)
Waits == LET InFront(k) == listens[k] = "foreground" IN SelectSeq(began, InFront)

(* task_runtimes: those that are not retired, then the latest that are.     *)
Listed == {"starting", "running", "busy", "exited"}
TerminalList ==
  LET IsListed(t) == terminal[t] \in Listed
  IN  LET list == SelectSeq(opened, IsListed) \o ended
      IN  [n \in DOMAIN list |-> <<list[n], terminal[list[n]]>>]

(* validate_background_tasks, validate_foreground_waits, validate_handoffs  *)
(* and validate_terminal_sessions.                                          *)
Differ(list, field) == \A i, j \in DOMAIN list : i # j => list[i][field] # list[j][field]
ValidBoard(list) ==
  /\ Differ(list, 1)
  /\ \A n \in DOMAIN list : list[n][2] \in {"running", "settling", "completed", "cancelled"}
ValidWaits(list) == \A i, j \in DOMAIN list : i # j => list[i] # list[j]
ValidHandoffs(list) == Differ(list, 1) /\ Differ(list, 2)
ValidTerminals(list) ==
  /\ Differ(list, 1)
  /\ \A n \in DOMAIN list : list[n][2] \in Listed \cup {"ended"}

Mirrors == {"board", "waits", "handoffs", "terminals"}
Source == [m \in Mirrors |-> CASE m = "handoffs" -> "handoff" [] m = "terminals" -> "terminal"
                               [] OTHER -> "background"]
Now(m, card) ==
  CASE m = "board" -> Board(card) [] m = "waits" -> Waits
    [] m = "handoffs" -> leases   [] m = "terminals" -> TerminalList

-----------------------------------------------------------------------------
NoCard == [k \in LiveCalls |-> "none"]
NoCopy == [there |-> FALSE, running |-> FALSE, card |-> NoCard, mirror |-> [m \in Mirrors |-> <<>>]]
NoNews == [of |-> "nothing"]
CardNews(k, status) == [of |-> "card", call |-> k, to |-> status]
RunNews(on) == [of |-> "run", to |-> on]

IsFree == todo = <<>>
IsPast(k) == \E n \in DOMAIN PastCalls : PastCalls[n] = k
AtPeace == rerun = "none" /\ deletion = "none"

LiveInit ==
  /\ runOn = TRUE
  /\ callRow = [k \in LiveCalls |-> IF IsPast(k) THEN "completed" ELSE "none"]
  /\ listens = [k \in LiveCalls |-> IF IsPast(k) THEN "over" ELSE "no"]
  /\ began = PastCalls /\ stamps = PastCalls /\ inQueue = {} /\ leases = <<>>
  /\ terminal = [t \in Terminals |-> "none"] /\ opened = <<>> /\ ended = <<>>
  /\ owes = {} /\ notices = {} /\ news = NoNews /\ lateNews = NoNews
  /\ rerun = "none" /\ deletion = "none" /\ watching = FALSE /\ copy = NoCopy /\ todo = <<>>

-----------------------------------------------------------------------------
(* The calls of a Run, their work and their cards.                          *)
Owes(source) == owes' = owes \cup {source}

(* A call of the model: its card and its row.                               *)
Asks(k) ==
  /\ runOn /\ news = NoNews /\ callRow[k] = "none" /\ AtPeace
  /\ callRow' = [callRow EXCEPT ![k] = "running"] /\ news' = CardNews(k, "running")
  /\ UNCHANGED <<runOn, listens, began, stamps, inQueue, lateNews, mirrorFacts, owes, notices,
                 rerun, deletion, watching, copy, todo>>

(* register: in the background, or in front with the means to be detached.  *)
Enters(k, mode) ==
  /\ runOn /\ news = NoNews /\ callRow[k] = "running" /\ listens[k] = "no"
  /\ listens' = [listens EXCEPT ![k] = mode] /\ began' = Append(began, k)
  /\ Owes("background")
  /\ UNCHANGED <<runOn, callRow, stamps, inQueue, lateNews, mirrorFacts, notices, news, rerun,
                 deletion, watching, copy, todo>>

(* detach.                                                                  *)
Detaches(k) ==
  /\ listens[k] = "foreground"
  /\ listens' = [listens EXCEPT ![k] = "background"] /\ Owes("background")
  /\ UNCHANGED <<runOn, callRow, began, stamps, inQueue, lateNews, mirrorFacts, notices, news,
                 rerun, deletion, watching, copy, todo>>

(* An entry leaves the registry: settled in front, dropped or withdrawn, or *)
(* completed, and then the conclusion is put with the time of its end.      *)
LeavesRegistry(k) ==
  /\ listens' = [listens EXCEPT ![k] = IF listens[k] = "background" THEN "over" ELSE "settled"]
  /\ Owes("background")

Leaves(k) ==
  /\ listens[k] \in {"foreground", "background"} /\ LeavesRegistry(k)
  /\ UNCHANGED <<runOn, callRow, began, stamps, inQueue, lateNews, mirrorFacts, notices, news,
                 rerun, deletion, watching, copy, todo>>

Concludes(k) ==
  /\ listens[k] = "over" /\ callRow[k] \in {"running", "pending"} /\ k \notin inQueue
  /\ inQueue' = inQueue \cup {k} /\ stamps' = Append(stamps, k)
  /\ UNCHANGED <<runOn, callRow, listens, began, lateNews, mirrorFacts, owes, notices, news, rerun,
                 deletion, watching, copy, todo>>

(* The execution writes a row and then makes its event: a placeholder, a    *)
(* result or the closure of a Run that ends, and a conclusion.              *)
Writes(k, status) ==
  /\ runOn /\ news = NoNews
  /\ callRow' = [callRow EXCEPT ![k] = status] /\ news' = CardNews(k, status)
  /\ UNCHANGED <<runOn, listens, began, stamps, inQueue, lateNews, mirrorFacts, owes, notices,
                 rerun, deletion, watching, copy, todo>>

PlacesCall(k) ==
  callRow[k] = "running" /\ listens[k] \in {"background", "over"} /\ Writes(k, "pending")
Returns(k) == callRow[k] = "running" /\ Writes(k, "closed")
Consumes(k) ==
  /\ callRow[k] = "pending" /\ k \in inQueue
  /\ \E status \in {"completed", "cancelled"} : Writes(k, status)

(* cancel_placeholders: the row of a work that was dropped; the event is    *)
(* made only when there is a copy, which is asked without the lock.         *)
SettlesLate(k) ==
  /\ lateNews = NoNews /\ callRow[k] = "pending" /\ listens[k] = "over"
  /\ SettlesUnseen \/ IsFree
  /\ callRow' = [callRow EXCEPT ![k] = "cancelled"]
  /\ stamps' = Append(Remove(stamps, k), k)
  /\ lateNews' = IF copy.there THEN CardNews(k, "cancelled") ELSE NoNews
  /\ UNCHANGED <<runOn, listens, began, inQueue, mirrorFacts, owes, notices, news, rerun, deletion,
                 watching, copy, todo>>

RunTurns ==
  /\ news = NoNews /\ AtPeace /\ (runOn => \A k \in LiveCalls : callRow[k] # "running")
  /\ runOn' = ~runOn /\ news' = RunNews(~runOn)
  /\ UNCHANGED <<callRow, listens, began, stamps, inQueue, lateNews, mirrorFacts, owes, notices,
                 rerun, deletion, watching, copy, todo>>

-----------------------------------------------------------------------------
(* The resources handed to the user, and the terminals.                     *)
HandsOver(k, t) ==
  /\ \A n \in DOMAIN leases : leases[n][1] # k /\ leases[n][2] # t
  /\ leases' = Append(leases, <<k, t>>) /\ Owes("handoff")
  /\ UNCHANGED <<boardFacts, terminal, opened, ended, notices, news, rerun, deletion, watching,
                 copy, todo>>

(* end, settle.                                                             *)
GivesBack(n) ==
  /\ leases' = RemoveAt(leases, n) /\ Owes("handoff")
  /\ UNCHANGED <<boardFacts, terminal, opened, ended, notices, news, rerun, deletion, watching,
                 copy, todo>>

Becomes(t, status) == terminal' = [terminal EXCEPT ![t] = status]
restOfTerminals == <<boardFacts, leases, notices, news, rerun, deletion, watching, copy, todo>>

(* start: registered before the handshake, told after it.                   *)
Opens(t) ==
  /\ terminal[t] = "none" /\ deletion = "none"
  /\ Becomes(t, "starting") /\ opened' = Append(opened, t)
  /\ UNCHANGED <<restOfTerminals, ended, owes>>
TerminalChanges(t) ==
  /\ \/ terminal[t] \in {"starting", "busy"} /\ Becomes(t, "running")
     \/ terminal[t] = "running" /\ Becomes(t, "busy")
  /\ Owes("terminal") /\ UNCHANGED <<restOfTerminals, opened, ended>>

(* finish, and _complete_termination: told once it is retired.              *)
Finishes(t) ==
  /\ terminal[t] \in {"starting", "running", "busy"} /\ Becomes(t, "exited")
  /\ UNCHANGED <<restOfTerminals, opened, ended, owes>>
Retires(t) ==
  /\ terminal[t] = "exited" /\ Becomes(t, "ended")
  /\ ended' = LatestOf(Append(ended, t), MaxEndedTerminals)
  /\ Owes("terminal") /\ UNCHANGED <<restOfTerminals, opened>>

-----------------------------------------------------------------------------
(* The user edits the latest input of a Task at rest: its entries are       *)
(* withdrawn and its leases dropped, its rows committed as excluded, and    *)
(* the snapshot made anew and published.                                    *)
EditBegins ==
  /\ ~runOn /\ news = NoNews /\ AtPeace /\ rerun' = "withdraw"
  /\ UNCHANGED <<boardFacts, mirrorFacts, owes, notices, news, deletion, watching, copy, todo>>
EditWithdraws(k) ==
  /\ rerun = "withdraw" /\ listens[k] \in {"foreground", "background"} /\ LeavesRegistry(k)
  /\ UNCHANGED <<runOn, callRow, began, stamps, inQueue, lateNews, mirrorFacts, notices, news,
                 rerun, deletion, watching, copy, todo>>
EditDrops ==
  /\ rerun = "withdraw" /\ \A k \in LiveCalls : listens[k] \notin {"foreground", "background"}
  /\ rerun' = "commit" /\ leases' = <<>>
  /\ owes' = IF leases = <<>> THEN owes ELSE owes \cup {"handoff"}
  /\ UNCHANGED <<boardFacts, terminal, opened, ended, notices, news, deletion, watching, copy,
                 todo>>
EditCommits ==
  /\ rerun = "commit" /\ rerun' = "publish"
  /\ callRow' = [k \in LiveCalls |-> IF callRow[k] = "none" THEN "none" ELSE "gone"]
  /\ UNCHANGED <<runOn, listens, began, stamps, inQueue, lateNews, mirrorFacts, owes, notices,
                 news, deletion, watching, copy, todo>>
EditPublishes ==
  /\ rerun = "publish" /\ IsFree /\ rerun' = "none"
  /\ copy' = NoCopy /\ todo' = <<"rebuild">>
  /\ UNCHANGED <<boardFacts, mirrorFacts, owes, notices, news, deletion, watching>>

(* The Task is deleted: committed, then its terminals, entries and leases   *)
(* are dropped, the leases without a word, and last its copy.               *)
DeleteCommits ==
  /\ ~runOn /\ news = NoNews /\ AtPeace /\ deletion' = "committed"
  /\ callRow' = [k \in LiveCalls |-> "gone"]
  /\ UNCHANGED <<runOn, listens, began, stamps, inQueue, lateNews, mirrorFacts, owes, notices,
                 news, rerun, watching, copy, todo>>
DeleteDrops ==
  /\ deletion = "committed" /\ deletion' = "dropped"
  /\ terminal' = [t \in Terminals |-> "gone"] /\ ended' = <<>> /\ leases' = <<>>
  /\ owes' = owes \cup {"terminal", "background"}
  /\ listens' = [k \in LiveCalls |->
                  IF listens[k] \in {"foreground", "background"} THEN "over" ELSE listens[k]]
  /\ UNCHANGED <<runOn, callRow, began, stamps, inQueue, lateNews, opened, notices, news, rerun,
                 watching, copy, todo>>
DeleteEnds ==
  /\ deletion = "dropped" /\ IsFree /\ deletion' = "done"
  /\ copy' = NoCopy /\ watching' = FALSE
  /\ UNCHANGED <<boardFacts, mirrorFacts, owes, notices, news, rerun, todo>>

-----------------------------------------------------------------------------
(* Under the lock of the state service.                                     *)
CardsOfRows == [k \in LiveCalls |-> IF callRow[k] = "gone" THEN "none" ELSE callRow[k]]

facts == <<boardFacts, mirrorFacts, owes, notices, news, rerun, deletion, watching>>
IfMissing == IF copy.there THEN <<>> ELSE <<"rebuild">>

(* _notify: the thread of the source will refresh its mirrors.              *)
Tells(source) ==
  /\ source \in owes /\ owes' = owes \ {source} /\ notices' = notices \cup {source}
  /\ UNCHANGED <<boardFacts, mirrorFacts, news, rerun, deletion, watching, copy, todo>>

(* refresh_background_results, refresh_handoffs, refresh_terminal_sessions. *)
MirrorsOf(source) ==
  CASE source = "background" -> <<"board", "waits">> [] source = "handoff" -> <<"handoffs">>
    [] source = "terminal" -> <<"terminals">>
Refreshes(source) ==
  /\ source \in notices /\ IsFree /\ notices' = notices \ {source}
  /\ todo' = IF copy.there THEN MirrorsOf(source) ELSE <<>>
  /\ UNCHANGED <<boardFacts, mirrorFacts, owes, news, rerun, deletion, watching, copy>>

Watches ==
  /\ ~watching /\ IsFree /\ deletion # "done" /\ watching' = TRUE /\ todo' = IfMissing
  /\ UNCHANGED <<boardFacts, mirrorFacts, owes, notices, news, rerun, deletion, copy>>
StopsWatching ==
  /\ watching /\ IsFree /\ watching' = FALSE /\ todo' = <<"leave">>
  /\ UNCHANGED <<boardFacts, mirrorFacts, owes, notices, news, rerun, deletion, copy>>

(* apply_planned. A Task that is deleted refuses it.                        *)
Takes(which) ==
  /\ IsFree /\ deletion # "done" /\ todo' = Append(IfMissing, which)
  /\ UNCHANGED <<facts, copy>>

(* _rebuild: the rows, and then one mirror after the other. The Task may not *)
(* be there any more, and then nothing is made.                             *)
Holds(what) == todo # <<>> /\ Head(todo) = what

Rebuilds ==
  /\ Holds("rebuild")
  /\ IF deletion = "none"
     THEN /\ copy' = [copy EXCEPT !.running = runOn, !.card = CardsOfRows]
          /\ todo' = <<"terminals", "board", "waits", "handoffs", "install">> \o Tail(todo)
          /\ UNCHANGED lateNews
     ELSE copy' = NoCopy /\ todo' = <<>> /\ lateNews' = NoNews
  /\ UNCHANGED <<runOn, callRow, listens, began, stamps, inQueue, mirrorFacts, owes, notices, news,
                 rerun, deletion, watching>>

ReadsMirror(m) ==
  /\ Holds(m)
  /\ copy' = [copy EXCEPT !.mirror[m] = Now(m, copy.card)] /\ todo' = Tail(todo)
  /\ UNCHANGED facts

(* get_snapshot keeps what the rebuild has made.                            *)
Installs ==
  /\ Holds("install") /\ copy' = [copy EXCEPT !.there = TRUE] /\ todo' = Tail(todo)
  /\ UNCHANGED facts

(* plan_tool_call_created, plan_tool_call_status_changed: what a card takes. *)
NextCard(card, status) ==
  CASE card = "none"      -> IF status = "running" THEN status ELSE "none"
    [] card = "running"   -> status
    [] card = "pending"   -> IF status \in {"completed", "cancelled"} THEN status ELSE "pending"
    [] card = "cancelled" -> IF status = "completed" THEN status ELSE "cancelled"
    [] OTHER              -> card

(* Only an event with a record of background work makes the board anew.     *)
ReadsBoard(status) == IF status \in HasRecord THEN <<"board">> ELSE <<>>

AppliesTo(event) ==
  /\ copy' = [copy EXCEPT !.card[event.call] = NextCard(copy.card[event.call], event.to)]
  /\ todo' = ReadsBoard(event.to) \o Tail(todo)

AppliesNews ==
  /\ Holds("news") /\ news.of = "card" /\ AppliesTo(news) /\ news' = NoNews
  /\ UNCHANGED <<boardFacts, mirrorFacts, owes, notices, rerun, deletion, watching>>
AppliesLateNews ==
  /\ Holds("lateNews") /\ AppliesTo(lateNews) /\ lateNews' = NoNews
  /\ UNCHANGED <<runOn, callRow, listens, began, stamps, inQueue, mirrorFacts, owes, notices, news,
                 rerun, deletion, watching>>
AppliesRunNews ==
  /\ Holds("news") /\ news.of = "run" /\ news' = NoNews
  /\ copy' = [copy EXCEPT !.running = news.to] /\ todo' = <<"leave">>
  /\ UNCHANGED <<boardFacts, mirrorFacts, owes, notices, rerun, deletion, watching>>

(* _unload_if_unwatched.                                                    *)
Goes ==
  /\ Holds("leave")
  /\ copy' = IF watching \/ copy.running THEN copy ELSE NoCopy
  /\ todo' = Tail(todo)
  /\ UNCHANGED facts

OfService ==
  \/ \E source \in {"background", "handoff", "terminal"} : Tells(source) \/ Refreshes(source)
  \/ Watches \/ StopsWatching
  \/ news # NoNews /\ Takes("news")
  \/ lateNews # NoNews /\ Takes("lateNews")
  \/ Rebuilds \/ Installs \/ AppliesNews \/ AppliesLateNews \/ AppliesRunNews \/ Goes
  \/ \E m \in Mirrors : ReadsMirror(m)

OfCalls ==
  \/ \E k \in LiveCalls :
       \/ Asks(k) \/ Detaches(k) \/ Leaves(k) \/ Concludes(k) \/ SettlesLate(k)
       \/ PlacesCall(k) \/ Returns(k) \/ Consumes(k) \/ EditWithdraws(k)
       \/ \E mode \in {"foreground", "background"} : Enters(k, mode)
  \/ RunTurns \/ EditBegins \/ EditCommits \/ EditPublishes

OfResources ==
  \/ \E k \in LiveCalls, t \in Terminals : HandsOver(k, t)
  \/ \E n \in DOMAIN leases : GivesBack(n)
  \/ \E t \in Terminals : Opens(t) \/ TerminalChanges(t) \/ Finishes(t) \/ Retires(t)
  \/ EditDrops

Deletes == DeleteCommits \/ DeleteDrops \/ DeleteEnds

LiveNext == OfService \/ OfCalls \/ OfResources \/ Deletes
LiveSpec == LiveInit /\ [][LiveNext]_liveVars

-----------------------------------------------------------------------------
CardStates == HasRecord \cup {"none", "running", "closed"}
News == {NoNews} \cup [of : {"card"}, call : LiveCalls, to : CardStates]
        \cup [of : {"run"}, to : {TRUE, FALSE}]

LiveTypeOK ==
  /\ runOn \in BOOLEAN /\ callRow \in [LiveCalls -> CardStates \cup {"gone"}]
  /\ listens \in [LiveCalls -> {"no", "foreground", "background", "settled", "over"}]
  /\ {began, stamps} \subseteq Seq(LiveCalls) /\ inQueue \subseteq LiveCalls
  /\ leases \in Seq(LiveCalls \X Terminals)
  /\ terminal \in [Terminals -> Listed \cup {"none", "ended", "gone"}]
  /\ {opened, ended} \subseteq Seq(Terminals)
  /\ owes \cup notices \subseteq {"background", "handoff", "terminal"}
  /\ {news, lateNews} \subseteq News
  /\ rerun \in {"none", "withdraw", "commit", "publish"}
  /\ deletion \in {"none", "committed", "dropped", "done"}
  /\ watching \in BOOLEAN /\ copy.there \in BOOLEAN /\ copy.running \in BOOLEAN
  /\ copy.card \in [LiveCalls -> CardStates] /\ DOMAIN copy.mirror = Mirrors
  /\ todo \in Seq(Mirrors \cup {"rebuild", "install", "news", "lateNews", "leave"})

(* Nobody is still to read this mirror: its source has told of every change *)
(* and the refresh that followed is done. A terminal that shakes hands or   *)
(* is being cleaned up tells when it is through.                            *)
IsTold(m) ==
  /\ Source[m] \notin owes \cup notices
  /\ m = "terminals" => \A t \in Terminals : terminal[t] \notin {"starting", "exited"}

(* What the copy shows of a fact that lives in the process is that fact,    *)
(* once the lock is free and the source has nothing more to tell: no change *)
(* falls between the reading of a mirror and the notice of the change, nor  *)
(* between an event and the board that depends on its card (_lock,          *)
(* refresh_background_results, apply_planned).                              *)
MirrorsAreTrue ==
  copy.there /\ IsFree /\ deletion = "none"
    => \A m \in Mirrors : IsTold(m) => copy.mirror[m] = Now(m, copy.card)

(* And the cards are those of the rows, when no event is under way and no   *)
(* edit is to be published (cancel_placeholders, republish_from_canonical). *)
CardsAreRows ==
  copy.there /\ IsFree /\ AtPeace /\ news = NoNews /\ lateNews = NoNews
    => copy.card = CardsOfRows

(* No late word of a source and no late event brings the copy of a deleted  *)
(* Task back (mark_task_deleted).                                           *)
DeletedStaysGone == deletion = "done" => ~copy.there /\ IsFree

(* No snapshot is refused for what it mirrors: a call is on the board once, *)
(* and waits once, a call hands over one resource and a resource is handed  *)
(* over once, and a terminal is listed once, with a status it can have      *)
(* (validate_snapshot).                                                     *)
MirrorsAreValid ==
  LET mirror == copy.mirror
  IN  /\ ValidBoard(mirror["board"]) /\ ValidWaits(mirror["waits"])
      /\ ValidHandoffs(mirror["handoffs"]) /\ ValidTerminals(mirror["terminals"])

LiveIsTrue == MirrorsAreTrue /\ CardsAreRows /\ DeletedStaysGone /\ MirrorsAreValid
=============================================================================
