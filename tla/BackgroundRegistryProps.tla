------------------------ MODULE BackgroundRegistryProps ------------------------
(***************************************************************************)
(* What the registry of background results must keep.                      *)
(***************************************************************************)
EXTENDS BackgroundRegistry

Modes    == {"none", "foreground", "background"}
Hands    == {"none", "tell", "put", "release"}
Reasons  == {"user", "parent", "withdraw", "shutdown"}

TypeOK ==
  /\ entry \in [Calls -> Modes]
  /\ asked \subseteq Calls
  /\ staged \subseteq Calls
  /\ delivering \in Nat
  /\ hand \in [Calls -> Hands]
  /\ hinted \subseteq Calls
  /\ owed \subseteq Calls \X Reasons
  /\ close \in {"open", "waiting", "telling", "closed"}
  /\ held \subseteq Calls
  /\ owner \in [Calls -> 0..MaxRun]
  /\ tool \in [Calls -> {"off", "running", "check", "launching", "waiting", "awaiting", "settling",
                         "completing", "returned"}]
  /\ job \in [Calls -> {"none", "running", "done", "reported"}]
  /\ told \subseteq Calls
  /\ started \subseteq Calls
  /\ child \in [Calls -> {"idle", "queued", "running", "rest"}]
  /\ spread \in BOOLEAN
  /\ detached \subseteq Calls
  /\ handedOver \subseteq Calls
  /\ marked \subseteq Calls
  /\ run \in 0..MaxRun
  /\ runSt \in {"running", "suspended", "ended", "crashed"}
  /\ exec \in {"off", "driving", "drop", "dropped"}
  /\ signal \in BOOLEAN
  /\ cancelling \in BOOLEAN
  /\ puts \in [Calls -> Nat]
  /\ cards \subseteq Calls
  /\ dropped \subseteq Calls
  /\ settled \subseteq Calls
  /\ discarded \subseteq Calls
  /\ accepted \subseteq Calls
  /\ excluded \subseteq Calls
  /\ abandoned \subseteq Calls

-----------------------------------------------------------------------------
Delivered(c) == puts[c] > 0 \/ c \in cards

EndsOf(c) == {e \in {"delivered", "dropped", "settled", "discarded"} :
                \/ e = "delivered" /\ Delivered(c)
                \/ e = "dropped"   /\ c \in dropped
                \/ e = "settled"   /\ c \in settled
                \/ e = "discarded" /\ c \in discarded}

(* Every registered call ends once: its conclusion is delivered, returned  *)
(* as the result of the tool, or dropped; never two of them and never two  *)
(* messages, whatever completes, is detached, stopped, dropped and closed  *)
(* at the same time ("每条恰好结束一次").                                  *)
EndsOnce ==
  \A c \in Calls :
    /\ puts[c] <= 1 /\ (c \in cards => puts[c] = 0)
    /\ \A e, f \in EndsOf(c) : e = f
    /\ entry[c] # "none" => EndsOf(c) = {}

(* After close() returned no conclusion is written any more ("确保 close   *)
(* 返回后不再写库"), although jobs that are killed then still conclude.    *)
NothingWrittenAfterClose ==
  [][close = "closed" => UNCHANGED <<puts, cards>>]_vars

(* Nobody is between two steps on c.                                       *)
Quiet(c) == /\ tool[c] = "returned" /\ job[c] = "reported" /\ hand[c] = "none"
            /\ ~\E reason \in Reasons : <<c, reason>> \in owed
            /\ exec = "off" /\ ~cancelling /\ close \in {"open", "closed"}

(* A Team never waits for a receipt that cannot come any more: when its Run *)
(* has settled it was let go, or is being told ("未提交的工作也不能继续等待启动"). *)
StagedTeamIsLetGo ==
  \A c \in Calls : Kind[c] = "team" /\ tool[c] = "returned" /\ exec = "off" =>
    \/ c \in started \cup held
    \/ \E reason \in Reasons \ {"user"} : <<c, reason>> \in owed

(* No conclusion is lost and no entry stays behind: when the tool returned, *)
(* the work reported and the Task is not being stopped, the call has ended. *)
(* The one conclusion that complete() left to the drop is dropped          *)
(* ("留下的条目必然被撤销"), one that came while the call was moved to the *)
(* background is delivered ("避免已到的结论无人投递"). Only an execution    *)
(* whose Run could not be settled loses what it should have dropped. And no *)
(* Team is left waiting.                                                   *)
NothingLost ==
  /\ \A c \in Calls \ abandoned :
       Quiet(c) => /\ entry[c] = "none" /\ EndsOf(c) # {}
                   /\ c \in dropped => c \in told
  /\ StagedTeamIsLetGo

(* A stop of one call that the user was told is accepted reaches the work, *)
(* although the call was not registered yet ("登记会接过它"): once register *)
(* returned, its entry is asked to stop or gone and the work told.         *)
AcceptedStopReachesJob ==
  \A c \in accepted : tool[c] \notin {"running", "check"} => c \in asked \cup dropped \cup told

(* A child Task whose work was told to stop does not run on when everything *)
(* about the call is over ("撤销即取消等待，并以 parent 原因停止子 Task"). *)
StoppedChildRests ==
  \A c \in told : Quiet(c) /\ close = "open" /\ ~spread => child[c] # "running"

(* A conclusion is taken for delivery only when nobody stops the Task, from *)
(* the signal until everything is dropped: what arrives then cannot open   *)
(* the next Run ("取走之后、撤销之前却会入队并开出新 Run"). Only the receipt *)
(* of a call the user stopped is, which wakes no Run but its own.          *)
NoResultWhileStopping ==
  [][\A c \in Calls : /\ hand[c] = "none" /\ hand'[c] # "none"
                      /\ signal \/ exec \in {"drop", "dropped"}
                     => c \in hinted']_vars

(* Once the user took a turn back, no conclusion of its calls is put any   *)
(* more: the model would read a result whose call is not in its context,   *)
(* and it would open a Run ("登记出队是投递的唯一门槛").                   *)
NoOrphanResult ==
  [][\A c \in excluded : puts'[c] = puts[c]]_vars

(* close() returns: every delivery it waits for ends.                      *)
CloseEnds == close = "waiting" ~> close = "closed"

(* A tool call that waits in the foreground of a stopped Run returns.      *)
StoppedWaitReturns == \A c \in Calls :
  (tool[c] = "waiting" /\ signal) ~> tool[c] = "returned"

=============================================================================
