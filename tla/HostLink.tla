------------------------------- MODULE HostLink -------------------------------
(***************************************************************************)
(* The link to the desktop host: tools in worker threads (call_host and    *)
(* the browser tools) submit requests, the event loop pairs the answers of *)
(* the current connection (HostLink, _HostConnection), and the desktop     *)
(* (HostLinkClient) runs them. Connections break and are replaced, calls   *)
(* are stopped and time out, answers come late.                            *)
(***************************************************************************)
EXTENDS Integers, FiniteSets, Sequences

CONSTANTS HostCalls,  \* calls of tools that need the host
          MaxLinks    \* bound: connections the host opens

ASSUME HostLinkAssumption == MaxLinks \in Nat \ {0}

HostLinks == 1..MaxLinks
Ids == 1..Cardinality(HostCalls)

VARIABLES
  current,   \* HostLink._connection; 0: none
  link,      \* per connection: "unborn", "open", "replaced", "closing", "closed"
  given,     \* per connection, the ids it has given out
  awaited,   \* per connection, the calls in _pending
  hcall,     \* per call: where its coroutine is, its connection, its id, its future
  outcome,   \* what the thread of the call was told
  toHost, fromHost,  \* per connection, the frames under way
  handling,  \* per connection, the requests the host runs: inflight
  ran        \* the requests the host has begun: <<connection, id, call>>

hostVars == <<current, link, given, awaited, hcall, outcome, toHost, fromHost, handling, ran>>

IdleRequest == [at |-> "idle", on |-> 0, id |-> 0, future |-> "open", answer |-> <<0, 0>>]

HostTypeOK ==
  /\ current \in 0..MaxLinks
  /\ link \in [HostLinks -> {"unborn", "open", "replaced", "closing", "closed"}]
  /\ given \in [HostLinks -> 0..Cardinality(HostCalls)] /\ awaited \in [HostLinks -> SUBSET HostCalls]
  /\ hcall \in [HostCalls -> [at : {"idle", "submitted", "registered", "waiting", "cancelling", "over"},
                              on : 0..MaxLinks, id : 0..Cardinality(HostCalls),
                              future : {"open", "failed", "answered"}, answer : {<<0, 0>>} \cup (HostLinks \X Ids)]]
  /\ outcome \in [HostCalls -> {"none", "answered", "UNAVAILABLE", "CANCELLED", "TIMEOUT", "error"}]
  /\ \A l \in HostLinks : /\ \A i \in DOMAIN toHost[l] : toHost[l][i] \in {"request", "cancel"} \X Ids
                      /\ fromHost[l] \in Seq(Ids) /\ handling[l] \subseteq Ids
  /\ ran \subseteq HostLinks \X Ids \X HostCalls

HostInit ==
  /\ current = 0 /\ link = [l \in HostLinks |-> "unborn"] /\ given = [l \in HostLinks |-> 0]
  /\ awaited = [l \in HostLinks |-> {}] /\ hcall = [k \in HostCalls |-> IdleRequest]
  /\ outcome = [k \in HostCalls |-> "none"]
  /\ toHost = [l \in HostLinks |-> <<>>] /\ fromHost = [l \in HostLinks |-> <<>>]
  /\ handling = [l \in HostLinks |-> {}] /\ ran = {}

-----------------------------------------------------------------------------
(* Connections.                                                             *)

FailedFutures(l) == [k \in HostCalls |-> IF k \in awaited[l] /\ hcall[k].future = "open"
                                  THEN [hcall[k] EXCEPT !.future = "failed"] ELSE hcall[k]]

(* An accepted hello: the newest connection is the one that is used, the     *)
(* retirement of the old one is only scheduled.                              *)
Serve(l) ==
  /\ link[l] = "unborn" /\ (l > 1 => link[l - 1] # "unborn")
  /\ current' = l
  /\ link' = [n \in HostLinks |-> IF n = l THEN "open" ELSE IF n = current THEN "replaced" ELSE link[n]]
  /\ UNCHANGED <<given, awaited, hcall, outcome, toHost, fromHost, handling, ran>>

Retire(l) ==
  /\ link[l] = "replaced"
  /\ hcall' = FailedFutures(l) /\ awaited' = [awaited EXCEPT ![l] = {}]
  /\ link' = [link EXCEPT ![l] = "closing"]
  /\ UNCHANGED <<current, given, outcome, toHost, fromHost, handling, ran>>

(* The connection breaks, is closed, or sends what is no answer: the end of  *)
(* serve. The host aborts what it runs for it.                               *)
Disconnects(l) ==
  /\ link[l] \in {"open", "replaced", "closing"}
  /\ link' = [link EXCEPT ![l] = "closed"]
  /\ current' = IF current = l THEN 0 ELSE current
  /\ hcall' = FailedFutures(l) /\ awaited' = [awaited EXCEPT ![l] = {}]
  /\ toHost' = [toHost EXCEPT ![l] = <<>>] /\ fromHost' = [fromHost EXCEPT ![l] = <<>>]
  /\ handling' = [handling EXCEPT ![l] = {}]
  /\ UNCHANGED <<given, outcome, ran>>

Carries(l) == link[l] \in {"open", "replaced"}

-----------------------------------------------------------------------------
(* The thread of a tool: call_host, wait_for_call.                           *)

SubmitRequest(k) ==
  /\ hcall[k] = IdleRequest
  /\ hcall' = [hcall EXCEPT ![k] = [@ EXCEPT !.at = IF current = 0 THEN "over" ELSE "submitted", !.on = current]]
  /\ outcome' = [outcome EXCEPT ![k] = IF current = 0 THEN "UNAVAILABLE" ELSE "none"]
  /\ UNCHANGED <<current, link, given, awaited, toHost, fromHost, handling, ran>>

(* The call is stopped or out of time: the coroutine is cancelled, unless it *)
(* never began.                                                              *)
GivesUpRequest(k, why) ==
  /\ outcome[k] = "none" /\ hcall[k].at \in {"submitted", "registered", "waiting"}
  /\ outcome' = [outcome EXCEPT ![k] = why]
  /\ hcall' = [hcall EXCEPT ![k].at = IF @ = "submitted" THEN "over" ELSE "cancelling"]
  /\ UNCHANGED <<current, link, given, awaited, toHost, fromHost, handling, ran>>

-----------------------------------------------------------------------------
(* The coroutine of a request, on the loop of its connection.                *)

Registers(k) ==
  LET l == hcall[k].on IN
  /\ hcall[k].at = "submitted"
  /\ given' = [given EXCEPT ![l] = @ + 1]
  /\ awaited' = [awaited EXCEPT ![l] = @ \cup {k}]
  /\ hcall' = [hcall EXCEPT ![k] = [@ EXCEPT !.at = "registered", !.id = given[l] + 1]]
  /\ UNCHANGED <<current, link, outcome, toHost, fromHost, handling, ran>>

Over(k, why) ==
  /\ outcome' = [outcome EXCEPT ![k] = IF @ = "none" THEN why ELSE @]
  /\ hcall' = [hcall EXCEPT ![k] = [@ EXCEPT !.at = "over", !.future = "open"]]
  /\ awaited' = [awaited EXCEPT ![hcall[k].on] = @ \ {k}]

Sends(k) ==
  LET l == hcall[k].on IN
  /\ hcall[k].at = "registered"
  /\ \/ /\ Carries(l)
        /\ toHost' = [toHost EXCEPT ![l] = Append(@, <<"request", hcall[k].id>>)]
        /\ hcall' = [hcall EXCEPT ![k].at = "waiting"]
        /\ UNCHANGED <<awaited, outcome>>
     \/ ~Carries(l) /\ Over(k, "error") /\ UNCHANGED toHost
  /\ UNCHANGED <<current, link, given, fromHost, handling, ran>>

HostReturns(k) ==
  /\ hcall[k].at = "waiting" /\ hcall[k].future # "open"
  /\ Over(k, IF hcall[k].future = "failed" THEN "UNAVAILABLE" ELSE hcall[k].future)
  /\ UNCHANGED <<current, link, given, toHost, fromHost, handling, ran>>

CancelTold(k) == [toHost EXCEPT ![hcall[k].on] = Append(@, <<"cancel", hcall[k].id>>)]

NotifiesCancel(k) ==
  /\ hcall[k].at = "cancelling"
  /\ toHost' = IF Carries(hcall[k].on) THEN CancelTold(k) ELSE toHost
  /\ Over(k, outcome[k])
  /\ UNCHANGED <<current, link, given, fromHost, handling, ran>>

(* resolve: the call that waits for an answer; none when it came too late.   *)
(* Mutant of Answered: looked up among the calls of every connection.        *)
AnsweredOfAny(l, id) == {k \in UNION {awaited[n] : n \in HostLinks} : hcall[k].id = id /\ hcall[k].future = "open"}
Answered(l, id) == {k \in awaited[l] : hcall[k].id = id /\ hcall[k].future = "open"}

Resolves(l) ==
  /\ fromHost[l] # <<>> /\ link[l] \in {"open", "replaced"}
  /\ fromHost' = [fromHost EXCEPT ![l] = Tail(@)]
  /\ hcall' = [k \in HostCalls |-> IF k \in Answered(l, Head(fromHost[l]))
                                   THEN [hcall[k] EXCEPT !.future = "answered", !.answer = <<l, Head(fromHost[l])>>] ELSE hcall[k]]
  /\ UNCHANGED <<current, link, given, awaited, outcome, toHost, handling, ran>>

-----------------------------------------------------------------------------
(* The host.                                                                 *)
RequestOf(l, id) == CHOOSE k \in HostCalls : hcall[k].on = l /\ hcall[k].id = id

HostReceives(l) ==
  LET frame == Head(toHost[l]) IN
  /\ toHost[l] # <<>> /\ Carries(l)
  /\ toHost' = [toHost EXCEPT ![l] = Tail(@)]
  /\ IF frame[1] = "request"
     THEN /\ handling' = [handling EXCEPT ![l] = @ \cup {frame[2]}]
          /\ ran' = ran \cup {<<l, frame[2], RequestOf(l, frame[2])>>}
     ELSE /\ handling' = [handling EXCEPT ![l] = @ \ {frame[2]}] /\ UNCHANGED ran
  /\ UNCHANGED <<current, link, given, awaited, hcall, outcome, fromHost>>

HostReplies(l, id) ==
  /\ id \in handling[l] /\ Carries(l)
  /\ handling' = [handling EXCEPT ![l] = @ \ {id}]
  /\ fromHost' = [fromHost EXCEPT ![l] = Append(@, id)]
  /\ UNCHANGED <<current, link, given, awaited, hcall, outcome, toHost, ran>>

-----------------------------------------------------------------------------
HostTask(k) == Registers(k) \/ Sends(k) \/ HostReturns(k) \/ NotifiesCancel(k)

HostNext ==
  \/ \E l \in HostLinks : Serve(l) \/ Retire(l) \/ Disconnects(l) \/ Resolves(l) \/ HostReceives(l)
                      \/ \E id \in Ids : HostReplies(l, id)
  \/ \E k \in HostCalls : SubmitRequest(k) \/ GivesUpRequest(k, "CANCELLED") \/ GivesUpRequest(k, "TIMEOUT") \/ HostTask(k)

HostSpec == HostInit /\ [][HostNext]_hostVars

(* The loop runs what is scheduled; neither the host nor a time limit is     *)
(* relied upon. A closing connection is closed.                              *)
HostFairness ==
  /\ \A k \in HostCalls : WF_hostVars(HostTask(k))
  /\ \A l \in HostLinks : WF_hostVars(Retire(l)) /\ WF_hostVars(link[l] = "closing" /\ Disconnects(l))

-----------------------------------------------------------------------------
(* The answer a tool gets is that of its own request, though every           *)
(* connection counts its requests from one and answers arrive late.          *)
AnswerIsOwn ==
  \A k \in HostCalls : outcome[k] = "answered" => <<hcall[k].answer[1], hcall[k].answer[2], k>> \in ran

(* A call that was given up no longer runs on the host, or the host is about *)
(* to be told, as long as its connection carries frames.                     *)
StopReachesHost ==
  \A k \in HostCalls :
    outcome[k] \in {"CANCELLED", "TIMEOUT"} /\ hcall[k].at = "over" /\ hcall[k].id \in Ids /\ Carries(hcall[k].on) =>
      (hcall[k].id \in handling[hcall[k].on] => \E i \in DOMAIN toHost[hcall[k].on] :
                                                   toHost[hcall[k].on][i] = <<"cancel", hcall[k].id>>)

(* Nobody gets the answer of another, and nothing goes on for nobody.        *)
HostIsSound == AnswerIsOwn /\ StopReachesHost

(* A call whose connection is gone or replaced returns without waiting for   *)
(* its time limit.                                                           *)
EndsWithLink ==
  \A k \in HostCalls :
    (hcall[k].at # "idle" /\ hcall[k].on # 0 /\ \E l \in HostLinks : l = hcall[k].on /\ link[l] \in {"replaced", "closing", "closed"})
      ~> (outcome[k] # "none")

(* A call that the connection failed says so: UNAVAILABLE. Violated: the     *)
(* connection may be gone between submit and the first step of the request,  *)
(* and the error of the socket reaches the tool as it is.                    *)
FailureIsUnavailable == \A k \in HostCalls : outcome[k] # "error"
===============================================================================
