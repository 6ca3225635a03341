--------------------------- MODULE ConnectionProofs ---------------------------
(***************************************************************************)
(* The connections a backend keeps to what is outside: the link to the     *)
(* desktop host, the pool of connections to one MCP server, the channel    *)
(* of a terminal session, what is typed into it, and the workers that run  *)
(* its shell and the commands of an Agent.                                 *)
(***************************************************************************)
EXTENDS HostLink, McpPool, TerminalProps, ShellProps, TLAPS

VARIABLE stale  \* history: connections whose session said that its catalog changed after an
                \* older list had been fetched and before it was stored (McpWatch)

-----------------------------------------------------------------------------
(***************************************************************************)
(* The host link, for any number of connections and calls: an id belongs   *)
(* to one call of one connection, so that a late answer finds nobody else. *)
(***************************************************************************)

(* The inductive invariant.                                                 *)

RequestPlaces == {"idle", "submitted", "registered", "waiting", "cancelling", "over"}
RequestType ==
  [at : RequestPlaces, on : 0..MaxLinks, id : Nat, future : {"open", "failed", "answered"},
   answer : {<<0, 0>>} \cup (HostLinks \X Nat)]
LinkStates == {"unborn", "open", "replaced", "closing", "closed"}
HostOutcomes == {"none", "answered", "UNAVAILABLE", "CANCELLED", "TIMEOUT", "error"}

HostTypes ==
  /\ current \in 0..MaxLinks
  /\ link \in [HostLinks -> LinkStates]
  /\ given \in [HostLinks -> Nat]
  /\ awaited \in [HostLinks -> SUBSET HostCalls]
  /\ hcall \in [HostCalls -> RequestType]
  /\ outcome \in [HostCalls -> HostOutcomes]
  /\ toHost \in [HostLinks -> Seq({"request", "cancel"} \X Nat)]
  /\ fromHost \in [HostLinks -> Seq(Nat)]
  /\ handling \in [HostLinks -> SUBSET Nat]
  /\ ran \in SUBSET (HostLinks \X Nat \X HostCalls)

(* Where a call is, what it has and what its thread was told.               *)
CallFits(k) ==
  /\ hcall[k].at \in {"idle", "submitted"} => hcall[k].id = 0
  /\ hcall[k].at \in {"submitted", "registered", "waiting", "cancelling"} => hcall[k].on # 0
  /\ hcall[k].at \in {"registered", "waiting", "cancelling"} => hcall[k].id # 0
  /\ hcall[k].id # 0 => hcall[k].on # 0 /\ hcall[k].id <= given[hcall[k].on]
  /\ hcall[k].on # 0 => link[hcall[k].on] # "unborn"
  /\ hcall[k].at \notin {"cancelling", "over"} => outcome[k] = "none"
  /\ hcall[k].at = "cancelling" => outcome[k] \in {"CANCELLED", "TIMEOUT"}

(* An id of a connection is the id of one call.                             *)
IdsAreOwn ==
  \A j, k \in HostCalls :
    hcall[j].on = hcall[k].on /\ hcall[j].id = hcall[k].id /\ hcall[k].id # 0 => j = k

Has(k, l, id) == hcall[k].on = l /\ hcall[k].id = id

(* Every frame, and everything the host runs, is of a call of the           *)
(* connection it is on.                                                     *)
FramesHaveCalls ==
  /\ current # 0 => link[current] = "open"
  /\ \A l \in HostLinks :
       /\ \A k \in awaited[l] : hcall[k].on = l /\ hcall[k].at \in {"registered", "waiting", "cancelling"}
       /\ \A i \in DOMAIN toHost[l] :
            toHost[l][i][2] # 0
            /\ (toHost[l][i][1] = "request" => \E k \in HostCalls : Has(k, l, toHost[l][i][2]))
       /\ \A id \in handling[l] : \E k \in HostCalls : <<l, id, k>> \in ran
       /\ \A i \in DOMAIN fromHost[l] : \E k \in HostCalls : <<l, fromHost[l][i], k>> \in ran
  /\ \A x \in ran : Has(x[3], x[1], x[2]) /\ x[2] # 0

(* An answer that reached a call is of its own request.                     *)
AnswersRan ==
  \A k \in HostCalls :
    hcall[k].future = "answered" \/ outcome[k] = "answered" =>
      <<hcall[k].answer[1], hcall[k].answer[2], k>> \in ran

(* Behind every request of a call that was given up comes its cancel.       *)
GivenUp(k) ==
  outcome[k] \in {"CANCELLED", "TIMEOUT"} /\ hcall[k].at = "over" /\ hcall[k].id # 0

CancelFollows ==
  \A k \in HostCalls : GivenUp(k) /\ Carries(hcall[k].on) =>
    LET l == hcall[k].on IN
    /\ hcall[k].id \in handling[l] => \E j \in DOMAIN toHost[l] : toHost[l][j] = <<"cancel", hcall[k].id>>
    /\ \A i \in DOMAIN toHost[l] : toHost[l][i] = <<"request", hcall[k].id>> =>
         \E j \in DOMAIN toHost[l] : j > i /\ toHost[l][j] = <<"cancel", hcall[k].id>>

HostInv ==
  /\ HostTypes
  /\ \A k \in HostCalls : CallFits(k)
  /\ IdsAreOwn /\ FramesHaveCalls /\ AnswersRan /\ CancelFollows

-----------------------------------------------------------------------------
(* What the steps do to the calls.                                          *)

LEMMA LinksAreNumbers ==
  /\ MaxLinks \in Nat \ {0} /\ HostLinks \subseteq 0..MaxLinks /\ 0 \notin HostLinks
  /\ \A l \in 0..MaxLinks : l # 0 => l \in HostLinks
  BY HostLinkAssumption DEF HostLinks

(* The place, connection, id and answer of every call are kept.             *)
Stays(h, k) ==
  /\ h[k].at = hcall[k].at /\ h[k].on = hcall[k].on /\ h[k].id = hcall[k].id

LEMMA FailedFuturesEffect ==
  ASSUME HostTypes, NEW l \in HostLinks
  PROVE  /\ FailedFutures(l) \in [HostCalls -> RequestType]
         /\ \A k \in HostCalls : /\ Stays(FailedFutures(l), k)
                                 /\ FailedFutures(l)[k].answer = hcall[k].answer
                                 /\ FailedFutures(l)[k].future \in {hcall[k].future, "failed"}
  <1>1. ASSUME NEW k \in HostCalls
        PROVE  LET r == FailedFutures(l)[k]
               IN /\ r \in RequestType /\ r.at = hcall[k].at /\ r.on = hcall[k].on /\ r.id = hcall[k].id
                  /\ r.answer = hcall[k].answer /\ r.future \in {hcall[k].future, "failed"}
    <2>1. hcall[k] \in RequestType
      BY DEF HostTypes
    <2>2. FailedFutures(l)[k] \in {hcall[k], [hcall[k] EXCEPT !.future = "failed"]}
      BY DEF FailedFutures
    <2> QED
      BY <2>1, <2>2 DEF RequestType
  <1>2. FailedFutures(l) = [k \in HostCalls |-> FailedFutures(l)[k]]
    BY DEF FailedFutures
  <1> QED
    BY <1>1, <1>2 DEF Stays

LEMMA ResolvesEffect ==
  ASSUME HostTypes, NEW l \in HostLinks, Resolves(l)
  PROVE  /\ fromHost[l] # <<>> /\ Head(fromHost[l]) = fromHost[l][1] /\ 1 \in DOMAIN fromHost[l]
         /\ fromHost' = [fromHost EXCEPT ![l] = Tail(fromHost[l])]
         /\ hcall' \in [HostCalls -> RequestType]
         /\ \A k \in HostCalls :
              /\ Stays(hcall', k)
              /\ \/ hcall'[k].future = hcall[k].future /\ hcall'[k].answer = hcall[k].answer
                 \/ k \in awaited[l] /\ hcall[k].id = Head(fromHost[l]) /\ hcall[k].future = "open"
                    /\ hcall'[k].answer = <<l, hcall[k].id>>
  <1>1. fromHost[l] \in Seq(Nat) /\ fromHost[l] # <<>>
    BY DEF HostTypes, Resolves
  <1>2. Head(fromHost[l]) \in Nat /\ Head(fromHost[l]) = fromHost[l][1] /\ 1 \in DOMAIN fromHost[l]
    BY <1>1
  <1> DEFINE a == <<l, Head(fromHost[l])>>
  <1>3. a \in HostLinks \X Nat
    BY <1>2
  <1>4. ASSUME NEW k \in HostCalls
        PROVE  LET r == hcall'[k]
               IN /\ r \in RequestType /\ r.at = hcall[k].at /\ r.on = hcall[k].on /\ r.id = hcall[k].id
                  /\ \/ r.future = hcall[k].future /\ r.answer = hcall[k].answer
                     \/ k \in awaited[l] /\ hcall[k].id = Head(fromHost[l]) /\ hcall[k].future = "open"
                        /\ r.answer = a
    <2>1. hcall[k] \in RequestType
      BY DEF HostTypes
    <2>2. \/ hcall'[k] = hcall[k]
          \/ /\ hcall'[k] = [hcall[k] EXCEPT !.future = "answered", !.answer = a]
             /\ k \in awaited[l] /\ hcall[k].id = Head(fromHost[l]) /\ hcall[k].future = "open"
      BY DEF Resolves, Answered
    <2> HIDE DEF a
    <2> QED
      BY <1>3, <2>1, <2>2 DEF RequestType
  <1>5. hcall' = [k \in HostCalls |-> hcall'[k]]
    BY DEF Resolves
  <1>6. hcall' \in [HostCalls -> RequestType]
    BY <1>4, <1>5
  <1>7. fromHost' = [fromHost EXCEPT ![l] = Tail(fromHost[l])]
    BY DEF Resolves
  <1>8. ASSUME NEW k \in HostCalls
        PROVE  /\ Stays(hcall', k)
               /\ \/ hcall'[k].future = hcall[k].future /\ hcall'[k].answer = hcall[k].answer
                  \/ k \in awaited[l] /\ hcall[k].id = Head(fromHost[l]) /\ hcall[k].future = "open"
                     /\ hcall'[k].answer = <<l, hcall[k].id>>
    BY <1>4 DEF Stays
  <1> QED
    BY <1>1, <1>2, <1>6, <1>7, <1>8

LEMMA OverEffect ==
  ASSUME HostTypes, NEW k \in HostCalls, NEW why \in HostOutcomes, Over(k, why), hcall[k].on # 0
  PROVE  /\ hcall[k].on \in HostLinks
         /\ hcall' \in [HostCalls -> RequestType] /\ outcome' \in [HostCalls -> HostOutcomes]
         /\ awaited' \in [HostLinks -> SUBSET HostCalls]
         /\ \A j \in HostCalls : j # k => hcall'[j] = hcall[j] /\ outcome'[j] = outcome[j]
         /\ hcall'[k].at = "over" /\ hcall'[k].on = hcall[k].on /\ hcall'[k].id = hcall[k].id
         /\ hcall'[k].future = "open" /\ hcall'[k].answer = hcall[k].answer
         /\ outcome'[k] = IF outcome[k] = "none" THEN why ELSE outcome[k]
         /\ \A l \in HostLinks : awaited'[l] \subseteq awaited[l]
         /\ k \notin awaited'[hcall[k].on]
  <1>1. hcall[k] \in RequestType /\ hcall[k].on \in HostLinks
    BY LinksAreNumbers DEF HostTypes, RequestType
  <1> DEFINE r == [hcall[k] EXCEPT !.at = "over", !.future = "open"]
  <1>2. /\ r \in RequestType /\ r.at = "over" /\ r.on = hcall[k].on /\ r.id = hcall[k].id
        /\ r.future = "open" /\ r.answer = hcall[k].answer
    BY <1>1 DEF RequestType, RequestPlaces
  <1>3. hcall' = [hcall EXCEPT ![k] = r]
    BY DEF Over
  <1> HIDE DEF r
  <1>4. hcall' \in [HostCalls -> RequestType] /\ hcall'[k] = r /\ \A j \in HostCalls : j # k => hcall'[j] = hcall[j]
    BY <1>2, <1>3 DEF HostTypes
  <1>5. /\ outcome' \in [HostCalls -> HostOutcomes]
        /\ \A j \in HostCalls : j # k => outcome'[j] = outcome[j]
        /\ outcome'[k] = IF outcome[k] = "none" THEN why ELSE outcome[k]
    BY DEF Over, HostTypes
  <1>6. /\ awaited' \in [HostLinks -> SUBSET HostCalls]
        /\ \A l \in HostLinks : awaited'[l] \subseteq awaited[l]
        /\ k \notin awaited'[hcall[k].on]
    BY <1>1 DEF Over, HostTypes
  <1> QED
    BY <1>1, <1>2, <1>4, <1>5, <1>6

LEMMA SubmitRequestEffect ==
  ASSUME HostTypes, NEW k \in HostCalls, SubmitRequest(k)
  PROVE  /\ hcall' \in [HostCalls -> RequestType] /\ outcome' \in [HostCalls -> HostOutcomes]
         /\ \A j \in HostCalls : j # k => hcall'[j] = hcall[j] /\ outcome'[j] = outcome[j]
         /\ hcall[k].at = "idle" /\ hcall[k].on = 0 /\ hcall[k].id = 0
         /\ hcall'[k].on = current /\ hcall'[k].id = 0 /\ hcall'[k].future = "open"
         /\ hcall'[k].at = IF current = 0 THEN "over" ELSE "submitted"
         /\ outcome'[k] = IF current = 0 THEN "UNAVAILABLE" ELSE "none"
  <1>1. hcall[k] \in RequestType /\ hcall[k] = IdleRequest /\ current \in 0..MaxLinks
    BY DEF HostTypes, SubmitRequest
  <1> DEFINE r == [IdleRequest EXCEPT !.at = IF current = 0 THEN "over" ELSE "submitted", !.on = current]
  <1>2. /\ r \in RequestType /\ r.on = current /\ r.id = 0 /\ r.future = "open"
        /\ r.at = IF current = 0 THEN "over" ELSE "submitted"
    BY <1>1 DEF RequestType, RequestPlaces, IdleRequest
  <1>3. hcall' = [hcall EXCEPT ![k] = r]
    BY <1>1 DEF SubmitRequest
  <1> HIDE DEF r
  <1>4. hcall' \in [HostCalls -> RequestType] /\ hcall'[k] = r /\ \A j \in HostCalls : j # k => hcall'[j] = hcall[j]
    BY <1>2, <1>3 DEF HostTypes
  <1>5. /\ outcome' \in [HostCalls -> HostOutcomes]
        /\ \A j \in HostCalls : j # k => outcome'[j] = outcome[j]
        /\ outcome'[k] = IF current = 0 THEN "UNAVAILABLE" ELSE "none"
    BY DEF SubmitRequest, HostTypes, HostOutcomes
  <1> QED
    BY <1>1, <1>2, <1>4, <1>5 DEF IdleRequest

LEMMA GivesUpRequestEffect ==
  ASSUME HostTypes, NEW k \in HostCalls, NEW why \in {"CANCELLED", "TIMEOUT"}, GivesUpRequest(k, why)
  PROVE  /\ hcall' \in [HostCalls -> RequestType] /\ outcome' \in [HostCalls -> HostOutcomes]
         /\ \A j \in HostCalls : j # k => hcall'[j] = hcall[j] /\ outcome'[j] = outcome[j]
         /\ outcome[k] = "none" /\ hcall[k].at \in {"submitted", "registered", "waiting"}
         /\ hcall'[k].at = IF hcall[k].at = "submitted" THEN "over" ELSE "cancelling"
         /\ hcall'[k].on = hcall[k].on /\ hcall'[k].id = hcall[k].id
         /\ hcall'[k].future = hcall[k].future /\ hcall'[k].answer = hcall[k].answer
         /\ outcome'[k] = why
  <1>1. hcall[k] \in RequestType
    BY DEF HostTypes
  <1> DEFINE r == [hcall[k] EXCEPT !.at = IF hcall[k].at = "submitted" THEN "over" ELSE "cancelling"]
  <1>2. /\ r \in RequestType /\ r.on = hcall[k].on /\ r.id = hcall[k].id
        /\ r.future = hcall[k].future /\ r.answer = hcall[k].answer
        /\ r.at = IF hcall[k].at = "submitted" THEN "over" ELSE "cancelling"
    BY <1>1 DEF RequestType, RequestPlaces
  <1>3. hcall' = [hcall EXCEPT ![k] = r]
    BY DEF GivesUpRequest
  <1> HIDE DEF r
  <1>4. hcall' \in [HostCalls -> RequestType] /\ hcall'[k] = r /\ \A j \in HostCalls : j # k => hcall'[j] = hcall[j]
    BY <1>2, <1>3 DEF HostTypes
  <1>5. /\ outcome' \in [HostCalls -> HostOutcomes]
        /\ \A j \in HostCalls : j # k => outcome'[j] = outcome[j]
        /\ outcome'[k] = why
    BY DEF GivesUpRequest, HostTypes, HostOutcomes
  <1> QED
    BY <1>1, <1>2, <1>4, <1>5 DEF GivesUpRequest

LEMMA RegistersEffect ==
  ASSUME HostTypes, NEW k \in HostCalls, Registers(k), hcall[k].on # 0
  PROVE  /\ hcall[k].on \in HostLinks /\ hcall[k].at = "submitted"
         /\ hcall' \in [HostCalls -> RequestType] /\ given' \in [HostLinks -> Nat]
         /\ awaited' \in [HostLinks -> SUBSET HostCalls]
         /\ \A j \in HostCalls : j # k => hcall'[j] = hcall[j]
         /\ hcall'[k].at = "registered" /\ hcall'[k].on = hcall[k].on
         /\ hcall'[k].id = given[hcall[k].on] + 1
         /\ hcall'[k].future = hcall[k].future /\ hcall'[k].answer = hcall[k].answer
         /\ \A l \in HostLinks : given[l] \in Nat
         /\ \A l \in HostLinks :
              IF l = hcall[k].on THEN given'[l] = given[l] + 1 /\ awaited'[l] = awaited[l] \cup {k}
              ELSE given'[l] = given[l] /\ awaited'[l] = awaited[l]
         /\ UNCHANGED outcome
  <1>1. hcall[k] \in RequestType /\ hcall[k].on \in HostLinks
    BY LinksAreNumbers DEF HostTypes, RequestType
  <1>2. given[hcall[k].on] + 1 \in Nat
    BY <1>1 DEF HostTypes
  <1> DEFINE r == [hcall[k] EXCEPT !.at = "registered", !.id = given[hcall[k].on] + 1]
  <1>3. /\ r \in RequestType /\ r.on = hcall[k].on /\ r.id = given[hcall[k].on] + 1
        /\ r.future = hcall[k].future /\ r.answer = hcall[k].answer /\ r.at = "registered"
    BY <1>1, <1>2 DEF RequestType, RequestPlaces
  <1>4. hcall' = [hcall EXCEPT ![k] = r]
    BY DEF Registers
  <1> HIDE DEF r
  <1>5. hcall' \in [HostCalls -> RequestType] /\ hcall'[k] = r /\ \A j \in HostCalls : j # k => hcall'[j] = hcall[j]
    BY <1>3, <1>4 DEF HostTypes
  <1>6. /\ given' \in [HostLinks -> Nat] /\ awaited' \in [HostLinks -> SUBSET HostCalls]
        /\ \A l \in HostLinks : given[l] \in Nat
        /\ \A l \in HostLinks :
              IF l = hcall[k].on THEN given'[l] = given[l] + 1 /\ awaited'[l] = awaited[l] \cup {k}
              ELSE given'[l] = given[l] /\ awaited'[l] = awaited[l]
    BY <1>1 DEF Registers, HostTypes
  <1> QED
    BY <1>1, <1>3, <1>5, <1>6 DEF Registers

(* The request of a call is sent, on a connection that carries frames.      *)
SendsRequest(k) == Sends(k) /\ Carries(hcall[k].on)

LEMMA SendsRequestEffect ==
  ASSUME HostTypes, NEW k \in HostCalls, SendsRequest(k), hcall[k].on # 0
  PROVE  /\ hcall[k].on \in HostLinks /\ hcall[k].at = "registered" /\ hcall[k].id \in Nat
         /\ hcall' \in [HostCalls -> RequestType]
         /\ toHost' = [toHost EXCEPT ![hcall[k].on] = Append(toHost[hcall[k].on], <<"request", hcall[k].id>>)]
         /\ \A j \in HostCalls : j # k => hcall'[j] = hcall[j]
         /\ hcall'[k].at = "waiting" /\ hcall'[k].on = hcall[k].on /\ hcall'[k].id = hcall[k].id
         /\ hcall'[k].future = hcall[k].future /\ hcall'[k].answer = hcall[k].answer
         /\ UNCHANGED <<current, link, given, awaited, outcome, fromHost, handling, ran>>
  <1>1. hcall[k] \in RequestType /\ hcall[k].on \in HostLinks
    BY LinksAreNumbers DEF HostTypes, RequestType
  <1> DEFINE r == [hcall[k] EXCEPT !.at = "waiting"]
  <1>2. /\ r \in RequestType /\ r.on = hcall[k].on /\ r.id = hcall[k].id
        /\ r.future = hcall[k].future /\ r.answer = hcall[k].answer /\ r.at = "waiting"
    BY <1>1 DEF RequestType, RequestPlaces
  <1>3. /\ hcall' = [hcall EXCEPT ![k] = r] /\ hcall[k].at = "registered"
        /\ toHost' = [toHost EXCEPT ![hcall[k].on] = Append(toHost[hcall[k].on], <<"request", hcall[k].id>>)]
        /\ UNCHANGED <<current, link, given, awaited, outcome, fromHost, handling, ran>>
    BY DEF SendsRequest, Sends
  <1> HIDE DEF r
  <1>4. hcall' \in [HostCalls -> RequestType] /\ hcall'[k] = r /\ \A j \in HostCalls : j # k => hcall'[j] = hcall[j]
    BY <1>2, <1>3 DEF HostTypes
  <1> QED
    BY <1>1, <1>2, <1>3, <1>4 DEF RequestType

(* The ways in which a call is over, and what its thread is told.           *)
Ends(k, why) ==
  /\ UNCHANGED <<current, link, given, fromHost, handling, ran>>
  /\ Over(k, why)
  /\ \/ /\ hcall[k].at = "registered" /\ why = "error" /\ UNCHANGED toHost
     \/ /\ hcall[k].at = "waiting" /\ UNCHANGED toHost
        /\ why \in {"UNAVAILABLE", "answered"} /\ (why = "answered" => hcall[k].future = "answered")
     \/ /\ hcall[k].at = "cancelling" /\ why = outcome[k]
        /\ toHost' = IF Carries(hcall[k].on) THEN CancelTold(k) ELSE toHost

LEMMA HostTaskCases ==
  ASSUME HostTypes, NEW k \in HostCalls, HostTask(k)
  PROVE  \/ Registers(k) \/ SendsRequest(k)
         \/ \E why \in HostOutcomes : Ends(k, why)
  <1>1. hcall[k] \in RequestType /\ outcome[k] \in HostOutcomes
    BY DEF HostTypes
  <1>2. CASE Sends(k)
    <2>1. CASE Carries(hcall[k].on)
      BY <1>2, <2>1 DEF SendsRequest
    <2>2. CASE ~Carries(hcall[k].on)
      BY <1>2, <2>2 DEF Sends, Ends, HostOutcomes
    <2> QED
      BY <2>1, <2>2
  <1>3. CASE HostReturns(k)
    <2> DEFINE why == IF hcall[k].future = "failed" THEN "UNAVAILABLE" ELSE hcall[k].future
    <2>1. why \in {"UNAVAILABLE", "answered"} /\ (why = "answered" => hcall[k].future = "answered")
      BY <1>1, <1>3 DEF HostReturns, RequestType
    <2>2. Over(k, why) /\ hcall[k].at = "waiting"
          /\ UNCHANGED <<current, link, given, toHost, fromHost, handling, ran>>
      BY <1>3 DEF HostReturns
    <2> HIDE DEF why
    <2> QED
      BY <2>1, <2>2 DEF Ends, HostOutcomes
  <1>4. CASE NotifiesCancel(k)
    BY <1>1, <1>4 DEF NotifiesCancel, Ends
  <1> QED
    BY <1>2, <1>3, <1>4 DEF HostTask

-----------------------------------------------------------------------------
(* The steps keep the invariant.                                            *)

LEMMA RequestOfCall ==
  ASSUME NEW l, NEW id, \E k \in HostCalls : Has(k, l, id)
  PROVE  RequestOf(l, id) \in HostCalls /\ Has(RequestOf(l, id), l, id)
  BY DEF RequestOf, Has

LEMMA HostTypesNext ==
  ASSUME HostInv, [HostNext]_hostVars
  PROVE  HostTypes'
  <1>0. HostTypes /\ \A k \in HostCalls : CallFits(k)
    BY DEF HostInv
  <1>1. ASSUME NEW l \in HostLinks, Serve(l) PROVE HostTypes'
    <2>1. current' \in 0..MaxLinks /\ link' \in [HostLinks -> LinkStates]
      BY <1>0, <1>1, LinksAreNumbers DEF Serve, HostTypes, LinkStates
    <2> QED
      BY <1>0, <1>1, <2>1 DEF Serve, HostTypes
  <1>2. ASSUME NEW l \in HostLinks, Retire(l) PROVE HostTypes'
    <2>1. /\ hcall' \in [HostCalls -> RequestType] /\ awaited' \in [HostLinks -> SUBSET HostCalls]
          /\ link' \in [HostLinks -> LinkStates]
      BY <1>0, <1>2, FailedFuturesEffect DEF Retire, HostTypes, LinkStates
    <2> QED
      BY <1>0, <1>2, <2>1 DEF Retire, HostTypes
  <1>3. ASSUME NEW l \in HostLinks, Disconnects(l) PROVE HostTypes'
    <2>1. /\ hcall' \in [HostCalls -> RequestType] /\ awaited' \in [HostLinks -> SUBSET HostCalls]
          /\ link' \in [HostLinks -> LinkStates]
      BY <1>0, <1>3, FailedFuturesEffect DEF Disconnects, HostTypes, LinkStates
    <2>3. current' \in 0..MaxLinks
      BY <1>0, <1>3, LinksAreNumbers DEF Disconnects, HostTypes
    <2>2. /\ toHost' \in [HostLinks -> Seq({"request", "cancel"} \X Nat)] /\ fromHost' \in [HostLinks -> Seq(Nat)]
          /\ handling' \in [HostLinks -> SUBSET Nat]
      BY <1>0, <1>3 DEF Disconnects, HostTypes
    <2> QED
      BY <1>0, <1>3, <2>1, <2>2, <2>3 DEF Disconnects, HostTypes
  <1>4. ASSUME NEW l \in HostLinks, Resolves(l) PROVE HostTypes'
    <2>1. fromHost[l] \in Seq(Nat) /\ fromHost[l] # <<>>
      BY <1>0, <1>4 DEF Resolves, HostTypes
    <2>2. Tail(fromHost[l]) \in Seq(Nat)
      BY <2>1
    <2>3. fromHost' \in [HostLinks -> Seq(Nat)]
      <3>1. fromHost' = [fromHost EXCEPT ![l] = Tail(fromHost[l])]
        BY <1>0, <1>4, ResolvesEffect
      <3> QED
        BY <1>0, <2>2, <3>1 DEF HostTypes
    <2> QED
      BY <1>0, <1>4, <2>3, ResolvesEffect DEF Resolves, HostTypes
  <1>5. ASSUME NEW l \in HostLinks, HostReceives(l) PROVE HostTypes'
    <2> DEFINE frame == Head(toHost[l])
    <2>1. toHost[l] \in Seq({"request", "cancel"} \X Nat) /\ toHost[l] # <<>>
      BY <1>0, <1>5 DEF HostReceives, HostTypes
    <2>2. frame \in {"request", "cancel"} \X Nat /\ Tail(toHost[l]) \in Seq({"request", "cancel"} \X Nat)
          /\ frame = toHost[l][1] /\ 1 \in DOMAIN toHost[l]
      BY <2>1
    <2>3. toHost' \in [HostLinks -> Seq({"request", "cancel"} \X Nat)]
      BY <1>0, <1>5, <2>2 DEF HostReceives, HostTypes
    <2>4. frame[2] \in Nat /\ (frame[1] = "request" => RequestOf(l, frame[2]) \in HostCalls)
      BY <2>2, RequestOfCall DEF HostInv, FramesHaveCalls
    <2>5. handling' \in [HostLinks -> SUBSET Nat]
      <3>1. handling' \in {[handling EXCEPT ![l] = handling[l] \cup {frame[2]}],
                           [handling EXCEPT ![l] = handling[l] \ {frame[2]}]}
        BY <1>5 DEF HostReceives
      <3>2. handling[l] \in SUBSET Nat /\ handling \in [HostLinks -> SUBSET Nat]
        BY <1>0 DEF HostTypes
      <3>3. handling[l] \cup {frame[2]} \in SUBSET Nat /\ handling[l] \ {frame[2]} \in SUBSET Nat
        BY <2>4, <3>2
      <3> HIDE DEF frame
      <3>4. \A S \in SUBSET Nat : [handling EXCEPT ![l] = S] \in [HostLinks -> SUBSET Nat]
        BY <3>2
      <3> QED
        BY <3>1, <3>3, <3>4
    <2>6. ran' \in SUBSET (HostLinks \X Nat \X HostCalls)
      BY <1>0, <1>5, <2>4 DEF HostReceives, HostTypes
    <2> QED
      BY <1>0, <1>5, <2>3, <2>5, <2>6 DEF HostReceives, HostTypes
  <1>6. ASSUME NEW l \in HostLinks, NEW id \in Ids, HostReplies(l, id) PROVE HostTypes'
    <2>1. fromHost[l] \in Seq(Nat) /\ id \in Nat
      BY <1>0, <1>6 DEF HostReplies, HostTypes
    <2>2. fromHost' \in [HostLinks -> Seq(Nat)] /\ handling' \in [HostLinks -> SUBSET Nat]
      BY <1>0, <1>6, <2>1 DEF HostReplies, HostTypes
    <2> QED
      BY <1>0, <1>6, <2>2 DEF HostReplies, HostTypes
  <1>7. ASSUME NEW k \in HostCalls, SubmitRequest(k) PROVE HostTypes'
    BY <1>0, <1>7, SubmitRequestEffect DEF SubmitRequest, HostTypes
  <1>8. ASSUME NEW k \in HostCalls, NEW why \in {"CANCELLED", "TIMEOUT"}, GivesUpRequest(k, why) PROVE HostTypes'
    BY <1>0, <1>8, GivesUpRequestEffect DEF GivesUpRequest, HostTypes
  <1>9. ASSUME NEW k \in HostCalls, Registers(k) PROVE HostTypes'
    <2>1. hcall[k].on # 0
      BY <1>0, <1>9 DEF Registers, CallFits
    <2> QED
      BY <1>0, <1>9, <2>1, RegistersEffect DEF Registers, HostTypes
  <1>10. ASSUME NEW k \in HostCalls, SendsRequest(k) PROVE HostTypes'
    <2>1. hcall[k].on # 0
      BY <1>0, <1>10 DEF SendsRequest, Sends, CallFits
    <2>2. hcall[k].on \in HostLinks /\ hcall[k].id \in Nat
      BY <1>0, <1>10, <2>1, SendsRequestEffect
    <2>3. Append(toHost[hcall[k].on], <<"request", hcall[k].id>>) \in Seq({"request", "cancel"} \X Nat)
      BY <1>0, <2>2 DEF HostTypes
    <2>4. toHost' \in [HostLinks -> Seq({"request", "cancel"} \X Nat)]
      BY <1>0, <1>10, <2>1, <2>3, SendsRequestEffect DEF HostTypes
    <2> QED
      BY <1>0, <1>10, <2>1, <2>4, SendsRequestEffect DEF HostTypes
  <1>11. ASSUME NEW k \in HostCalls, NEW why \in HostOutcomes, Ends(k, why) PROVE HostTypes'
    <2>1. hcall[k].on # 0 /\ Over(k, why)
      BY <1>0, <1>11 DEF Ends, CallFits
    <2>2. hcall[k].on \in HostLinks /\ hcall[k].id \in Nat
      BY <1>0, <2>1, LinksAreNumbers DEF HostTypes, RequestType
    <2>3. Append(toHost[hcall[k].on], <<"cancel", hcall[k].id>>) \in Seq({"request", "cancel"} \X Nat)
      BY <1>0, <2>2 DEF HostTypes
    <2>4. toHost' \in [HostLinks -> Seq({"request", "cancel"} \X Nat)]
      BY <1>0, <1>11, <2>3 DEF HostTypes, Ends, CancelTold
    <2> QED
      BY <1>0, <1>11, <2>1, <2>4, OverEffect DEF Ends, HostTypes
  <1>12. CASE UNCHANGED hostVars
    BY <1>0, <1>12 DEF hostVars, HostTypes
  <1> QED
    BY <1>0, <1>1, <1>2, <1>3, <1>4, <1>5, <1>6, <1>7, <1>8, <1>9, <1>10, <1>11, <1>12, HostTaskCases
       DEF HostNext

LEMMA CallFitsNext ==
  ASSUME HostInv, [HostNext]_hostVars, NEW k \in HostCalls
  PROVE  CallFits(k)'
  <1>0. HostTypes /\ CallFits(k) /\ hcall[k] \in RequestType
        /\ (hcall[k].on # 0 => hcall[k].on \in HostLinks)
    BY LinksAreNumbers DEF HostInv, HostTypes, RequestType
  <1>1. ASSUME UNCHANGED <<given, outcome>>, Stays(hcall', k),
               hcall[k].on # 0 => (link[hcall[k].on] # "unborn" => link'[hcall[k].on] # "unborn")
        PROVE  CallFits(k)'
    BY <1>0, <1>1 DEF CallFits, Stays
  <1>2. ASSUME NEW l \in HostLinks, Serve(l) PROVE CallFits(k)'
    BY <1>0, <1>1, <1>2 DEF Serve, Stays, HostTypes
  <1>3. ASSUME NEW l \in HostLinks, Retire(l) PROVE CallFits(k)'
    BY <1>0, <1>1, <1>3, FailedFuturesEffect DEF Retire, HostTypes, Stays
  <1>4. ASSUME NEW l \in HostLinks, Disconnects(l) PROVE CallFits(k)'
    BY <1>0, <1>1, <1>4, FailedFuturesEffect DEF Disconnects, HostTypes, Stays
  <1>5. ASSUME NEW l \in HostLinks, Resolves(l) PROVE CallFits(k)'
    <2>1. Stays(hcall', k)
      BY <1>0, <1>5, ResolvesEffect
    <2> QED
      BY <1>1, <1>5, <2>1 DEF Resolves
  <1>6. CASE \/ \E l \in HostLinks : HostReceives(l) \/ \E id \in Ids : HostReplies(l, id)
             \/ UNCHANGED hostVars
    BY <1>1, <1>6 DEF HostReceives, HostReplies, hostVars, Stays
  <1>7. ASSUME NEW c \in HostCalls, SubmitRequest(c) PROVE CallFits(k)'
    <2>1. UNCHANGED <<link, given>> /\ (current # 0 => link[current] # "unborn")
      BY <1>7 DEF SubmitRequest, HostInv, FramesHaveCalls
    <2>2. CASE c = k
      BY <1>0, <1>7, <2>1, <2>2, SubmitRequestEffect DEF CallFits
    <2>3. CASE c # k
      BY <1>0, <1>1, <1>7, <2>1, <2>3, SubmitRequestEffect DEF CallFits
    <2> QED
      BY <2>2, <2>3
  <1>8. ASSUME NEW c \in HostCalls, NEW why \in {"CANCELLED", "TIMEOUT"}, GivesUpRequest(c, why) PROVE CallFits(k)'
    <2>1. UNCHANGED <<link, given>>
      BY <1>8 DEF GivesUpRequest
    <2>2. CASE c = k
      BY <1>0, <1>8, <2>1, <2>2, GivesUpRequestEffect DEF CallFits
    <2>3. CASE c # k
      BY <1>0, <1>8, <2>1, <2>3, GivesUpRequestEffect DEF CallFits
    <2> QED
      BY <2>2, <2>3
  <1>9. ASSUME NEW c \in HostCalls, Registers(c) PROVE CallFits(k)'
    <2>1. hcall[c].on # 0 /\ UNCHANGED <<link, outcome>>
      BY <1>9 DEF Registers, CallFits, HostInv
    <2>2. CASE c = k
      BY <1>0, <1>9, <2>1, <2>2, RegistersEffect DEF CallFits
    <2>3. CASE c # k
      <3>1. hcall'[k] = hcall[k] /\ \A l \in HostLinks : given[l] \in Nat /\ given'[l] \in {given[l], given[l] + 1}
        BY <1>0, <1>9, <2>1, <2>3, RegistersEffect
      <3> QED
        BY <1>0, <2>1, <3>1 DEF CallFits, RequestType
    <2> QED
      BY <2>2, <2>3
  <1>10. ASSUME NEW c \in HostCalls, SendsRequest(c) PROVE CallFits(k)'
    <2>1. hcall[c].on # 0
      BY <1>10 DEF SendsRequest, Sends, CallFits, HostInv
    <2>2. CASE c = k
      BY <1>0, <1>10, <2>1, <2>2, SendsRequestEffect DEF CallFits
    <2>3. CASE c # k
      BY <1>0, <1>10, <2>1, <2>3, SendsRequestEffect DEF CallFits
    <2> QED
      BY <2>2, <2>3
  <1>11. ASSUME NEW c \in HostCalls, NEW why \in HostOutcomes, Ends(c, why) PROVE CallFits(k)'
    <2>1. hcall[c].on # 0 /\ Over(c, why) /\ UNCHANGED <<link, given>>
      BY <1>11 DEF Ends, CallFits, HostInv
    <2>2. CASE c = k
      BY <1>0, <2>1, <2>2, OverEffect DEF CallFits
    <2>3. CASE c # k
      BY <1>0, <2>1, <2>3, OverEffect DEF CallFits
    <2> QED
      BY <2>2, <2>3
  <1> QED
    BY <1>0, <1>2, <1>3, <1>4, <1>5, <1>6, <1>7, <1>8, <1>9, <1>10, <1>11, HostTaskCases DEF HostNext

(* The connection and the id of a call never change once it has an id.      *)
LEMMA IdsStay ==
  ASSUME HostInv, [HostNext]_hostVars, NEW k \in HostCalls, hcall[k].id # 0
  PROVE  hcall'[k].on = hcall[k].on /\ hcall'[k].id = hcall[k].id
  <1>0. HostTypes /\ \A c \in HostCalls : CallFits(c)
    BY DEF HostInv
  <1>1. ASSUME NEW l \in HostLinks, Retire(l) \/ Disconnects(l) \/ Resolves(l)
        PROVE  Stays(hcall', k)
    BY <1>0, <1>1, FailedFuturesEffect, ResolvesEffect DEF Retire, Disconnects, Stays
  <1>2. CASE UNCHANGED hcall
    BY <1>2
  <1>3. ASSUME NEW c \in HostCalls, SubmitRequest(c) PROVE hcall'[k] = hcall[k]
    BY <1>0, <1>3, SubmitRequestEffect
  <1>4. ASSUME NEW c \in HostCalls, NEW why \in {"CANCELLED", "TIMEOUT"}, GivesUpRequest(c, why)
        PROVE  hcall'[k].on = hcall[k].on /\ hcall'[k].id = hcall[k].id
    BY <1>0, <1>4, GivesUpRequestEffect
  <1>5. ASSUME NEW c \in HostCalls, Registers(c) PROVE hcall'[k] = hcall[k]
    <2>1. hcall[c].on # 0 /\ c # k
      BY <1>0, <1>5 DEF Registers, CallFits
    <2> QED
      BY <1>0, <1>5, <2>1, RegistersEffect
  <1>6. ASSUME NEW c \in HostCalls, SendsRequest(c)
        PROVE  hcall'[k].on = hcall[k].on /\ hcall'[k].id = hcall[k].id
    <2>1. hcall[c].on # 0
      BY <1>0, <1>6 DEF SendsRequest, Sends, CallFits
    <2> QED
      BY <1>0, <1>6, <2>1, SendsRequestEffect
  <1>7. ASSUME NEW c \in HostCalls, NEW why \in HostOutcomes, Ends(c, why)
        PROVE  hcall'[k].on = hcall[k].on /\ hcall'[k].id = hcall[k].id
    <2>1. hcall[c].on # 0 /\ Over(c, why)
      BY <1>0, <1>7 DEF Ends, CallFits
    <2> QED
      BY <1>0, <2>1, OverEffect
  <1>8. ASSUME NEW l \in HostLinks, NEW id \in Ids, Serve(l) \/ HostReceives(l) \/ HostReplies(l, id)
        PROVE  UNCHANGED hcall
    BY <1>8 DEF Serve, HostReceives, HostReplies
  <1>9. ASSUME NEW l \in HostLinks, Serve(l) \/ HostReceives(l)
        PROVE  UNCHANGED hcall
    BY <1>9 DEF Serve, HostReceives
  <1> QED
    BY <1>0, <1>1, <1>2, <1>3, <1>4, <1>5, <1>6, <1>7, <1>8, <1>9, HostTaskCases DEF HostNext, hostVars, Stays

(* A call that gets its id now gets one that no call of its connection has. *)
LEMMA NewIds ==
  ASSUME HostInv, [HostNext]_hostVars, NEW k \in HostCalls, hcall[k].id = 0, hcall'[k].id # 0
  PROVE  /\ hcall'[k].on = hcall[k].on /\ hcall[k].on \in HostLinks /\ Registers(k)
         /\ hcall'[k].id = given[hcall[k].on] + 1
  <1>0. HostTypes /\ \A c \in HostCalls : CallFits(c)
    BY DEF HostInv
  <1>1. ASSUME NEW l \in HostLinks, Retire(l) \/ Disconnects(l) \/ Resolves(l)
        PROVE  FALSE
    <2>1. Stays(hcall', k)
      BY <1>0, <1>1, FailedFuturesEffect, ResolvesEffect DEF Retire, Disconnects, Stays
    <2> QED
      BY <2>1 DEF Stays
  <1>2. ASSUME NEW l \in HostLinks, NEW id \in Ids, HostReplies(l, id)
        PROVE  FALSE
    BY <1>2 DEF HostReplies
  <1>3. ASSUME NEW l \in HostLinks, Serve(l) \/ HostReceives(l)
        PROVE  FALSE
    BY <1>3 DEF Serve, HostReceives
  <1>4. ASSUME NEW c \in HostCalls, SubmitRequest(c) PROVE FALSE
    BY <1>0, <1>4, SubmitRequestEffect
  <1>5. ASSUME NEW c \in HostCalls, NEW why \in {"CANCELLED", "TIMEOUT"}, GivesUpRequest(c, why)
        PROVE  FALSE
    BY <1>0, <1>5, GivesUpRequestEffect
  <1>6. ASSUME NEW c \in HostCalls, Registers(c)
        PROVE  /\ hcall'[k].on = hcall[k].on /\ hcall[k].on \in HostLinks /\ Registers(k)
               /\ hcall'[k].id = given[hcall[k].on] + 1
    <2>1. hcall[c].on # 0
      BY <1>0, <1>6 DEF Registers, CallFits
    <2>2. c = k
      BY <1>0, <1>6, <2>1, RegistersEffect
    <2> QED
      BY <1>0, <1>6, <2>1, <2>2, RegistersEffect
  <1>7. ASSUME NEW c \in HostCalls, SendsRequest(c) PROVE FALSE
    <2>1. hcall[c].on # 0
      BY <1>0, <1>7 DEF SendsRequest, Sends, CallFits
    <2> QED
      BY <1>0, <1>7, <2>1, SendsRequestEffect
  <1>8. ASSUME NEW c \in HostCalls, NEW why \in HostOutcomes, Ends(c, why) PROVE FALSE
    <2>1. hcall[c].on # 0 /\ Over(c, why)
      BY <1>0, <1>8 DEF Ends, CallFits
    <2> QED
      BY <1>0, <2>1, OverEffect
  <1>9. CASE UNCHANGED hostVars
    BY <1>9 DEF hostVars
  <1> QED
    BY <1>0, <1>1, <1>2, <1>3, <1>4, <1>5, <1>6, <1>7, <1>8, <1>9, HostTaskCases DEF HostNext

LEMMA IdsAreOwnNext ==
  ASSUME HostInv, [HostNext]_hostVars
  PROVE  IdsAreOwn'
  <1>0. HostTypes /\ IdsAreOwn /\ \A c \in HostCalls : CallFits(c)
    BY DEF HostInv
  <1> SUFFICES ASSUME NEW j \in HostCalls, NEW k \in HostCalls, hcall'[j].on = hcall'[k].on,
                      hcall'[j].id = hcall'[k].id, hcall'[k].id # 0
               PROVE  j = k
    BY DEF IdsAreOwn
  <1>1. CASE hcall[j].id # 0 /\ hcall[k].id # 0
    BY <1>0, <1>1, IdsStay DEF IdsAreOwn
  <1>2. ASSUME NEW a \in HostCalls, NEW b \in HostCalls, hcall[a].id # 0, hcall[b].id = 0,
               hcall'[a].on = hcall'[b].on, hcall'[a].id = hcall'[b].id, hcall'[b].id # 0
        PROVE  FALSE
    <2>1. hcall'[a].on = hcall[a].on /\ hcall'[a].id = hcall[a].id
      BY <1>2, IdsStay
    <2>2. hcall'[b].on = hcall[b].on /\ hcall[b].on \in HostLinks /\ hcall'[b].id = given[hcall[b].on] + 1
      BY <1>2, NewIds
    <2>3. hcall[a].id <= given[hcall[a].on]
      BY <1>0, <1>2 DEF CallFits
    <2>4. given[hcall[b].on] \in Nat /\ hcall[a].id \in Nat
      BY <1>0, <2>2 DEF HostTypes, RequestType
    <2>5. hcall[a].id <= given[hcall[b].on] /\ hcall[a].id = given[hcall[b].on] + 1
      BY <1>2, <2>1, <2>2, <2>3
    <2> QED
      BY <2>4, <2>5
  <1>3. CASE hcall[j].id = 0 /\ hcall[k].id = 0
    <2>1. Registers(j) /\ Registers(k) /\ hcall[j].on # 0 /\ hcall[k].on # 0
      BY <1>0, <1>3, NewIds, LinksAreNumbers
    <2> QED
      BY <1>0, <1>3, <2>1, RegistersEffect
  <1> QED
    BY <1>1, <1>2, <1>3

-----------------------------------------------------------------------------
(* Frames and what the host runs.                                           *)

LEMMA HasStays ==
  ASSUME HostInv, [HostNext]_hostVars, NEW k \in HostCalls, NEW l, NEW id, Has(k, l, id), id # 0
  PROVE  Has(k, l, id)'
  BY IdsStay DEF Has

LEMMA RanGrows ==
  ASSUME [HostNext]_hostVars
  PROVE  ran \subseteq ran'
  <1>1. ASSUME NEW l \in HostLinks, HostReceives(l) PROVE ran \subseteq ran'
    BY <1>1 DEF HostReceives
  <1>2. ASSUME NEW l \in HostLinks, Serve(l) \/ Retire(l) \/ Disconnects(l) \/ Resolves(l) PROVE ran' = ran
    BY <1>2 DEF Serve, Retire, Disconnects, Resolves
  <1>3. ASSUME NEW l \in HostLinks, NEW id \in Ids, HostReplies(l, id) PROVE ran' = ran
    BY <1>3 DEF HostReplies
  <1>4. ASSUME NEW k \in HostCalls, NEW why, SubmitRequest(k) \/ GivesUpRequest(k, why) \/ HostTask(k) PROVE ran' = ran
    BY <1>4 DEF SubmitRequest, GivesUpRequest, HostTask, Registers, Sends, HostReturns, NotifiesCancel
  <1>5. CASE UNCHANGED hostVars
    BY <1>5 DEF hostVars
  <1> QED
    BY <1>1, <1>2, <1>3, <1>4, <1>5 DEF HostNext

(* The requests the host begins are those of the frames it receives.        *)
LEMMA RanNext ==
  ASSUME HostInv, [HostNext]_hostVars, NEW x, x \in ran'
  PROVE  x \in ran \/ (x[2] # 0 /\ x[3] \in HostCalls /\ Has(x[3], x[1], x[2]))
  <1>1. ASSUME NEW l \in HostLinks, HostReceives(l), x \notin ran
        PROVE  x[2] # 0 /\ x[3] \in HostCalls /\ Has(x[3], x[1], x[2])
    <2> DEFINE frame == toHost[l][1]
    <2>1. toHost[l] \in Seq({"request", "cancel"} \X Nat) /\ toHost[l] # <<>>
      BY <1>1 DEF HostReceives, HostInv, HostTypes
    <2>2. 1 \in DOMAIN toHost[l] /\ Head(toHost[l]) = frame
      BY <2>1
    <2>3. frame[1] = "request" /\ x = <<l, frame[2], RequestOf(l, frame[2])>>
      BY <1>1, <2>2 DEF HostReceives
    <2>4. frame[2] # 0 /\ \E k \in HostCalls : Has(k, l, frame[2])
      BY <2>2, <2>3 DEF HostInv, FramesHaveCalls
    <2> HIDE DEF frame
    <2> QED
      BY <2>3, <2>4, RequestOfCall
  <1>2. ASSUME NEW l \in HostLinks, Serve(l) \/ Retire(l) \/ Disconnects(l) \/ Resolves(l) PROVE ran' = ran
    BY <1>2 DEF Serve, Retire, Disconnects, Resolves
  <1>3. ASSUME NEW l \in HostLinks, NEW id \in Ids, HostReplies(l, id) PROVE ran' = ran
    BY <1>3 DEF HostReplies
  <1>4. ASSUME NEW k \in HostCalls, NEW why, SubmitRequest(k) \/ GivesUpRequest(k, why) \/ HostTask(k) PROVE ran' = ran
    BY <1>4 DEF SubmitRequest, GivesUpRequest, HostTask, Registers, Sends, HostReturns, NotifiesCancel
  <1>5. CASE UNCHANGED hostVars
    BY <1>5 DEF hostVars
  <1> QED
    BY <1>1, <1>2, <1>3, <1>4, <1>5 DEF HostNext

LEMMA CurrentNext ==
  ASSUME HostInv, [HostNext]_hostVars
  PROVE  current' # 0 => link'[current'] = "open"
  <1>0. HostTypes /\ (current # 0 => link[current] = "open" /\ current \in HostLinks)
    BY LinksAreNumbers DEF HostInv, HostTypes, FramesHaveCalls
  <1>1. ASSUME NEW l \in HostLinks, Serve(l) \/ Retire(l) \/ Disconnects(l)
        PROVE  current' # 0 => link'[current'] = "open"
    BY <1>0, <1>1 DEF Serve, Retire, Disconnects, HostTypes
  <1>2. ASSUME NEW l \in HostLinks, NEW id \in Ids, HostReplies(l, id) PROVE UNCHANGED <<current, link>>
    BY <1>2 DEF HostReplies
  <1>3. ASSUME NEW l \in HostLinks, Resolves(l) \/ HostReceives(l) PROVE UNCHANGED <<current, link>>
    BY <1>3 DEF Resolves, HostReceives
  <1>4. ASSUME NEW k \in HostCalls, NEW why, SubmitRequest(k) \/ GivesUpRequest(k, why) \/ HostTask(k)
        PROVE  UNCHANGED <<current, link>>
    BY <1>4 DEF SubmitRequest, GivesUpRequest, HostTask, Registers, Sends, HostReturns, NotifiesCancel
  <1>5. CASE UNCHANGED hostVars
    BY <1>0, <1>5 DEF hostVars
  <1> QED
    BY <1>0, <1>1, <1>2, <1>3, <1>4, <1>5 DEF HostNext

LEMMA AwaitedNext ==
  ASSUME HostInv, [HostNext]_hostVars, NEW l \in HostLinks, NEW k \in HostCalls, k \in awaited'[l]
  PROVE  hcall'[k].on = l /\ hcall'[k].at \in {"registered", "waiting", "cancelling"}
  <1> DEFINE Good(h) == h[k].on = l /\ h[k].at \in {"registered", "waiting", "cancelling"}
  <1>0. /\ HostTypes /\ \A c \in HostCalls : CallFits(c)
        /\ k \in awaited[l] => Good(hcall)
    BY DEF HostInv, FramesHaveCalls
  <1>1. ASSUME NEW n \in HostLinks, Retire(n) \/ Disconnects(n) PROVE Good(hcall')
    <2>1. k \in awaited[l] /\ hcall' = FailedFutures(n)
      BY <1>0, <1>1 DEF Retire, Disconnects, HostTypes
    <2>2. Stays(hcall', k)
      BY <1>0, <2>1, FailedFuturesEffect DEF Stays
    <2> QED
      BY <1>0, <2>1, <2>2 DEF Stays
  <1>2. ASSUME NEW n \in HostLinks, Resolves(n) PROVE Good(hcall')
    <2>1. k \in awaited[l] /\ Stays(hcall', k)
      BY <1>0, <1>2, ResolvesEffect DEF Resolves
    <2> QED
      BY <1>0, <2>1 DEF Stays
  <1>3. CASE UNCHANGED <<hcall, awaited>>
    BY <1>0, <1>3
  <1>4. ASSUME NEW n \in HostLinks, NEW id \in Ids, HostReplies(n, id) PROVE UNCHANGED <<hcall, awaited>>
    BY <1>4 DEF HostReplies
  <1>5. ASSUME NEW n \in HostLinks, Serve(n) \/ HostReceives(n) PROVE UNCHANGED <<hcall, awaited>>
    BY <1>5 DEF Serve, HostReceives
  <1>6. ASSUME NEW c \in HostCalls, SubmitRequest(c) PROVE Good(hcall')
    BY <1>0, <1>6, SubmitRequestEffect DEF SubmitRequest
  <1>7. ASSUME NEW c \in HostCalls, NEW why \in {"CANCELLED", "TIMEOUT"}, GivesUpRequest(c, why) PROVE Good(hcall')
    BY <1>0, <1>7, GivesUpRequestEffect DEF GivesUpRequest
  <1>8. ASSUME NEW c \in HostCalls, Registers(c) PROVE Good(hcall')
    <2>1. hcall[c].on # 0
      BY <1>0, <1>8 DEF Registers, CallFits
    <2> QED
      BY <1>0, <1>8, <2>1, RegistersEffect
  <1>9. ASSUME NEW c \in HostCalls, SendsRequest(c) PROVE Good(hcall')
    <2>1. hcall[c].on # 0
      BY <1>0, <1>9 DEF SendsRequest, Sends, CallFits
    <2> QED
      BY <1>0, <1>9, <2>1, SendsRequestEffect
  <1>10. ASSUME NEW c \in HostCalls, NEW why \in HostOutcomes, Ends(c, why) PROVE Good(hcall')
    <2>1. hcall[c].on # 0 /\ Over(c, why)
      BY <1>0, <1>10 DEF Ends, CallFits
    <2>2. k \in awaited[l] /\ k # c
      BY <1>0, <2>1, OverEffect
    <2> QED
      BY <1>0, <2>1, <2>2, OverEffect
  <1>11. CASE UNCHANGED hostVars
    BY <1>3, <1>11 DEF hostVars
  <1> QED
    BY <1>0, <1>1, <1>2, <1>3, <1>4, <1>5, <1>6, <1>7, <1>8, <1>9, <1>10, <1>11, HostTaskCases DEF HostNext

(* What can happen to the frames on their way to the host.                  *)
ToHostStep(l) ==
  \/ toHost'[l] = toHost[l] /\ handling'[l] \subseteq handling[l]
  \/ toHost'[l] = <<>> /\ ~Carries(l)'
  \/ toHost[l] # <<>> /\ toHost'[l] = Tail(toHost[l]) /\ HostReceives(l)
  \/ \E k \in HostCalls :
       /\ hcall[k].on = l /\ hcall[k].id # 0 /\ handling'[l] = handling[l]
       /\ \/ hcall[k].at = "registered" /\ toHost'[l] = Append(toHost[l], <<"request", hcall[k].id>>)
          \/ toHost'[l] = Append(toHost[l], <<"cancel", hcall[k].id>>)

LEMMA ToHostSteps ==
  ASSUME HostInv, [HostNext]_hostVars, NEW l \in HostLinks
  PROVE  ToHostStep(l)
  <1>0. HostTypes /\ \A c \in HostCalls : CallFits(c)
    BY DEF HostInv
  <1>1. ASSUME NEW n \in HostLinks, Disconnects(n) PROVE ToHostStep(l)
    <2>1. IF l = n THEN toHost'[l] = <<>> /\ link'[l] = "closed" ELSE toHost'[l] = toHost[l] /\ handling'[l] = handling[l]
      BY <1>0, <1>1 DEF Disconnects, HostTypes
    <2> QED
      BY <2>1 DEF ToHostStep, Carries
  <1>2. ASSUME NEW n \in HostLinks, HostReceives(n) PROVE ToHostStep(l)
    BY <1>0, <1>2 DEF HostReceives, ToHostStep, HostTypes
  <1>3. ASSUME NEW n \in HostLinks, Serve(n) \/ Retire(n) \/ Resolves(n) PROVE ToHostStep(l)
    BY <1>3 DEF Serve, Retire, Resolves, ToHostStep
  <1>4. ASSUME NEW n \in HostLinks, NEW id \in Ids, HostReplies(n, id) PROVE ToHostStep(l)
    BY <1>0, <1>4 DEF HostReplies, ToHostStep, HostTypes
  <1>5. ASSUME NEW k \in HostCalls, NEW why, SubmitRequest(k) \/ GivesUpRequest(k, why) \/ Registers(k)
        PROVE  ToHostStep(l)
    BY <1>5 DEF SubmitRequest, GivesUpRequest, Registers, ToHostStep
  <1>6. ASSUME NEW k \in HostCalls, SendsRequest(k) PROVE ToHostStep(l)
    <2>1. hcall[k].on # 0 /\ hcall[k].id # 0
      BY <1>0, <1>6 DEF SendsRequest, Sends, CallFits
    <2>2. /\ hcall[k].at = "registered" /\ hcall[k].on \in HostLinks /\ handling' = handling
          /\ toHost' = [toHost EXCEPT ![hcall[k].on] = Append(toHost[hcall[k].on], <<"request", hcall[k].id>>)]
      BY <1>0, <1>6, <2>1, SendsRequestEffect
    <2>3. IF hcall[k].on = l THEN toHost'[l] = Append(toHost[l], <<"request", hcall[k].id>>)
                             ELSE toHost'[l] = toHost[l]
      BY <1>0, <2>2 DEF HostTypes
    <2> QED
      BY <2>1, <2>2, <2>3 DEF ToHostStep
  <1>7. ASSUME NEW k \in HostCalls, NEW why \in HostOutcomes, Ends(k, why) PROVE ToHostStep(l)
    <2>0. handling' = handling
      BY <1>7 DEF Ends
    <2>1. CASE UNCHANGED toHost
      BY <2>0, <2>1 DEF ToHostStep
    <2>2. CASE ~UNCHANGED toHost
      <3>1. hcall[k].at = "cancelling" /\ toHost' = CancelTold(k)
        BY <1>7, <2>2 DEF Ends
      <3>2. hcall[k].on # 0 /\ hcall[k].id # 0
        BY <1>0, <3>1 DEF CallFits
      <3>3. IF hcall[k].on = l THEN toHost'[l] = Append(toHost[l], <<"cancel", hcall[k].id>>)
                               ELSE toHost'[l] = toHost[l]
        BY <1>0, <3>1 DEF HostTypes, CancelTold
      <3> QED
        BY <2>0, <3>2, <3>3 DEF ToHostStep
    <2> QED
      BY <2>1, <2>2
  <1>8. CASE UNCHANGED hostVars
    BY <1>8 DEF hostVars, ToHostStep
  <1> QED
    BY <1>0, <1>1, <1>2, <1>3, <1>4, <1>5, <1>6, <1>7, <1>8, HostTaskCases DEF HostNext

LEMMA ToHostNext ==
  ASSUME HostInv, [HostNext]_hostVars, NEW l \in HostLinks, NEW i \in DOMAIN toHost'[l]
  PROVE  /\ toHost'[l][i][2] # 0
         /\ toHost'[l][i][1] = "request" => \E k \in HostCalls : Has(k, l, toHost'[l][i][2])
  <1>1. /\ toHost[l] \in Seq({"request", "cancel"} \X Nat)
        /\ \A n \in DOMAIN toHost[l] :
             toHost[l][n][2] # 0
             /\ (toHost[l][n][1] = "request" => \E k \in HostCalls : Has(k, l, toHost[l][n][2]))
    BY DEF HostInv, HostTypes, FramesHaveCalls
  <1>2. CASE toHost'[l] = toHost[l]
    BY <1>1, <1>2
  <1>3. CASE toHost'[l] = <<>>
    BY <1>3
  <1>4. CASE toHost[l] # <<>> /\ toHost'[l] = Tail(toHost[l])
    <2>1. i + 1 \in DOMAIN toHost[l] /\ toHost'[l][i] = toHost[l][i + 1]
      BY <1>1, <1>4
    <2> QED
      BY <1>1, <2>1
  <1>5. ASSUME NEW k \in HostCalls, hcall[k].on = l, hcall[k].id # 0, NEW sort \in {"request", "cancel"},
               toHost'[l] = Append(toHost[l], <<sort, hcall[k].id>>)
        PROVE  /\ toHost'[l][i][2] # 0
               /\ toHost'[l][i][1] = "request" => \E c \in HostCalls : Has(c, l, toHost'[l][i][2])
    <2>1. \/ i \in DOMAIN toHost[l] /\ toHost'[l][i] = toHost[l][i]
          \/ toHost'[l][i] = <<sort, hcall[k].id>>
      BY <1>1, <1>5
    <2> QED
      BY <1>1, <1>5, <2>1 DEF Has
  <1> QED
    BY <1>2, <1>3, <1>4, <1>5, ToHostSteps DEF ToHostStep

(* What the host runs, and what it answered, it has begun.                  *)
LEMMA HandlingNext ==
  ASSUME HostInv, [HostNext]_hostVars, NEW l \in HostLinks
  PROVE  /\ \A id \in handling'[l] : \E k \in HostCalls : <<l, id, k>> \in ran'
         /\ \A i \in DOMAIN fromHost'[l] : \E k \in HostCalls : <<l, fromHost'[l][i], k>> \in ran'
  <1> DEFINE IsBegun(id) == \E k \in HostCalls : <<l, id, k>> \in ran'
  <1>0. /\ HostTypes /\ fromHost[l] \in Seq(Nat)
        /\ \A id \in handling[l] : IsBegun(id)
        /\ \A i \in DOMAIN fromHost[l] : IsBegun(fromHost[l][i])
    BY RanGrows DEF HostInv, HostTypes, FramesHaveCalls
  <1>1. CASE UNCHANGED <<handling, fromHost>>
    BY <1>0, <1>1
  <1>2. ASSUME NEW n \in HostLinks, Disconnects(n)
        PROVE  handling'[l] \in {handling[l], {}} /\ fromHost'[l] \in {fromHost[l], <<>>}
    BY <1>0, <1>2 DEF Disconnects, HostTypes
  <1>3. ASSUME NEW n \in HostLinks, Resolves(n)
        PROVE  handling'[l] = handling[l] /\ \A i \in DOMAIN fromHost'[l] : IsBegun(fromHost'[l][i])
    <2>1. handling' = handling /\ fromHost' = [fromHost EXCEPT ![n] = Tail(fromHost[n])] /\ fromHost[n] # <<>>
      BY <1>0, <1>3, ResolvesEffect DEF Resolves
    <2>2. CASE n = l
      <3>1. fromHost'[l] = Tail(fromHost[l]) /\ fromHost[l] # <<>>
        BY <1>0, <2>1, <2>2 DEF HostTypes
      <3>2. \A i \in DOMAIN fromHost'[l] : i + 1 \in DOMAIN fromHost[l] /\ fromHost'[l][i] = fromHost[l][i + 1]
        BY <1>0, <3>1
      <3> QED
        BY <1>0, <2>1, <3>2
    <2>3. CASE n # l
      <3>1. fromHost'[l] = fromHost[l]
        BY <1>0, <2>1, <2>3 DEF HostTypes
      <3> QED
        BY <1>0, <2>1, <3>1
    <2> QED
      BY <2>2, <2>3
  <1>4. ASSUME NEW n \in HostLinks, HostReceives(n)
        PROVE  fromHost'[l] = fromHost[l] /\ \A id \in handling'[l] : IsBegun(id)
    <2> DEFINE frame == Head(toHost[n])
    <2>1. UNCHANGED fromHost /\ n \in HostLinks /\ handling \in [HostLinks -> SUBSET Nat]
          /\ \/ /\ frame[1] = "request" /\ handling' = [handling EXCEPT ![n] = @ \cup {frame[2]}]
                /\ <<n, frame[2], RequestOf(n, frame[2])>> \in ran'
             \/ /\ handling' = [handling EXCEPT ![n] = @ \ {frame[2]}]
      BY <1>0, <1>4 DEF HostReceives, HostTypes
    <2>2. frame[1] = "request" => RequestOf(n, frame[2]) \in HostCalls
      <3>1. toHost[n] # <<>> /\ toHost[n] \in Seq({"request", "cancel"} \X Nat)
        BY <1>0, <1>4 DEF HostReceives, HostTypes
      <3>2. 1 \in DOMAIN toHost[n] /\ frame = toHost[n][1]
        BY <3>1
      <3> QED
        BY <3>2, RequestOfCall DEF HostInv, FramesHaveCalls
    <2> HIDE DEF frame
    <2>3. fromHost'[l] = fromHost[l]
      BY <2>1
    <2>4. ASSUME NEW id \in handling'[l], id \notin handling[l] PROVE IsBegun(id)
      <3>1. n = l /\ frame[1] = "request" /\ id = frame[2] /\ <<l, id, RequestOf(l, id)>> \in ran'
        BY <2>1, <2>4
      <3>2. RequestOf(l, id) \in HostCalls
        BY <2>2, <3>1
      <3> QED
        BY <3>1, <3>2
    <2> QED
      BY <1>0, <2>3, <2>4
  <1>5. ASSUME NEW n \in HostLinks, NEW id \in Ids, HostReplies(n, id)
        PROVE  handling'[l] \subseteq handling[l] /\ \A i \in DOMAIN fromHost'[l] : IsBegun(fromHost'[l][i])
    <2>1. handling'[l] \subseteq handling[l]
      BY <1>0, <1>5 DEF HostReplies, HostTypes
    <2>2. CASE n = l
      <3>1. fromHost'[l] = Append(fromHost[l], id) /\ id \in handling[l]
        BY <1>0, <1>5, <2>2 DEF HostReplies, HostTypes
      <3>2. \A i \in DOMAIN fromHost'[l] :
              (i \in DOMAIN fromHost[l] /\ fromHost'[l][i] = fromHost[l][i]) \/ fromHost'[l][i] = id
        BY <1>0, <3>1
      <3> QED
        BY <1>0, <2>1, <3>1, <3>2
    <2>3. CASE n # l
      <3>1. fromHost'[l] = fromHost[l]
        BY <1>0, <1>5, <2>3 DEF HostReplies, HostTypes
      <3> QED
        BY <1>0, <2>1, <3>1
    <2> QED
      BY <2>2, <2>3
  <1>6. ASSUME NEW n \in HostLinks, Serve(n) \/ Retire(n) PROVE UNCHANGED <<handling, fromHost>>
    BY <1>6 DEF Serve, Retire
  <1>7. ASSUME NEW k \in HostCalls, NEW why, SubmitRequest(k) \/ GivesUpRequest(k, why) \/ HostTask(k)
        PROVE  UNCHANGED <<handling, fromHost>>
    BY <1>7 DEF SubmitRequest, GivesUpRequest, HostTask, Registers, Sends, HostReturns, NotifiesCancel
  <1>8. CASE UNCHANGED hostVars
    BY <1>1, <1>8 DEF hostVars
  <1> HIDE DEF IsBegun
  <1>9. /\ \A id \in handling'[l] : IsBegun(id)
        /\ \A i \in DOMAIN fromHost'[l] : IsBegun(fromHost'[l][i])
    <2>1. ASSUME NEW n \in HostLinks, Disconnects(n)
          PROVE  /\ \A id \in handling'[l] : IsBegun(id)
                 /\ \A i \in DOMAIN fromHost'[l] : IsBegun(fromHost'[l][i])
      BY <1>0, <1>2, <2>1
    <2>2. ASSUME UNCHANGED <<handling, fromHost>>
          PROVE  /\ \A id \in handling'[l] : IsBegun(id)
                 /\ \A i \in DOMAIN fromHost'[l] : IsBegun(fromHost'[l][i])
      BY <1>0, <2>2
    <2>3. ASSUME NEW n \in HostLinks, Resolves(n) \/ HostReceives(n) \/ \E id \in Ids : HostReplies(n, id)
          PROVE  /\ \A id \in handling'[l] : IsBegun(id)
                 /\ \A i \in DOMAIN fromHost'[l] : IsBegun(fromHost'[l][i])
      BY <1>0, <1>3, <1>4, <1>5, <2>3
    <2> QED
      BY <1>6, <1>7, <2>1, <2>2, <2>3 DEF HostNext, hostVars
  <1> QED
    BY <1>9 DEF IsBegun

LEMMA FramesHaveCallsNext ==
  ASSUME HostInv, HostTypes', [HostNext]_hostVars
  PROVE  FramesHaveCalls'
  <1>1. ASSUME NEW l \in HostLinks
        PROVE  \A k \in awaited'[l] : hcall'[k].on = l /\ hcall'[k].at \in {"registered", "waiting", "cancelling"}
    BY AwaitedNext DEF HostTypes
  <1>2. ASSUME NEW l \in HostLinks, NEW i \in DOMAIN toHost'[l]
        PROVE  toHost'[l][i][2] # 0
               /\ (toHost'[l][i][1] = "request" => \E k \in HostCalls : Has(k, l, toHost[l][i][2])')
    <2>1. /\ toHost'[l][i][2] # 0
          /\ toHost'[l][i][1] = "request" => \E k \in HostCalls : Has(k, l, toHost'[l][i][2])
      BY ToHostNext
    <2>2. ASSUME NEW k \in HostCalls, Has(k, l, toHost'[l][i][2])
          PROVE  Has(k, l, toHost[l][i][2])'
      <3>1. hcall[k].on = l /\ hcall[k].id = toHost'[l][i][2] /\ hcall[k].id # 0
        BY <2>1, <2>2 DEF Has
      <3> QED
        BY <3>1, IdsStay DEF Has
    <2> QED
      BY <2>1, <2>2
  <1>3. ASSUME NEW x, x \in ran' PROVE Has(x[3], x[1], x[2])' /\ x[2] # 0
    <2>1. x[2] # 0 /\ x[3] \in HostCalls /\ Has(x[3], x[1], x[2])
      <3>1. CASE x \in ran
        <4>1. x \in HostLinks \X Nat \X HostCalls
          BY <3>1 DEF HostInv, HostTypes
        <4>2. Has(x[3], x[1], x[2]) /\ x[2] # 0
          BY <3>1 DEF HostInv, FramesHaveCalls
        <4> QED
          BY <4>1, <4>2
      <3> QED
        BY <1>3, <3>1, RanNext
    <2> QED
      BY <2>1, HasStays
  <1>4. ASSUME NEW l \in HostLinks
        PROVE  (/\ \A k \in awaited[l] : hcall[k].on = l /\ hcall[k].at \in {"registered", "waiting", "cancelling"}
                /\ \A i \in DOMAIN toHost[l] :
                     toHost[l][i][2] # 0
                     /\ (toHost[l][i][1] = "request" => \E k \in HostCalls : Has(k, l, toHost[l][i][2]))
                /\ \A id \in handling[l] : \E k \in HostCalls : <<l, id, k>> \in ran
                /\ \A i \in DOMAIN fromHost[l] : \E k \in HostCalls : <<l, fromHost[l][i], k>> \in ran)'
    BY <1>1, <1>2, HandlingNext
  <1> QED
    BY <1>3, <1>4, CurrentNext DEF FramesHaveCalls

-----------------------------------------------------------------------------
(* The answers and the cancels.                                             *)

LEMMA AnswersRanNext ==
  ASSUME HostInv, [HostNext]_hostVars
  PROVE  AnswersRan'
  <1> SUFFICES ASSUME NEW k \in HostCalls, hcall'[k].future = "answered" \/ outcome'[k] = "answered"
               PROVE  <<hcall'[k].answer[1], hcall'[k].answer[2], k>> \in ran'
    BY DEF AnswersRan
  <1>0. /\ HostTypes /\ \A c \in HostCalls : CallFits(c)
        /\ ran \subseteq ran'
        /\ hcall[k].future = "answered" \/ outcome[k] = "answered" =>
             <<hcall[k].answer[1], hcall[k].answer[2], k>> \in ran
    BY RanGrows DEF HostInv, AnswersRan
  <1> DEFINE Same == /\ hcall'[k].answer = hcall[k].answer
                     /\ (hcall[k].future = "answered" \/ outcome[k] = "answered")
             Goal == <<hcall'[k].answer[1], hcall'[k].answer[2], k>> \in ran'
  <1>1. Same => Goal
    BY <1>0
  <1>2. ASSUME NEW l \in HostLinks, Retire(l) \/ Disconnects(l) PROVE Same
    <2>1. hcall' = FailedFutures(l) /\ outcome' = outcome
      BY <1>2 DEF Retire, Disconnects
    <2> QED
      BY <1>0, <2>1, FailedFuturesEffect
  <1>3. ASSUME NEW l \in HostLinks, Resolves(l) PROVE Goal
    <2>0. outcome' = outcome
      BY <1>3 DEF Resolves
    <2>1. CASE hcall'[k].future = hcall[k].future /\ hcall'[k].answer = hcall[k].answer
      BY <1>1, <2>0, <2>1
    <2>2. CASE /\ k \in awaited[l] /\ hcall[k].id = Head(fromHost[l]) /\ hcall[k].future = "open"
               /\ hcall'[k].answer = <<l, hcall[k].id>>
      <3>1. Head(fromHost[l]) = fromHost[l][1] /\ 1 \in DOMAIN fromHost[l]
        BY <1>0, <1>3, ResolvesEffect
      <3>2. PICK j \in HostCalls : <<l, hcall[k].id, j>> \in ran
        BY <2>2, <3>1 DEF HostInv, FramesHaveCalls
      <3>3. Has(j, l, hcall[k].id) /\ hcall[k].id # 0
        BY <3>2 DEF HostInv, FramesHaveCalls
      <3>4. hcall[k].on = l
        BY <2>2 DEF HostInv, FramesHaveCalls
      <3>5. j = k
        BY <3>3, <3>4 DEF HostInv, IdsAreOwn, Has
      <3> QED
        BY <1>0, <2>2, <3>2, <3>5
    <2> QED
      BY <1>0, <1>3, <2>1, <2>2, ResolvesEffect
  <1>4. ASSUME NEW c \in HostCalls, SubmitRequest(c) PROVE Same
    BY <1>0, <1>4, SubmitRequestEffect
  <1>5. ASSUME NEW c \in HostCalls, NEW why \in {"CANCELLED", "TIMEOUT"}, GivesUpRequest(c, why) PROVE Same
    BY <1>0, <1>5, GivesUpRequestEffect
  <1>6. ASSUME NEW c \in HostCalls, Registers(c) PROVE Same
    <2>1. hcall[c].on # 0
      BY <1>0, <1>6 DEF Registers, CallFits
    <2> QED
      BY <1>0, <1>6, <2>1, RegistersEffect
  <1>7. ASSUME NEW c \in HostCalls, SendsRequest(c) PROVE Same
    <2>1. hcall[c].on # 0
      BY <1>0, <1>7 DEF SendsRequest, Sends, CallFits
    <2> QED
      BY <1>0, <1>7, <2>1, SendsRequestEffect
  <1>8. ASSUME NEW c \in HostCalls, NEW why \in HostOutcomes, Ends(c, why) PROVE Same
    <2>1. hcall[c].on # 0 /\ Over(c, why)
      BY <1>0, <1>8 DEF Ends, CallFits
    <2>2. CASE c # k
      BY <1>0, <2>1, <2>2, OverEffect
    <2>3. CASE c = k
      <3>1. hcall'[k].answer = hcall[k].answer /\ hcall'[k].future = "open"
            /\ outcome'[k] = IF outcome[k] = "none" THEN why ELSE outcome[k]
        BY <1>0, <2>1, <2>3, OverEffect
      <3>2. outcome[k] = "none" /\ why = "answered" => hcall[k].future = "answered"
        BY <1>8, <2>3 DEF Ends
      <3> QED
        BY <3>1, <3>2
    <2> QED
      BY <2>2, <2>3
  <1>9. CASE UNCHANGED <<hcall, outcome>>
    BY <1>1, <1>9
  <1>10. ASSUME NEW l \in HostLinks, NEW id \in Ids, HostReplies(l, id) PROVE Goal
    BY <1>9, <1>10 DEF HostReplies
  <1>11. ASSUME NEW l \in HostLinks, Serve(l) \/ HostReceives(l) PROVE Goal
    BY <1>9, <1>11 DEF Serve, HostReceives
  <1>12. CASE UNCHANGED hostVars
    BY <1>9, <1>12 DEF hostVars
  <1>13. ASSUME NEW c \in HostCalls,
                SubmitRequest(c) \/ (\E why \in {"CANCELLED", "TIMEOUT"} : GivesUpRequest(c, why)) \/ HostTask(c)
         PROVE  Goal
    <2>1. ASSUME HostTask(c) PROVE Goal
      BY <1>0, <1>1, <1>6, <1>7, <1>8, <2>1, HostTaskCases
    <2> QED
      BY <1>1, <1>4, <1>5, <1>13, <2>1
  <1>14. ASSUME NEW l \in HostLinks,
                Retire(l) \/ Disconnects(l) \/ Resolves(l) \/ Serve(l) \/ HostReceives(l)
                  \/ \E id \in Ids : HostReplies(l, id)
         PROVE  Goal
    BY <1>1, <1>2, <1>3, <1>10, <1>11, <1>14
  <1>15. CASE \E l \in HostLinks :
                Serve(l) \/ Retire(l) \/ Disconnects(l) \/ Resolves(l) \/ HostReceives(l)
                  \/ \E id \in Ids : HostReplies(l, id)
    BY <1>14, <1>15
  <1>16. CASE \E c \in HostCalls :
                SubmitRequest(c) \/ GivesUpRequest(c, "CANCELLED") \/ GivesUpRequest(c, "TIMEOUT") \/ HostTask(c)
    BY <1>13, <1>16
  <1> QED
    BY <1>12, <1>15, <1>16 DEF HostNext

(* Behind every request of the id in these frames comes its cancel.         *)
Follows(frames, id) ==
  \A i \in DOMAIN frames : frames[i] = <<"request", id>> =>
    \E j \in DOMAIN frames : j > i /\ frames[j] = <<"cancel", id>>

Told(frames, id) == \E j \in DOMAIN frames : frames[j] = <<"cancel", id>>

LEMMA FollowsAppend ==
  ASSUME NEW S, NEW frames \in Seq(S), NEW id, NEW f \in S
  PROVE  /\ f # <<"request", id>> /\ Follows(frames, id) => Follows(Append(frames, f), id)
         /\ Told(frames, id) => Told(Append(frames, f), id)
         /\ f = <<"cancel", id>> => Follows(Append(frames, f), id) /\ Told(Append(frames, f), id)
  <1> DEFINE n == Len(frames)
             longer == Append(frames, f)
  <1>1. /\ n \in Nat /\ DOMAIN frames = 1..n /\ DOMAIN longer = 1..n + 1 /\ longer[n + 1] = f
        /\ \A i \in 1..n : longer[i] = frames[i]
    OBVIOUS
  <1> HIDE DEF n, longer
  <1>2. ASSUME f # <<"request", id>>, Follows(frames, id) PROVE Follows(longer, id)
    <2> SUFFICES ASSUME NEW i \in 1..n + 1, longer[i] = <<"request", id>>
                 PROVE  \E j \in 1..n + 1 : j > i /\ longer[j] = <<"cancel", id>>
      BY <1>1 DEF Follows
    <2>0. i # n + 1
      BY <1>1, <1>2
    <2>1. i \in 1..n
      BY <1>1, <2>0
    <2>2. PICK j \in 1..n : j > i /\ frames[j] = <<"cancel", id>>
      BY <1>1, <1>2, <2>1 DEF Follows
    <2> QED
      BY <1>1, <2>2
  <1>3. Told(frames, id) => Told(longer, id)
    BY <1>1 DEF Told
  <1>4. ASSUME f = <<"cancel", id>> PROVE Follows(longer, id) /\ Told(longer, id)
    <2>1. \A i \in 1..n + 1 : longer[i] = <<"request", id>> => n + 1 > i
      <3>1. <<"cancel", id>> # <<"request", id>>
        OBVIOUS
      <3> QED
        BY <1>1, <1>4, <3>1
    <2> QED
      BY <1>1, <1>4, <2>1 DEF Follows, Told
  <1> QED
    BY <1>2, <1>3, <1>4 DEF longer

LEMMA FollowsTail ==
  ASSUME NEW S, NEW frames \in Seq(S), frames # <<>>, NEW id, Follows(frames, id)
  PROVE  /\ Follows(Tail(frames), id)
         /\ Told(frames, id) /\ Head(frames) # <<"cancel", id>> => Told(Tail(frames), id)
         /\ Head(frames) = <<"request", id>> => Told(Tail(frames), id)
  <1> DEFINE n == Len(frames) - 1
             rest == Tail(frames)
  <1>1. /\ n \in Nat /\ DOMAIN frames = 1..n + 1 /\ DOMAIN rest = 1..n /\ Head(frames) = frames[1]
        /\ \A i \in 1..n : rest[i] = frames[i + 1]
    OBVIOUS
  <1> HIDE DEF n, rest
  <1>2. ASSUME NEW i \in 1..n, rest[i] = <<"request", id>>
        PROVE  \E j \in 1..n : j > i /\ rest[j] = <<"cancel", id>>
    <2>1. i + 1 \in 1..n + 1 /\ frames[i + 1] = <<"request", id>>
      BY <1>1, <1>2
    <2>2. PICK j \in 1..n + 1 : j > i + 1 /\ frames[j] = <<"cancel", id>>
      BY <1>1, <2>1 DEF Follows
    <2>3. j - 1 \in 1..n /\ j - 1 > i /\ rest[j - 1] = frames[j]
      BY <1>1, <2>2
    <2> QED
      BY <2>2, <2>3
  <1>3. ASSUME NEW j \in 1..n + 1, j # 1, frames[j] = <<"cancel", id>> PROVE Told(rest, id)
    <2>1. j - 1 \in 1..n /\ rest[j - 1] = frames[j]
      BY <1>1, <1>3
    <2> QED
      BY <1>1, <1>3, <2>1 DEF Told
  <1>4. ASSUME Told(frames, id), Head(frames) # <<"cancel", id>> PROVE Told(rest, id)
    BY <1>1, <1>3, <1>4 DEF Told
  <1>5. ASSUME Head(frames) = <<"request", id>> PROVE Told(rest, id)
    <2>0. 1 \in DOMAIN frames /\ frames[1] = <<"request", id>>
      BY <1>1, <1>5
    <2>1. PICK j \in 1..n + 1 : j > 1 /\ frames[j] = <<"cancel", id>>
      BY <1>1, <2>0 DEF Follows
    <2> QED
      BY <1>3, <2>1
  <1> QED
    BY <1>1, <1>2, <1>4, <1>5 DEF Follows, rest

-----------------------------------------------------------------------------

LEMMA CarriesBefore ==
  ASSUME HostInv, [HostNext]_hostVars, NEW l \in HostLinks, link[l] # "unborn", Carries(l)'
  PROVE  Carries(l)
  <1>0. link \in [HostLinks -> LinkStates] /\ (current # 0 => link[current] = "open") /\ 0 \notin HostLinks
    BY LinksAreNumbers DEF HostInv, HostTypes, FramesHaveCalls
  <1>1. ASSUME NEW n \in HostLinks, Serve(n) PROVE Carries(l)
    <2>1. n # l /\ link'[l] = IF l = current THEN "replaced" ELSE link[l]
      BY <1>1 DEF Serve
    <2> QED
      BY <1>0, <2>1 DEF Carries
  <1>2. ASSUME NEW n \in HostLinks, Retire(n) \/ Disconnects(n) PROVE Carries(l)
    <2>1. link'[l] = link[l] \/ link'[l] \in {"closing", "closed"}
      BY <1>0, <1>2 DEF Retire, Disconnects
    <2> QED
      BY <2>1 DEF Carries
  <1>3. CASE UNCHANGED link
    BY <1>3 DEF Carries
  <1>4. ASSUME NEW n \in HostLinks, NEW id \in Ids, HostReplies(n, id) PROVE Carries(l)
    BY <1>3, <1>4 DEF HostReplies
  <1>5. ASSUME NEW n \in HostLinks, Resolves(n) \/ HostReceives(n) PROVE Carries(l)
    BY <1>3, <1>5 DEF Resolves, HostReceives
  <1>6. ASSUME NEW k \in HostCalls, NEW why, SubmitRequest(k) \/ GivesUpRequest(k, why) \/ HostTask(k)
        PROVE  Carries(l)
    BY <1>3, <1>6 DEF SubmitRequest, GivesUpRequest, HostTask, Registers, Sends, HostReturns, NotifiesCancel
  <1>7. CASE UNCHANGED hostVars
    BY <1>3, <1>7 DEF hostVars
  <1> QED
    BY <1>1, <1>2, <1>4, <1>5, <1>6, <1>7 DEF HostNext

(* A call that has an id is given up for good when its coroutine ends.      *)
LEMMA GivenUpNow ==
  ASSUME HostInv, [HostNext]_hostVars, NEW k \in HostCalls, GivenUp(k)', ~GivenUp(k)
  PROVE  hcall[k].at = "cancelling" /\ Ends(k, outcome[k])
  <1>0. HostTypes /\ \A c \in HostCalls : CallFits(c)
    BY DEF HostInv
  <1>1. ASSUME NEW l \in HostLinks, Retire(l) \/ Disconnects(l) PROVE FALSE
    <2>1. hcall' = FailedFutures(l) /\ outcome' = outcome
      BY <1>1 DEF Retire, Disconnects
    <2> QED
      BY <1>0, <2>1, FailedFuturesEffect DEF GivenUp, Stays
  <1>2. ASSUME NEW l \in HostLinks, Resolves(l) PROVE FALSE
    <2>1. Stays(hcall', k) /\ outcome' = outcome
      BY <1>0, <1>2, ResolvesEffect DEF Resolves
    <2> QED
      BY <2>1 DEF GivenUp, Stays
  <1>3. ASSUME UNCHANGED <<hcall, outcome>> PROVE FALSE
    BY <1>3 DEF GivenUp
  <1>4. ASSUME NEW l \in HostLinks, NEW id \in Ids, HostReplies(l, id) PROVE FALSE
    BY <1>3, <1>4 DEF HostReplies
  <1>5. ASSUME NEW l \in HostLinks, Serve(l) \/ HostReceives(l) PROVE FALSE
    BY <1>3, <1>5 DEF Serve, HostReceives
  <1>6. ASSUME NEW c \in HostCalls, SubmitRequest(c) PROVE FALSE
    BY <1>0, <1>6, SubmitRequestEffect DEF GivenUp
  <1>7. ASSUME NEW c \in HostCalls, NEW why \in {"CANCELLED", "TIMEOUT"}, GivesUpRequest(c, why) PROVE FALSE
    BY <1>0, <1>7, GivesUpRequestEffect DEF GivenUp, CallFits
  <1>8. ASSUME NEW c \in HostCalls, Registers(c) PROVE FALSE
    <2>1. hcall[c].on # 0
      BY <1>0, <1>8 DEF Registers, CallFits
    <2> QED
      BY <1>0, <1>8, <2>1, RegistersEffect DEF GivenUp
  <1>9. ASSUME NEW c \in HostCalls, SendsRequest(c) PROVE FALSE
    <2>1. hcall[c].on # 0
      BY <1>0, <1>9 DEF SendsRequest, Sends, CallFits
    <2> QED
      BY <1>0, <1>9, <2>1, SendsRequestEffect DEF GivenUp
  <1>10. ASSUME NEW c \in HostCalls, NEW why \in HostOutcomes, Ends(c, why)
         PROVE  hcall[k].at = "cancelling" /\ Ends(k, outcome[k])
    <2>1. hcall[c].on # 0 /\ Over(c, why)
      BY <1>0, <1>10 DEF Ends, CallFits
    <2>2. c = k
      BY <1>0, <2>1, OverEffect DEF GivenUp
    <2>3. outcome'[k] = IF outcome[k] = "none" THEN why ELSE outcome[k]
      BY <1>0, <2>1, <2>2, OverEffect
    <2>4. hcall[k].at = "cancelling" /\ why = outcome[k]
      BY <1>0, <1>10, <2>2, <2>3 DEF Ends, GivenUp, CallFits
    <2> QED
      BY <1>10, <2>2, <2>4
  <1>11. CASE UNCHANGED hostVars
    BY <1>3, <1>11 DEF hostVars
  <1>12. ASSUME NEW c \in HostCalls, HostTask(c)
         PROVE  hcall[k].at = "cancelling" /\ Ends(k, outcome[k])
    BY <1>0, <1>8, <1>9, <1>10, <1>12, HostTaskCases
  <1> QED
    BY <1>1, <1>2, <1>4, <1>5, <1>6, <1>7, <1>11, <1>12 DEF HostNext

LEMMA CancelFollowsNext ==
  ASSUME HostInv, [HostNext]_hostVars
  PROVE  CancelFollows'
  <1>0. HostTypes /\ \A c \in HostCalls : CallFits(c)
    BY DEF HostInv
  <1> SUFFICES ASSUME NEW k \in HostCalls, GivenUp(k)', Carries(hcall[k].on)'
               PROVE  /\ Follows(toHost'[hcall'[k].on], hcall'[k].id)
                      /\ hcall'[k].id \in handling'[hcall'[k].on] => Told(toHost'[hcall'[k].on], hcall'[k].id)
    BY DEF CancelFollows, Follows, Told
  <1>1. CASE GivenUp(k)
    <2> DEFINE l == hcall[k].on
               id == hcall[k].id
               F == {"request", "cancel"} \X Nat
    <2>1. id # 0 /\ l # 0 /\ hcall'[k].on = l /\ hcall'[k].id = id /\ hcall[k].at = "over"
      BY <1>0, <1>1, IdsStay DEF GivenUp, CallFits
    <2>2. l \in HostLinks /\ link[l] # "unborn" /\ id \in Nat
      BY <1>0, <2>1, LinksAreNumbers DEF HostTypes, RequestType, CallFits
    <2>3. Carries(l)' /\ Carries(l)
      BY <2>1, <2>2, CarriesBefore DEF Carries
    <2>4. /\ Follows(toHost[l], id) /\ (id \in handling[l] => Told(toHost[l], id))
          /\ toHost[l] \in Seq(F)
      BY <1>0, <1>1, <2>2, <2>3 DEF HostInv, CancelFollows, Follows, Told, HostTypes
    <2>5. ASSUME \A c \in HostCalls : hcall[c].on = l /\ hcall[c].id = id => c = k
          PROVE  Follows(toHost'[l], id) /\ (id \in handling'[l] => Told(toHost'[l], id))
      <3>1. CASE toHost[l] # <<>> /\ toHost'[l] = Tail(toHost[l]) /\ HostReceives(l)
        <4>1. Follows(toHost'[l], id)
          BY <2>4, <3>1, FollowsTail
        <4>2. ASSUME id \in handling'[l] PROVE Told(toHost'[l], id)
          <5>1. Head(toHost[l]) \in F
            BY <2>4, <3>1
          <5>2. \/ Head(toHost[l]) = <<"request", id>>
                \/ id \in handling[l] /\ Head(toHost[l]) # <<"cancel", id>>
            BY <1>0, <2>2, <3>1, <4>2, <5>1 DEF HostReceives, HostTypes
          <5> QED
            BY <2>4, <3>1, <5>2, FollowsTail
        <4> QED
          BY <4>1, <4>2
      <3>2. ASSUME NEW c \in HostCalls, hcall[c].on = l, hcall[c].id # 0, handling'[l] = handling[l],
                   NEW f \in F, toHost'[l] = Append(toHost[l], f), f # <<"request", id>>
            PROVE  Follows(toHost'[l], id) /\ (id \in handling'[l] => Told(toHost'[l], id))
        BY <2>4, <3>2, FollowsAppend
      <3>3. ASSUME NEW c \in HostCalls, hcall[c].on = l, hcall[c].id # 0, handling'[l] = handling[l],
                   \/ hcall[c].at = "registered" /\ toHost'[l] = Append(toHost[l], <<"request", hcall[c].id>>)
                   \/ toHost'[l] = Append(toHost[l], <<"cancel", hcall[c].id>>)
            PROVE  Follows(toHost'[l], id) /\ (id \in handling'[l] => Told(toHost'[l], id))
        <4>1. hcall[c].id \in Nat
          BY <1>0 DEF HostTypes, RequestType
        <4>2. CASE hcall[c].at = "registered" /\ toHost'[l] = Append(toHost[l], <<"request", hcall[c].id>>)
          <5>1. hcall[c].id # id
            BY <2>1, <2>5, <3>3, <4>2
          <5>2. <<"request", hcall[c].id>> \in F /\ <<"request", hcall[c].id>> # <<"request", id>>
            BY <4>1, <5>1
          <5> QED
            BY <3>2, <3>3, <4>2, <5>2
        <4>3. CASE toHost'[l] = Append(toHost[l], <<"cancel", hcall[c].id>>)
          <5>1. <<"cancel", hcall[c].id>> \in F /\ <<"cancel", hcall[c].id>> # <<"request", id>>
            BY <4>1
          <5> QED
            BY <3>2, <3>3, <4>3, <5>1
        <4> QED
          BY <3>3, <4>2, <4>3
      <3>4. CASE toHost'[l] = toHost[l] /\ handling'[l] \subseteq handling[l]
        BY <2>4, <3>4
      <3>5. CASE toHost'[l] = <<>> /\ ~Carries(l)'
        BY <2>3, <3>5
      <3>6. ToHostStep(l)
        BY <2>2, ToHostSteps
      <3> HIDE DEF l, id
      <3> QED
        BY <3>1, <3>3, <3>4, <3>5, <3>6 DEF ToHostStep
    <2>6. \A c \in HostCalls : hcall[c].on = l /\ hcall[c].id = id => c = k
      BY <2>1 DEF HostInv, IdsAreOwn
    <2> QED
      BY <2>1, <2>5, <2>6
  <1>2. CASE ~GivenUp(k)
    <2>1. hcall[k].at = "cancelling" /\ Ends(k, outcome[k])
      BY <1>2, GivenUpNow
    <2>2. /\ hcall[k].id # 0 /\ hcall[k].on # 0 /\ hcall'[k].on = hcall[k].on /\ hcall'[k].id = hcall[k].id
          /\ link' = link
      BY <1>0, <2>1, IdsStay DEF CallFits, Ends
    <2>3. hcall[k].on \in HostLinks /\ hcall[k].id \in Nat /\ Carries(hcall[k].on)
      BY <1>0, <2>2, LinksAreNumbers DEF HostTypes, RequestType, Carries
    <2>4. toHost' = CancelTold(k)
      BY <2>1, <2>3 DEF Ends
    <2>5. toHost'[hcall[k].on] = Append(toHost[hcall[k].on], <<"cancel", hcall[k].id>>)
      BY <1>0, <2>3, <2>4 DEF CancelTold, HostTypes
    <2>6. toHost[hcall[k].on] \in Seq({"request", "cancel"} \X Nat) /\ <<"cancel", hcall[k].id>> \in {"request", "cancel"} \X Nat
      BY <1>0, <2>3 DEF HostTypes
    <2> QED
      BY <2>2, <2>5, <2>6, FollowsAppend
  <1> QED
    BY <1>1, <1>2

-----------------------------------------------------------------------------
(* The theorem.                                                             *)

LEMMA HostInvInit ==
  HostInit => HostInv
  <1> SUFFICES ASSUME HostInit PROVE HostInv
    OBVIOUS
  <1> USE LinksAreNumbers
  <1>1. IdleRequest \in RequestType
    BY DEF IdleRequest, RequestType, RequestPlaces
  <1>2. <<>> \in Seq({"request", "cancel"} \X Nat) /\ <<>> \in Seq(Nat)
    OBVIOUS
  <1>3. HostTypes
    BY <1>1, <1>2 DEF HostInit, HostTypes, LinkStates, HostOutcomes
  <1>4. \A k \in HostCalls : CallFits(k)
    BY DEF HostInit, CallFits, IdleRequest
  <1>5. IdsAreOwn
    BY DEF HostInit, IdsAreOwn, IdleRequest
  <1>6. FramesHaveCalls
    BY DEF HostInit, FramesHaveCalls
  <1>7. AnswersRan /\ CancelFollows
    BY DEF HostInit, AnswersRan, CancelFollows, GivenUp, IdleRequest
  <1> QED
    BY <1>3, <1>4, <1>5, <1>6, <1>7 DEF HostInv

LEMMA HostInvNext ==
  ASSUME HostInv, [HostNext]_hostVars
  PROVE  HostInv'
  BY HostTypesNext, CallFitsNext, IdsAreOwnNext, FramesHaveCallsNext, AnswersRanNext, CancelFollowsNext
     DEF HostInv


(* The answer a tool gets is that of its own request, and what was given up *)
(* is cancelled on the host, for any calls and any number of connections,   *)
(* however they break, are replaced and answer late                         *)
(* (host_link.py: _HostConnection, HostLink).                               *)
THEOREM HostIsSoundAlways ==
  HostSpec => []HostIsSound
  <1>1. HostInv => HostIsSound
    <2> SUFFICES ASSUME HostInv PROVE HostIsSound
      OBVIOUS
    <2>1. AnswerIsOwn
      BY DEF HostInv, AnswersRan, AnswerIsOwn
    <2>2. StopReachesHost
      <3> SUFFICES ASSUME NEW k \in HostCalls, outcome[k] \in {"CANCELLED", "TIMEOUT"}, hcall[k].at = "over",
                          hcall[k].id \in Ids, Carries(hcall[k].on), hcall[k].id \in handling[hcall[k].on]
                   PROVE  \E i \in DOMAIN toHost[hcall[k].on] : toHost[hcall[k].on][i] = <<"cancel", hcall[k].id>>
        BY DEF StopReachesHost
      <3>1. hcall[k].id # 0
        BY DEF Ids
      <3> QED
        BY <3>1 DEF HostInv, CancelFollows, GivenUp
    <2> QED
      BY <2>1, <2>2 DEF HostIsSound
  <1> QED
    BY <1>1, HostInvInit, HostInvNext, PTL DEF HostSpec

-----------------------------------------------------------------------------
(***************************************************************************)
(* The pool of connections to one MCP server, for any number of calls,     *)
(* connections and changes: none is lost, and which notice of the server   *)
(* leaves an old catalog behind is said (McpWatch).                        *)
(***************************************************************************)

(* The notice is handled while a list that is older waits to be stored.     *)
Overtaken(k) ==
  Notified(k) /\ \E c \in InFlight(k) : mcp[c].at = "listed" /\ mcp[c].seen # catalog

NoticeStep == stale' = stale \cup {k \in 1..opened : Overtaken(k)}

McpWatch == stale = {} /\ [][NoticeStep]_<<mcpVars, stale>>

(* The inductive invariant.                                                 *)
Holds == {"discard", "connect", "undo"}

(* Where a coroutine is, and what it has.                                   *)
CoroutineFits(c) ==
  /\ mcp[c].at \in Holds <=> holder = c
  /\ mcp[c].at \in Holds => pooled = 0
  /\ mcp[c].at \in Holds \cup Using => mcp[c].on \in 1..opened
  /\ mcp[c].at \in Using => connection[mcp[c].on].own \in {"open", "ended"}
  /\ mcp[c].at = "listed" /\ Alive(mcp[c].on) /\ ~connection[mcp[c].on].notified =>
       mcp[c].on \in stale \/ mcp[c].seen = catalog

(* What a connection has, by how far it has come.                           *)
ConnectionFits(k) ==
  /\ connection[k].ready = "yes" => connection[k].own \in {"open", "ended"}
  /\ connection[k].own = "opening" => connection[k].tools = Unknown
  /\ Alive(k) /\ ~connection[k].notified => k \in stale \/ connection[k].tools \in {catalog, Unknown}

McpInv ==
  /\ McpTypeOK /\ pooled <= opened
  /\ \A c \in McpCalls : CoroutineFits(c)
  /\ \A k \in Connections : ConnectionFits(k)
  /\ NoConnectionIsLost

-----------------------------------------------------------------------------
ConnectionType ==
  [fp : Fingerprints, own : {"none", "opening", "open", "ended"},
   ready : {"no", "yes", "failed"}, closing : BOOLEAN,
   tools : Catalogs \cup {Unknown}, notified : BOOLEAN]
CallType ==
  [at : Waiting \cup {"new", "using", "ended"}, fp : Fingerprints,
   on : 0..MaxConnections, seen : Catalogs \cup {Unknown}, refreshed : BOOLEAN,
   wants : {"list", "call"}]

(* A connection that is asked to close is not missed by anybody.            *)
Kept(k) ==
  connection[k].own \in {"opening", "open"} /\ ~connection[k].closing =>
    pooled = k \/ (holder # NoMcpCall /\ mcp[holder].on = k /\ mcp[holder].at = "connect")

LEMMA McpFields ==
  ASSUME McpInv
  PROVE  /\ connection \in [Connections -> ConnectionType] /\ mcp \in [McpCalls -> CallType]
         /\ pooled \in Nat /\ opened \in Nat /\ opened <= MaxConnections /\ MaxConnections \in Nat
         /\ \A k \in 1..opened : k \in Connections
         /\ NoMcpCall \notin McpCalls
  BY McpAssumption DEF McpInv, McpTypeOK, ConnectionType, CallType, Connections

(* A step of a connection.                                                  *)
ConnectionPut(k, r) ==
  /\ r \in ConnectionType
  /\ connection' \in [Connections -> ConnectionType] /\ connection'[k] = r
  /\ \A j \in Connections \ {k} : connection'[j] = connection[j]

LEMMA DiscardEffect ==
  ASSUME McpInv, NEW k \in Connections, connection' = [connection EXCEPT ![k].closing = TRUE]
  PROVE  /\ ConnectionPut(k, connection'[k])
         /\ connection'[k].own = connection[k].own /\ connection'[k].ready = connection[k].ready
         /\ connection'[k].tools = connection[k].tools /\ connection'[k].notified = connection[k].notified
         /\ connection'[k].closing = TRUE
  <1>1. connection[k] \in ConnectionType /\ connection \in [Connections -> ConnectionType]
    BY McpFields
  <1> DEFINE r == [connection[k] EXCEPT !.closing = TRUE]
  <1>2. /\ r \in ConnectionType /\ r.own = connection[k].own /\ r.ready = connection[k].ready
        /\ r.tools = connection[k].tools /\ r.notified = connection[k].notified /\ r.closing = TRUE
    BY <1>1 DEF ConnectionType
  <1>3. connection' = [connection EXCEPT ![k] = r]
    OBVIOUS
  <1> HIDE DEF r
  <1> QED
    BY <1>1, <1>2, <1>3 DEF ConnectionPut

(* A step of a call.                                                        *)
CallPut(c) ==
  mcp' \in [McpCalls -> CallType] /\ \A d \in McpCalls \ {c} : mcp'[d] = mcp[d]

LEMMA FinishEffect ==
  ASSUME McpInv, NEW c \in McpCalls, Finish(c)
  PROVE  CallPut(c) /\ mcp'[c].at = "ended"
  <1> DEFINE r == [Idle EXCEPT !.at = "ended"]
  <1>1. 0 \in 0..MaxConnections /\ mcp \in [McpCalls -> CallType]
    BY McpFields
  <1>2. Idle \in CallType
    BY <1>1 DEF Idle, CallType, Fingerprints
  <1>3. r \in CallType /\ r.at = "ended"
    BY <1>2 DEF CallType
  <1>4. mcp' = [mcp EXCEPT ![c] = r]
    BY DEF Finish
  <1> HIDE DEF r
  <1> QED
    BY <1>1, <1>3, <1>4 DEF CallPut

LEMMA SubmitEffect ==
  ASSUME McpInv, NEW c \in McpCalls, Submit(c)
  PROVE  /\ CallPut(c) /\ mcp[c].at = "new" /\ mcp'[c].at \in {"lock", "ended"}
         /\ UNCHANGED <<config, catalog, edits, connection, opened, pooled, holder, dropped, closed>>
  <1>1. mcp[c] \in CallType /\ mcp \in [McpCalls -> CallType]
    BY McpFields
  <1>2. PICK wants \in {"list", "call"} :
          IF config = "off" \/ closed # "no" THEN Finish(c)
          ELSE mcp' = [mcp EXCEPT ![c].at = "lock", ![c].fp = config, ![c].wants = wants]
    BY DEF Submit
  <1>3. CASE Finish(c)
    BY <1>3, FinishEffect DEF Submit, serverVars
  <1>4. CASE config # "off" /\ mcp' = [mcp EXCEPT ![c].at = "lock", ![c].fp = config, ![c].wants = wants]
    <2> DEFINE r == [mcp[c] EXCEPT !.at = "lock", !.fp = config, !.wants = wants]
    <2>0. config \in Fingerprints
      BY <1>4 DEF McpInv, McpTypeOK
    <2>1. r \in CallType /\ r.at = "lock"
      BY <1>1, <2>0 DEF CallType, Waiting
    <2>2. mcp' = [mcp EXCEPT ![c] = r]
      BY <1>1, <1>4
    <2> HIDE DEF r
    <2> QED
      BY <1>1, <2>1, <2>2 DEF CallPut, Submit, serverVars
  <1> QED
    BY <1>2, <1>3, <1>4

(* A step of a call that goes somewhere else, and perhaps to another        *)
(* connection.                                                              *)
LEMMA GoesEffect ==
  ASSUME McpInv, NEW c \in McpCalls, NEW where \in Waiting \cup {"using"}, NEW k \in 0..MaxConnections,
         mcp' = [mcp EXCEPT ![c].at = where, ![c].on = k]
  PROVE  CallPut(c) /\ mcp'[c].at = where /\ mcp'[c].on = k /\ mcp'[c].seen = mcp[c].seen
  <1>1. mcp[c] \in CallType /\ mcp \in [McpCalls -> CallType]
    BY McpFields
  <1> DEFINE r == [mcp[c] EXCEPT !.at = where, !.on = k]
  <1>2. r \in CallType /\ r.at = where /\ r.on = k /\ r.seen = mcp[c].seen
    BY <1>1 DEF CallType
  <1>3. mcp' = [mcp EXCEPT ![c] = r]
    BY <1>1
  <1> HIDE DEF r
  <1> QED
    BY <1>1, <1>2, <1>3 DEF CallPut

LEMMA StaysEffect ==
  ASSUME McpInv, NEW c \in McpCalls, NEW where \in Waiting \cup {"using"},
         mcp' = [mcp EXCEPT ![c].at = where]
  PROVE  CallPut(c) /\ mcp'[c].at = where /\ mcp'[c].on = mcp[c].on /\ mcp'[c].seen = mcp[c].seen
  <1>1. mcp[c] \in CallType /\ mcp \in [McpCalls -> CallType]
    BY McpFields
  <1> DEFINE r == [mcp[c] EXCEPT !.at = where]
  <1>2. r \in CallType /\ r.at = where /\ r.on = mcp[c].on /\ r.seen = mcp[c].seen
    BY <1>1 DEF CallType
  <1>3. mcp' = [mcp EXCEPT ![c] = r]
    BY <1>1
  <1> HIDE DEF r
  <1> QED
    BY <1>1, <1>2, <1>3 DEF CallPut

(* The answer of the server, and a second look.                             *)
LEMMA ListingEffect ==
  ASSUME McpInv, NEW c \in McpCalls,
         \/ mcp' = [mcp EXCEPT ![c].at = "listed", ![c].seen = catalog]
         \/ mcp' = [mcp EXCEPT ![c].at = "listing", ![c].refreshed = TRUE]
  PROVE  /\ CallPut(c) /\ mcp'[c].at \in {"listed", "listing"} /\ mcp'[c].on = mcp[c].on
         /\ mcp'[c].at = "listed" => mcp'[c].seen = catalog
  <1>1. mcp[c] \in CallType /\ mcp \in [McpCalls -> CallType] /\ catalog \in Catalogs
    BY McpFields DEF McpInv, McpTypeOK
  <1>2. CASE mcp' = [mcp EXCEPT ![c].at = "listed", ![c].seen = catalog]
    <2> DEFINE r == [mcp[c] EXCEPT !.at = "listed", !.seen = catalog]
    <2>1. r \in CallType /\ r.at = "listed" /\ r.on = mcp[c].on /\ r.seen = catalog
      BY <1>1 DEF CallType, Waiting
    <2>2. mcp' = [mcp EXCEPT ![c] = r]
      BY <1>1, <1>2
    <2> HIDE DEF r
    <2> QED
      BY <1>1, <2>1, <2>2 DEF CallPut
  <1>3. CASE mcp' = [mcp EXCEPT ![c].at = "listing", ![c].refreshed = TRUE]
    <2> DEFINE r == [mcp[c] EXCEPT !.at = "listing", !.refreshed = TRUE]
    <2>1. r \in CallType /\ r.at = "listing" /\ r.on = mcp[c].on
      BY <1>1 DEF CallType, Waiting
    <2>2. mcp' = [mcp EXCEPT ![c] = r]
      BY <1>1, <1>3
    <2> HIDE DEF r
    <2> QED
      BY <1>1, <2>1, <2>2 DEF CallPut
  <1> QED
    BY <1>2, <1>3

-----------------------------------------------------------------------------
(* The connections and the server.                                          *)

LEMMA OwnerKeeps ==
  ASSUME McpInv, Owner, stale \subseteq stale', \A k \in 1..opened : Overtaken(k) => k \in stale'
  PROVE  McpInv'
  <1>0. /\ connection \in [Connections -> ConnectionType] /\ mcp \in [McpCalls -> CallType]
        /\ \A k \in 1..opened : k \in Connections
    BY McpFields
  <1>1. PICK k \in 1..opened : Ready(k) \/ CallEnds(k) \/ Notified(k)
    BY DEF Owner
  <1>2. k \in Connections /\ connection[k] \in ConnectionType
    BY <1>0
  <1>3. UNCHANGED <<config, catalog, edits, opened, pooled, holder, mcp, dropped, closed>>
    BY DEF Owner, serverVars
  <1>4. /\ ConnectionPut(k, connection'[k]) /\ connection'[k].closing = connection[k].closing
        /\ \/ /\ connection[k].own = "opening" /\ connection'[k].own = "open"
              /\ connection'[k].tools = connection[k].tools
           \/ connection[k].own \in {"opening", "open"} /\ connection'[k].own = "ended"
           \/ /\ connection'[k].own = connection[k].own /\ connection'[k].ready = connection[k].ready
              /\ connection'[k].own = "open" /\ connection'[k].tools = Unknown
              /\ k \in stale' \/ \A c \in InFlight(k) : mcp[c].at = "listed" => mcp[c].seen = catalog
    <2>1. CASE Ready(k)
      <3> DEFINE r == [connection[k] EXCEPT !.own = "open", !.ready = "yes"]
      <3>1. /\ r \in ConnectionType /\ r.own = "open" /\ r.tools = connection[k].tools
            /\ r.closing = connection[k].closing
        BY <1>2 DEF ConnectionType
      <3>2. connection' = [connection EXCEPT ![k] = r]
        BY <1>0, <1>2, <2>1 DEF Ready
      <3> HIDE DEF r
      <3> QED
        BY <1>0, <1>2, <2>1, <3>1, <3>2 DEF Ready, ConnectionPut
    <2>2. CASE CallEnds(k)
      <3> DEFINE r == [connection[k] EXCEPT !.own = "ended", !.tools = Unknown, !.notified = FALSE,
                                            !.ready = IF connection[k].ready = "no" THEN "failed" ELSE connection[k].ready]
      <3>1. r \in ConnectionType /\ r.own = "ended" /\ r.closing = connection[k].closing
        BY <1>2 DEF ConnectionType
      <3>2. connection' = [connection EXCEPT ![k] = r] /\ connection[k].own \in {"opening", "open"}
        BY <2>2 DEF CallEnds
      <3> HIDE DEF r
      <3> QED
        BY <1>0, <1>2, <3>1, <3>2 DEF ConnectionPut
    <2>3. CASE Notified(k)
      <3> DEFINE r == [connection[k] EXCEPT !.notified = FALSE, !.tools = Unknown]
      <3>1. /\ r \in ConnectionType /\ r.own = connection[k].own /\ r.ready = connection[k].ready
            /\ r.tools = Unknown /\ r.closing = connection[k].closing
        BY <1>2 DEF ConnectionType
      <3>2. connection' = [connection EXCEPT ![k] = r] /\ connection[k].own = "open"
        BY <1>0, <1>2, <2>3 DEF Notified, Alive
      <3>3. k \in stale' \/ \A c \in InFlight(k) : mcp[c].at = "listed" => mcp[c].seen = catalog
        BY <2>3 DEF Overtaken
      <3> HIDE DEF r
      <3> QED
        BY <1>0, <1>2, <3>1, <3>2, <3>3 DEF ConnectionPut
    <2> QED
      BY <1>1, <2>1, <2>2, <2>3
  <1>5. McpTypeOK' /\ (pooled <= opened)'
    BY <1>3, <1>4 DEF McpInv, McpTypeOK, ConnectionPut, ConnectionType
  <1>6. ASSUME NEW j \in Connections PROVE ConnectionFits(j)'
    <2>1. ConnectionFits(j)
      BY DEF McpInv
    <2>2. CASE j = k
      BY <1>3, <1>4, <2>1, <2>2 DEF ConnectionFits, Alive
    <2>3. CASE j # k
      BY <1>3, <1>4, <2>1, <2>3 DEF ConnectionFits, Alive, ConnectionPut
    <2> QED
      BY <2>2, <2>3
  <1>7. ASSUME NEW c \in McpCalls PROVE CoroutineFits(c)'
    <2>1. CoroutineFits(c)
      BY DEF McpInv
    <2>2. mcp[c].at = "listed" => mcp[c].at \in Using
      BY DEF Using
    <2>3. CASE mcp[c].on = k
      BY <1>3, <1>4, <2>1, <2>2, <2>3 DEF CoroutineFits, Alive, InFlight
    <2>4. CASE mcp[c].on # k
      BY <1>0, <1>3, <1>4, <2>1, <2>2, <2>4 DEF CoroutineFits, Alive, ConnectionPut
    <2> QED
      BY <2>3, <2>4
  <1>8. NoConnectionIsLost'
    BY <1>0, <1>3, <1>4 DEF McpInv, NoConnectionIsLost, ConnectionPut
  <1> QED
    BY <1>5, <1>6, <1>7, <1>8 DEF McpInv

-----------------------------------------------------------------------------
(* The calls, and who asks a connection to close.                           *)

(* A step that neither opens a connection nor moves one of them.            *)
LEMMA StepKeeps ==
  ASSUME McpInv, stale \subseteq stale', UNCHANGED <<config, catalog, edits, opened>>,
         dropped' \in [McpCalls -> {"no", "pending", "delivered"}],
         closed' \in {"no", "closing", "waiting", "stopped"},
         holder' \in McpCalls \cup {NoMcpCall}, pooled' \in 0..opened,
         mcp' \in [McpCalls -> CallType],
         \A d \in McpCalls :
           \/ CoroutineFits(d)'
           \/ mcp'[d] = mcp[d] /\ (holder' = d <=> holder = d) /\ (holder = d => pooled' = 0),
         connection' \in [Connections -> ConnectionType],
         \A k \in Connections : /\ connection'[k].own = connection[k].own
                                /\ connection'[k].ready = connection[k].ready
                                /\ connection'[k].notified = connection[k].notified
                                /\ connection'[k].tools = connection[k].tools \/ ConnectionFits(k)',
         \A k \in 1..opened :
           connection[k].own \in {"opening", "open"} /\ ~connection'[k].closing =>
             pooled' = k \/ (holder' # NoMcpCall /\ mcp'[holder'].on = k /\ mcp'[holder'].at = "connect")
  PROVE  McpInv'
  <1>1. McpTypeOK' /\ (pooled <= opened)'
    BY McpFields DEF McpInv, McpTypeOK, ConnectionType, CallType
  <1>2. ASSUME NEW d \in McpCalls PROVE CoroutineFits(d)'
    <2>1. CoroutineFits(d)
      BY DEF McpInv
    <2>2. CASE mcp'[d] = mcp[d] /\ (holder' = d <=> holder = d) /\ (holder = d => pooled' = 0)
      <3>1. mcp[d].at \in Using => mcp[d].on \in Connections
        BY <2>1, McpFields DEF CoroutineFits
      <3>2. mcp[d].at = "listed" => mcp[d].at \in Using
        BY DEF Using
      <3> QED
        BY <2>1, <2>2, <3>1, <3>2 DEF CoroutineFits, Alive
    <2> QED
      BY <2>2
  <1>3. ASSUME NEW k \in Connections PROVE ConnectionFits(k)'
    BY DEF McpInv, ConnectionFits, Alive
  <1>4. NoConnectionIsLost'
    BY McpFields DEF NoConnectionIsLost
  <1> QED
    BY <1>1, <1>2, <1>3, <1>4 DEF McpInv

(* What stays when no connection is touched.                                *)
LEMMA Untouched ==
  ASSUME McpInv, UNCHANGED connection
  PROVE  /\ connection' \in [Connections -> ConnectionType]
         /\ \A k \in Connections : /\ connection'[k].own = connection[k].own
                                   /\ connection'[k].ready = connection[k].ready
                                   /\ connection'[k].notified = connection[k].notified
                                   /\ connection'[k].tools = connection[k].tools
         /\ \A k \in 1..opened : connection[k].own \in {"opening", "open"} /\ ~connection'[k].closing => Kept(k)
         /\ \A k \in 1..opened : connection[k].own \in {"opening", "open"} /\ ~connection'[k].closing =>
              pooled = k \/ (holder # NoMcpCall /\ mcp[holder].on = k /\ mcp[holder].at = "connect")
  BY McpFields DEF McpInv, NoConnectionIsLost, Kept

LEMMA SubmitKeeps ==
  ASSUME McpInv, stale \subseteq stale', NEW c \in McpCalls, Submit(c)
  PROVE  McpInv'
  <1>1. /\ CallPut(c) /\ mcp[c].at = "new" /\ mcp'[c].at \in {"lock", "ended"}
        /\ UNCHANGED <<config, catalog, edits, connection, opened, pooled, holder, dropped, closed>>
    BY SubmitEffect
  <1>2. CoroutineFits(c)' /\ holder # c
    BY <1>1 DEF McpInv, CoroutineFits, Holds, Using
  <1>3. \A d \in McpCalls : d # c => mcp'[d] = mcp[d] /\ (holder = d => pooled = 0)
    BY <1>1 DEF CallPut, McpInv, CoroutineFits
  <1>4. holder # NoMcpCall => mcp'[holder] = mcp[holder]
    BY <1>1, <1>2 DEF CallPut, McpInv, McpTypeOK
  <1> QED
    BY <1>1, <1>2, <1>3, <1>4, Untouched, McpFields, StepKeeps DEF CallPut, McpInv, McpTypeOK

LEMMA HolderIsOne ==
  ASSUME McpInv, NEW c \in McpCalls
  PROVE  /\ mcp[c] \in CallType /\ CoroutineFits(c) /\ c # NoMcpCall
         /\ pooled \in 0..opened /\ \A k \in 1..opened : k \in Connections /\ k \in 0..MaxConnections
         /\ holder \in McpCalls \cup {NoMcpCall}
         /\ dropped \in [McpCalls -> {"no", "pending", "delivered"}]
         /\ closed \in {"no", "closing", "waiting", "stopped"}
         /\ \A d \in McpCalls : holder = d => pooled = 0
  BY McpFields DEF McpInv, McpTypeOK, CoroutineFits

(* A call goes on, and neither a connection nor the lock is touched.        *)
LEMMA MovesOnKeeps ==
  ASSUME McpInv, stale \subseteq stale', NEW c \in McpCalls, CallPut(c), CoroutineFits(c)', holder # c,
         UNCHANGED <<config, catalog, edits, connection, opened, pooled, holder, closed>>,
         dropped' \in [McpCalls -> {"no", "pending", "delivered"}]
  PROVE  McpInv'
  <1>1. \A d \in McpCalls : d # c => mcp'[d] = mcp[d] /\ (holder = d => pooled = 0)
    BY HolderIsOne DEF CallPut
  <1>2. holder # NoMcpCall => mcp'[holder] = mcp[holder]
    BY HolderIsOne DEF CallPut
  <1> QED
    BY <1>1, <1>2, Untouched, HolderIsOne, McpFields, StepKeeps DEF CallPut

LEMMA ReuseKeeps ==
  ASSUME McpInv, stale \subseteq stale', NEW c \in McpCalls, Reuse(c), UNCHANGED <<serverVars, dropped, closed>>
  PROVE  McpInv'
  <1>1. mcp[c].at = "lock" /\ holder = NoMcpCall /\ pooled \in 1..opened /\ connection[pooled].own = "open"
    BY HolderIsOne DEF Reuse, LockIsFree, Reusable, Alive
  <1>2. CallPut(c) /\ mcp'[c].at = "using" /\ mcp'[c].on = pooled
    BY <1>1, GoesEffect, HolderIsOne DEF Reuse
  <1>3. CoroutineFits(c)'
    BY <1>1, <1>2, HolderIsOne DEF CoroutineFits, Holds, Using, Reuse
  <1> QED
    BY <1>1, <1>2, <1>3, HolderIsOne, MovesOnKeeps DEF Reuse, serverVars

LEMMA AskKeeps ==
  ASSUME McpInv, stale \subseteq stale', NEW c \in McpCalls, Ask(c) \/ Listed(c) \/ Called(c) \/ Failed(c),
         UNCHANGED <<serverVars, dropped, closed>>
  PROVE  McpInv'
  <1>1. /\ mcp[c].at \in Using /\ CoroutineFits(c) /\ holder # c
        /\ UNCHANGED <<config, catalog, edits, connection, opened, pooled, holder, closed, dropped>>
    BY HolderIsOne DEF Ask, Listed, Called, Failed, Using, CoroutineFits, Holds, serverVars
  <1>2. CASE Ask(c)
    <2>1. CallPut(c) /\ mcp'[c].at = "listing" /\ mcp'[c].on = mcp[c].on
      <3>1. mcp' = [mcp EXCEPT ![c].at = "listing"] /\ "listing" \in Waiting
        BY <1>2 DEF Ask, Waiting
      <3> QED
        BY <3>1, StaysEffect
    <2> QED
      BY <1>1, <2>1, HolderIsOne, MovesOnKeeps DEF CoroutineFits, Using, Holds
  <1>3. CASE Listed(c)
    <2>1. mcp' = [mcp EXCEPT ![c].at = "listed", ![c].seen = catalog]
      BY <1>3 DEF Listed
    <2>2. CallPut(c) /\ mcp'[c].at = "listed" /\ mcp'[c].on = mcp[c].on /\ mcp'[c].seen = catalog
      <3>1. mcp'[c].at = "listed"
        BY <2>1, McpFields, HolderIsOne DEF CallType
      <3> QED
        BY <2>1, <3>1, ListingEffect
    <2> QED
      BY <1>1, <2>2, HolderIsOne, MovesOnKeeps DEF CoroutineFits, Using, Holds
  <1>4. CASE Called(c) \/ Failed(c)
    <2>1. CallPut(c) /\ mcp'[c].at = "ended"
      BY <1>4, FinishEffect DEF Called, Failed
    <2> QED
      BY <1>1, <2>1, HolderIsOne, MovesOnKeeps DEF CoroutineFits, Using, Holds
  <1> QED
    BY <1>2, <1>3, <1>4

(* The pooled connection leaves the pool, and is asked to close.            *)
LEMMA DiscardFacts ==
  ASSUME McpInv, NEW k \in 1..opened, Discard(k)
  PROVE  /\ connection' \in [Connections -> ConnectionType]
         /\ \A j \in Connections : /\ connection'[j].own = connection[j].own
                                   /\ connection'[j].ready = connection[j].ready
                                   /\ connection'[j].notified = connection[j].notified
                                   /\ connection'[j].tools = connection[j].tools
         /\ pooled' \in 0..opened /\ (pooled = 0 => pooled' = 0) /\ (pooled = k => pooled' = 0)
         /\ \A j \in 1..opened : connection[j].own \in {"opening", "open"} /\ ~connection'[j].closing =>
              pooled' = j \/ (holder # NoMcpCall /\ mcp[holder].on = j /\ mcp[holder].at = "connect")
  <1>1. k \in Connections /\ pooled \in 0..opened /\ pooled' = (IF pooled = k THEN 0 ELSE pooled)
        /\ connection' = [connection EXCEPT ![k].closing = TRUE]
    BY McpFields DEF Discard, McpInv, McpTypeOK
  <1>2. /\ ConnectionPut(k, connection'[k])
        /\ connection'[k].own = connection[k].own /\ connection'[k].ready = connection[k].ready
        /\ connection'[k].tools = connection[k].tools /\ connection'[k].notified = connection[k].notified
        /\ connection'[k].closing = TRUE
    BY <1>1, DiscardEffect
  <1>3. \A j \in 1..opened : Kept(j) /\ j \in Connections
    BY McpFields DEF McpInv, NoConnectionIsLost, Kept
  <1>4. pooled' \in 0..opened /\ (pooled = 0 => pooled' = 0) /\ (pooled = k => pooled' = 0)
    BY <1>1, McpFields
  <1>5. /\ connection' \in [Connections -> ConnectionType]
        /\ \A j \in Connections : /\ connection'[j].own = connection[j].own
                                  /\ connection'[j].ready = connection[j].ready
                                  /\ connection'[j].notified = connection[j].notified
                                  /\ connection'[j].tools = connection[j].tools
    BY <1>2 DEF ConnectionPut
  <1>6. ASSUME NEW j \in 1..opened, connection[j].own \in {"opening", "open"}, ~connection'[j].closing
        PROVE  pooled' = j \/ (holder # NoMcpCall /\ mcp[holder].on = j /\ mcp[holder].at = "connect")
    <2>1. j # k
      BY <1>2, <1>6
    <2>2. connection'[j] = connection[j]
      BY <1>2, <1>3, <2>1 DEF ConnectionPut
    <2> QED
      BY <1>1, <1>3, <1>6, <2>1, <2>2 DEF Kept
  <1> QED
    BY <1>4, <1>5, <1>6

LEMMA ReplaceKeeps ==
  ASSUME McpInv, stale \subseteq stale', NEW c \in McpCalls, Replace(c), UNCHANGED <<serverVars, dropped, closed>>
  PROVE  McpInv'
  <1>1. mcp[c].at = "lock" /\ holder = NoMcpCall /\ pooled \in 1..opened /\ Discard(pooled) /\ holder' = c
        /\ UNCHANGED <<config, catalog, edits, opened>>
    BY HolderIsOne DEF Replace, LockIsFree, serverVars
  <1>2. CallPut(c) /\ mcp'[c].at = "discard" /\ mcp'[c].on = pooled
    BY <1>1, GoesEffect, HolderIsOne DEF Replace, Waiting
  <1>3. /\ connection' \in [Connections -> ConnectionType]
        /\ \A j \in Connections : /\ connection'[j].own = connection[j].own
                                  /\ connection'[j].ready = connection[j].ready
                                  /\ connection'[j].notified = connection[j].notified
                                  /\ connection'[j].tools = connection[j].tools
        /\ pooled' = 0
        /\ \A j \in 1..opened : ~(connection[j].own \in {"opening", "open"} /\ ~connection'[j].closing) \/ pooled' = j
    BY <1>1, DiscardFacts
  <1>4. CoroutineFits(c)'
    BY <1>1, <1>2, <1>3 DEF CoroutineFits, Holds, Using
  <1>5. \A d \in McpCalls : d # c => mcp'[d] = mcp[d] /\ holder # d
    BY <1>1, <1>2, HolderIsOne DEF CallPut
  <1> QED
    BY <1>1, <1>2, <1>3, <1>4, <1>5, HolderIsOne, McpFields, StepKeeps DEF CallPut

LEMMA OpenedKeeps ==
  ASSUME McpInv, stale \subseteq stale', NEW c \in McpCalls, Opened(c), UNCHANGED <<serverVars, dropped, closed>>
  PROVE  McpInv'
  <1>1. /\ mcp[c].at = "connect" /\ mcp[c].on \in 1..opened /\ holder = c /\ pooled' = mcp[c].on
        /\ holder' = NoMcpCall /\ UNCHANGED <<config, catalog, edits, connection, opened>>
        /\ connection[mcp[c].on].ready = "yes"
    BY HolderIsOne DEF Opened, CoroutineFits, Holds, serverVars
  <1>2. connection[mcp[c].on].own \in {"open", "ended"}
    BY <1>1, HolderIsOne DEF McpInv, ConnectionFits
  <1>3. CallPut(c) /\ mcp'[c].at = "using" /\ mcp'[c].on = mcp[c].on
    <2>1. mcp' = [mcp EXCEPT ![c].at = "using"]
      BY DEF Opened
    <2> QED
      BY <2>1, StaysEffect
  <1>4. CoroutineFits(c)'
    BY <1>1, <1>2, <1>3, HolderIsOne DEF CoroutineFits, Holds, Using
  <1>5. \A d \in McpCalls : d # c => mcp'[d] = mcp[d] /\ holder # d /\ holder' # d
    BY <1>1, <1>3, HolderIsOne DEF CallPut
  <1>6. \A k \in 1..opened : connection[k].own \in {"opening", "open"} /\ ~connection'[k].closing => k = mcp[c].on
    BY <1>1, Untouched, HolderIsOne
  <1> QED
    BY <1>1, <1>3, <1>4, <1>5, <1>6, Untouched, HolderIsOne, McpFields, StepKeeps DEF CallPut

LEMMA OpenFailsKeeps ==
  ASSUME McpInv, stale \subseteq stale', NEW c \in McpCalls, OpenFails(c), UNCHANGED <<serverVars, closed>>
  PROVE  McpInv'
  <1>1. /\ mcp[c].at = "connect" /\ mcp[c].on \in 1..opened /\ holder = c /\ pooled = 0
        /\ connection' = [connection EXCEPT ![mcp[c].on].closing = TRUE]
        /\ UNCHANGED <<config, catalog, edits, opened, pooled, holder>>
        /\ dropped' \in [McpCalls -> {"no", "pending", "delivered"}]
    BY HolderIsOne DEF OpenFails, CoroutineFits, Holds, serverVars
  <1>2. CallPut(c) /\ mcp'[c].at = "undo" /\ mcp'[c].on = mcp[c].on
    <2>1. mcp' = [mcp EXCEPT ![c].at = "undo"] /\ "undo" \in Waiting
      BY DEF OpenFails, Waiting
    <2> QED
      BY <2>1, StaysEffect
  <1>3. Discard(mcp[c].on)
    BY <1>1 DEF Discard
  <1>4. /\ connection' \in [Connections -> ConnectionType]
        /\ \A j \in Connections : /\ connection'[j].own = connection[j].own
                                  /\ connection'[j].ready = connection[j].ready
                                  /\ connection'[j].notified = connection[j].notified
                                  /\ connection'[j].tools = connection[j].tools
        /\ \A j \in 1..opened : connection[j].own \in {"opening", "open"} /\ ~connection'[j].closing =>
             pooled' = j \/ (holder # NoMcpCall /\ mcp[holder].on = j /\ mcp[holder].at = "connect")
    BY <1>1, <1>3, DiscardFacts
  <1>8. \A j \in 1..opened : connection[j].own \in {"opening", "open"} /\ ~connection'[j].closing =>
          j = mcp[c].on
    BY <1>1, <1>4, McpFields
  <1>5. connection'[mcp[c].on].closing = TRUE
    BY <1>1, DiscardEffect, HolderIsOne
  <1>6. CoroutineFits(c)'
    BY <1>1, <1>2, HolderIsOne DEF CoroutineFits, Holds, Using
  <1>7. \A d \in McpCalls : d # c => mcp'[d] = mcp[d] /\ holder # d
    BY <1>1, <1>2 DEF CallPut
  <1> QED
    BY <1>1, <1>2, <1>4, <1>5, <1>6, <1>7, <1>8, HolderIsOne, McpFields, StepKeeps DEF CallPut

(* A coroutine that is not opening a connection leaves, and the lock is     *)
(* free if it had it.                                                       *)
LEMMA LeavesKeeps ==
  ASSUME McpInv, stale \subseteq stale', NEW c \in McpCalls, Finish(c), mcp[c].at # "connect",
         holder' = IF holder = c THEN NoMcpCall ELSE holder,
         UNCHANGED <<config, catalog, edits, connection, opened, pooled, closed>>,
         dropped' \in [McpCalls -> {"no", "pending", "delivered"}]
  PROVE  McpInv'
  <1>1. CallPut(c) /\ mcp'[c].at = "ended"
    BY FinishEffect
  <1>2. CoroutineFits(c)'
    BY <1>1, HolderIsOne DEF CoroutineFits, Holds, Using
  <1>3. \A d \in McpCalls : d # c => mcp'[d] = mcp[d] /\ (holder' = d <=> holder = d) /\ (holder = d => pooled = 0)
    BY <1>1, HolderIsOne DEF CallPut
  <1>4. \A k \in 1..opened : connection[k].own \in {"opening", "open"} /\ ~connection'[k].closing =>
          pooled = k \/ (holder' # NoMcpCall /\ mcp'[holder'].on = k /\ mcp'[holder'].at = "connect")
    BY <1>1, Untouched, HolderIsOne DEF CallPut
  <1> QED
    BY <1>1, <1>2, <1>3, <1>4, Untouched, HolderIsOne, McpFields, StepKeeps DEF CallPut

LEMMA UndoneKeeps ==
  ASSUME McpInv, stale \subseteq stale', NEW c \in McpCalls, Undone(c), UNCHANGED <<serverVars, dropped, closed>>
  PROVE  McpInv'
  <1>1. mcp[c].at = "undo" /\ holder = c
    BY HolderIsOne DEF Undone, CoroutineFits, Holds
  <1> QED
    BY <1>1, HolderIsOne, LeavesKeeps DEF Undone, serverVars

LEMMA CancelledKeeps ==
  ASSUME McpInv, stale \subseteq stale', NEW c \in McpCalls, Cancelled(c), UNCHANGED <<serverVars, closed>>
  PROVE  McpInv'
  <1>1. dropped' \in [McpCalls -> {"no", "pending", "delivered"}]
    BY HolderIsOne DEF Cancelled
  <1> QED
    BY <1>1, LeavesKeeps DEF Cancelled, serverVars

LEMMA FailsKeeps ==
  ASSUME McpInv, stale \subseteq stale', NEW c \in McpCalls, Fails(c), UNCHANGED <<serverVars, dropped, closed>>
  PROVE  McpInv'
  <1>1. /\ mcp[c].at \in Using /\ mcp[c].on \in 1..opened /\ holder # c /\ Discard(mcp[c].on)
        /\ connection[mcp[c].on].own \in {"open", "ended"}
        /\ UNCHANGED <<config, catalog, edits, opened, holder, dropped, closed>>
    BY HolderIsOne DEF Fails, Using, CoroutineFits, Holds, serverVars
  <1>2. /\ connection' \in [Connections -> ConnectionType]
        /\ \A j \in Connections : /\ connection'[j].own = connection[j].own
                                  /\ connection'[j].ready = connection[j].ready
                                  /\ connection'[j].notified = connection[j].notified
                                  /\ connection'[j].tools = connection[j].tools
        /\ pooled' \in 0..opened /\ (pooled = 0 => pooled' = 0)
        /\ \A j \in 1..opened : connection[j].own \in {"opening", "open"} /\ ~connection'[j].closing =>
             pooled' = j \/ (holder # NoMcpCall /\ mcp[holder].on = j /\ mcp[holder].at = "connect")
    BY <1>1, DiscardFacts
  <1>3. CallPut(c) /\ (mcp'[c].at = "ended" \/ (mcp'[c].at = "failing" /\ mcp'[c].on = mcp[c].on))
    <2>1. CASE Finish(c)
      BY <2>1, FinishEffect
    <2>2. CASE mcp' = [mcp EXCEPT ![c].at = "failing"]
      <3>1. "failing" \in Waiting
        BY DEF Waiting
      <3> QED
        BY <2>2, <3>1, StaysEffect
    <2> QED
      BY <2>1, <2>2 DEF Fails
  <1>4. CoroutineFits(c)'
    BY <1>1, <1>2, <1>3, HolderIsOne DEF CoroutineFits, Holds, Using
  <1>5. \A d \in McpCalls : d # c => mcp'[d] = mcp[d] /\ (holder = d => pooled' = 0)
    BY <1>2, <1>3, HolderIsOne DEF CallPut
  <1>6. holder # NoMcpCall => mcp'[holder] = mcp[holder]
    BY <1>1, <1>3, HolderIsOne DEF CallPut
  <1> QED
    BY <1>1, <1>2, <1>3, <1>4, <1>5, <1>6, HolderIsOne, McpFields, StepKeeps DEF CallPut

(* A copy of the catalog is taken, or thrown away.                          *)
LEMMA ToolsEffect ==
  ASSUME McpInv, NEW k \in Connections, NEW v \in Catalogs \cup {Unknown},
         connection' = [connection EXCEPT ![k].tools = v]
  PROVE  /\ ConnectionPut(k, connection'[k])
         /\ connection'[k].own = connection[k].own /\ connection'[k].ready = connection[k].ready
         /\ connection'[k].tools = v /\ connection'[k].notified = connection[k].notified
         /\ connection'[k].closing = connection[k].closing
  <1>1. connection[k] \in ConnectionType /\ connection \in [Connections -> ConnectionType]
    BY McpFields
  <1> DEFINE r == [connection[k] EXCEPT !.tools = v]
  <1>2. /\ r \in ConnectionType /\ r.own = connection[k].own /\ r.ready = connection[k].ready
        /\ r.tools = v /\ r.notified = connection[k].notified /\ r.closing = connection[k].closing
    BY <1>1 DEF ConnectionType
  <1>3. connection' = [connection EXCEPT ![k] = r]
    OBVIOUS
  <1> HIDE DEF r
  <1> QED
    BY <1>1, <1>2, <1>3 DEF ConnectionPut

LEMMA LookedKeeps ==
  ASSUME McpInv, stale \subseteq stale', NEW c \in McpCalls, Looked(c), UNCHANGED <<serverVars, dropped, closed>>
  PROVE  McpInv'
  <1>0. PICK k : k = mcp[c].on
    OBVIOUS
  <1> DEFINE refetch == mcp[c].wants = "call" /\ Offered(c) = "without" /\ ~mcp[c].refreshed
             v == IF refetch THEN Unknown ELSE Offered(c)
  <1>1. /\ mcp[c].at \in {"listed", "using"} /\ mcp[c].at \in Using
        /\ k \in 1..opened /\ k \in Connections /\ holder # c
        /\ connection[k].own \in {"open", "ended"}
        /\ UNCHANGED <<config, catalog, edits, opened, pooled, holder, dropped, closed>>
    BY <1>0, HolderIsOne DEF Looked, AtHand, Using, CoroutineFits, Holds, serverVars
  <1>2. /\ v \in Catalogs \cup {Unknown}
        /\ Alive(k) /\ ~connection[k].notified => k \in stale \/ v \in {catalog, Unknown}
    <2>1. connection[k] \in ConnectionType /\ ConnectionFits(k) /\ CoroutineFits(c) /\ mcp[c] \in CallType
      BY <1>1, HolderIsOne, McpFields DEF McpInv
    <2>2. Offered(c) \in Catalogs \cup {Unknown}
      BY <1>0, <1>1, <2>1 DEF Offered, ConnectionType, CallType
    <2>3. Alive(k) /\ ~connection[k].notified => k \in stale \/ Offered(c) \in {catalog, Unknown}
      BY <1>0, <1>1, <2>1 DEF Offered, ConnectionFits, CoroutineFits
    <2> QED
      BY <2>2, <2>3
  <1>3. connection' = [connection EXCEPT ![k].tools = v]
    BY <1>0 DEF Looked
  <1>4. CallPut(c) /\ (mcp'[c].at = "ended" \/ (mcp'[c].at \in {"listing", "calling"} /\ mcp'[c].on = k))
    <2>1. CASE Finish(c)
      BY <2>1, FinishEffect
    <2>2. CASE mcp' = [mcp EXCEPT ![c].at = "listing", ![c].refreshed = TRUE]
      <3>1. CallPut(c) /\ mcp'[c].on = mcp[c].on
        BY <2>2, ListingEffect
      <3>2. mcp'[c].at = "listing"
        BY <2>2, McpFields, HolderIsOne DEF CallType
      <3> QED
        BY <1>0, <3>1, <3>2
    <2>3. CASE mcp' = [mcp EXCEPT ![c].at = "calling"]
      <3>1. "calling" \in Waiting
        BY DEF Waiting
      <3> QED
        BY <1>0, <2>3, <3>1, StaysEffect
    <2> QED
      BY <2>1, <2>2, <2>3 DEF Looked
  <1> HIDE DEF v, refetch
  <1>5. /\ ConnectionPut(k, connection'[k])
        /\ connection'[k].own = connection[k].own /\ connection'[k].ready = connection[k].ready
        /\ connection'[k].tools = v /\ connection'[k].notified = connection[k].notified
        /\ connection'[k].closing = connection[k].closing
    BY <1>1, <1>2, <1>3, ToolsEffect
  <1>6. ConnectionFits(k)'
    <2>1. ConnectionFits(k)
      BY <1>1 DEF McpInv
    <2> QED
      BY <1>1, <1>2, <1>5, <2>1 DEF ConnectionFits, Alive
  <1>7. CoroutineFits(c)'
    BY <1>0, <1>1, <1>4, <1>5, HolderIsOne DEF CoroutineFits, Holds, Using
  <1>8. \A d \in McpCalls : d # c => mcp'[d] = mcp[d] /\ (holder = d => pooled = 0)
    BY <1>4, HolderIsOne DEF CallPut
  <1>9. holder # NoMcpCall => mcp'[holder] = mcp[holder]
    BY <1>1, <1>4, HolderIsOne DEF CallPut
  <1>10. /\ connection' \in [Connections -> ConnectionType]
         /\ \A j \in Connections : /\ connection'[j].own = connection[j].own
                                   /\ connection'[j].ready = connection[j].ready
                                   /\ connection'[j].notified = connection[j].notified
                                   /\ connection'[j].tools = connection[j].tools \/ ConnectionFits(j)'
                                   /\ connection'[j].closing = connection[j].closing
    BY <1>5, <1>6 DEF ConnectionPut
  <1>11. \A j \in 1..opened : Kept(j) /\ j \in Connections
    BY McpFields DEF McpInv, NoConnectionIsLost, Kept
  <1>12. \A j \in 1..opened : connection[j].own \in {"opening", "open"} /\ ~connection'[j].closing =>
           pooled' = j \/ (holder' # NoMcpCall /\ mcp'[holder'].on = j /\ mcp'[holder'].at = "connect")
    BY <1>1, <1>9, <1>10, <1>11 DEF Kept
  <1> QED
    BY <1>1, <1>4, <1>7, <1>8, <1>10, <1>12, HolderIsOne, McpFields, StepKeeps DEF CallPut

(* A new connection, and its holder waits for the handshake.                *)
LEMMA OpenKeeps ==
  ASSUME McpInv, stale \subseteq stale', NEW c \in McpCalls, Open(c), UNCHANGED <<serverVars, dropped, closed>>
  PROVE  McpInv'
  <1> DEFINE n == opened + 1
  <1>1. /\ mcp[c].at \in {"lock", "discard"} /\ pooled = 0 /\ holder' = c /\ opened' = n
        /\ holder \in {NoMcpCall, c} /\ (holder = c => mcp[c].at = "discard")
        /\ UNCHANGED <<config, catalog, edits, pooled, dropped, closed>>
        /\ opened < MaxConnections
    BY HolderIsOne DEF Open, LockIsFree, CoroutineFits, Holds, serverVars
  <1>2. /\ n \in Connections /\ n \in 0..MaxConnections /\ n \in 1..n /\ n \notin 1..opened
        /\ \A j \in 1..opened : j \in Connections \ {n} /\ j \in 1..n
        /\ \A j \in 1..n : j = n \/ j \in 1..opened
    BY <1>1, McpFields DEF Connections
  <1>3. CallPut(c) /\ mcp'[c].at = "connect" /\ mcp'[c].on = n
    <2>1. mcp' = [mcp EXCEPT ![c].at = "connect", ![c].on = n] /\ "connect" \in Waiting
      BY DEF Open, Waiting
    <2> HIDE DEF n
    <2> QED
      BY <1>2, <2>1, GoesEffect
  <1>4. /\ connection' \in [Connections -> ConnectionType]
        /\ connection'[n].own = "opening" /\ connection'[n].ready = "no" /\ connection'[n].tools = Unknown
        /\ \A j \in Connections \ {n} : connection'[j] = connection[j]
    <2> DEFINE r == Fresh(mcp[c].fp)
    <2>1. mcp[c].fp \in Fingerprints /\ connection \in [Connections -> ConnectionType]
      BY HolderIsOne, McpFields DEF CallType
    <2>2. Unborn \in ConnectionType /\ Unborn.ready = "no" /\ Unborn.tools = Unknown
      BY DEF Unborn, ConnectionType, Fingerprints
    <2>3. r \in ConnectionType /\ r.own = "opening" /\ r.ready = "no" /\ r.tools = Unknown
      BY <2>1, <2>2 DEF Fresh, ConnectionType
    <2>4. connection' = [connection EXCEPT ![n] = r]
      BY DEF Open
    <2> HIDE DEF r, n
    <2> QED
      BY <1>2, <2>1, <2>3, <2>4
  <1>5. McpTypeOK' /\ (pooled <= opened)'
    <2>1. opened' \in 0..MaxConnections /\ pooled' <= opened'
      BY <1>1, McpFields
    <2> QED
      BY <1>1, <1>3, <1>4, <2>1 DEF McpInv, McpTypeOK, CallPut, CallType, ConnectionType
  <1>6. ASSUME NEW j \in Connections PROVE ConnectionFits(j)'
    <2>1. CASE j = n
      BY <1>4, <2>1 DEF ConnectionFits, Alive
    <2>2. CASE j # n
      BY <1>1, <1>4, <2>2 DEF McpInv, ConnectionFits, Alive
    <2> QED
      BY <2>1, <2>2
  <1>7. ASSUME NEW d \in McpCalls PROVE CoroutineFits(d)'
    <2>1. CASE d = c
      BY <1>1, <1>2, <1>3, <2>1 DEF CoroutineFits, Holds, Using
    <2>2. CASE d # c
      <3>1. mcp'[d] = mcp[d] /\ CoroutineFits(d) /\ holder # d
        BY <1>1, <1>3, <2>2, HolderIsOne DEF CallPut
      <3>2. mcp[d].at \in Holds \cup Using => mcp[d].on \in 1..opened
        BY <3>1 DEF CoroutineFits
      <3>3. mcp[d].at \in Using => connection'[mcp[d].on] = connection[mcp[d].on]
        BY <1>2, <1>4, <3>2
      <3>4. mcp[d].at = "listed" => mcp[d].at \in Using
        BY DEF Using
      <3> HIDE DEF n
      <3> QED
        BY <1>1, <1>2, <2>2, <3>1, <3>2, <3>3, <3>4 DEF CoroutineFits, Alive
    <2> QED
      BY <2>1, <2>2
  <1>8. NoConnectionIsLost'
    <2>1. \A j \in 1..opened : ~(connection[j].own \in {"opening", "open"} /\ ~connection[j].closing)
      BY <1>1, McpFields DEF McpInv, NoConnectionIsLost
    <2>2. ASSUME NEW j \in 1..n, connection'[j].own \in {"opening", "open"}, ~connection'[j].closing
          PROVE  j = n
      BY <1>2, <1>4, <2>1, <2>2
    <2> HIDE DEF n
    <2> QED
      BY <1>1, <1>3, <2>2, HolderIsOne DEF NoConnectionIsLost
  <1> QED
    BY <1>5, <1>6, <1>7, <1>8 DEF McpInv

-----------------------------------------------------------------------------
(* The pool, the user and the thread that waits.                            *)

(* The configuration is read when a call is submitted; a change of the      *)
(* catalog is on its way to every session.                                  *)
LEMMA EditKeeps ==
  ASSUME McpInv, stale \subseteq stale', Edit
  PROVE  McpInv'
  <1>1. UNCHANGED <<opened, pooled, holder, mcp, dropped, closed>> /\ edits' \in 0..MaxEdits
    <2>1. MaxEdits \in Nat /\ edits \in 0..MaxEdits
      BY McpAssumption DEF McpInv, McpTypeOK
    <2> QED
      BY <2>1 DEF Edit
  <1>2. connection' \in [Connections -> ConnectionType] /\ config' \in Fingerprints \cup {"off"} /\ catalog' \in Catalogs
    <2>1. CASE UNCHANGED <<catalog, connection>>
      BY <2>1, McpFields DEF Edit, McpInv, McpTypeOK
    <2>2. CASE /\ catalog' \in Catalogs \ {catalog}
               /\ connection' = [k \in Connections |->
                    IF Alive(k) THEN [connection[k] EXCEPT !.notified = TRUE] ELSE connection[k]]
               /\ UNCHANGED config
      <3>1. ASSUME NEW k \in Connections
            PROVE  [connection[k] EXCEPT !.notified = TRUE] \in ConnectionType /\ connection[k] \in ConnectionType
        BY McpFields DEF ConnectionType
      <3> QED
        BY <2>2, <3>1 DEF McpInv, McpTypeOK
    <2> QED
      BY <2>1, <2>2 DEF Edit
  <1>3. ASSUME NEW k \in Connections
        PROVE  /\ connection'[k].own = connection[k].own /\ connection'[k].ready = connection[k].ready
               /\ connection'[k].tools = connection[k].tools /\ connection'[k].closing = connection[k].closing
               /\ Alive(k) /\ ~connection'[k].notified => catalog' = catalog /\ ~connection[k].notified
    <2>1. connection[k] \in ConnectionType
      BY McpFields
    <2>2. CASE UNCHANGED <<catalog, connection>>
      BY <2>2
    <2>3. CASE connection'[k] = [connection[k] EXCEPT !.notified = TRUE]
      BY <2>1, <2>3 DEF ConnectionType
    <2>4. CASE ~Alive(k) /\ connection'[k] = connection[k]
      BY <2>4
    <2> QED
      BY <2>2, <2>3, <2>4 DEF Edit
  <1>4. McpTypeOK' /\ (pooled <= opened)'
    BY <1>1, <1>2 DEF McpInv, McpTypeOK, ConnectionType
  <1>5. ASSUME NEW k \in Connections PROVE ConnectionFits(k)'
    BY <1>3 DEF McpInv, ConnectionFits, Alive
  <1>6. ASSUME NEW c \in McpCalls PROVE CoroutineFits(c)'
    <2>1. mcp[c].at = "listed" => mcp[c].at \in Using
      BY DEF Using
    <2>2. mcp[c].at \in Using => mcp[c].on \in Connections
      BY HolderIsOne DEF CoroutineFits
    <2> QED
      BY <1>1, <1>3, <2>1, <2>2, HolderIsOne DEF CoroutineFits, Alive
  <1>7. NoConnectionIsLost'
    BY <1>1, <1>3, McpFields DEF McpInv, NoConnectionIsLost
  <1> QED
    BY <1>4, <1>5, <1>6, <1>7 DEF McpInv

LEMMA PoolKeeps ==
  ASSUME McpInv, stale \subseteq stale', Reap \/ CloseAll \/ Shutdown \/ LoopStops \/ \E c \in McpCalls : GivesUp(c)
  PROVE  McpInv'
  <1>1. /\ UNCHANGED <<config, catalog, edits, opened, holder, mcp>>
        /\ closed' \in {"no", "closing", "waiting", "stopped"}
        /\ dropped' \in [McpCalls -> {"no", "pending", "delivered"}]
    BY DEF McpInv, McpTypeOK, Reap, CloseAll, Shutdown, LoopStops, GivesUp, serverVars
  <1>2. ASSUME NEW d \in McpCalls PROVE CoroutineFits(d) /\ (holder = d => pooled = 0)
    BY HolderIsOne
  <1>3. pooled \in 0..opened /\ holder \in McpCalls \cup {NoMcpCall}
    BY McpFields DEF McpInv, McpTypeOK
  <1>4. CASE UNCHANGED <<connection, pooled>>
    BY <1>1, <1>2, <1>3, <1>4, Untouched, McpFields, StepKeeps
  <1>5. CASE pooled # 0 /\ Discard(pooled)
    <2>1. pooled \in 1..opened
      BY <1>3, <1>5, McpFields
    <2>2. /\ connection' \in [Connections -> ConnectionType]
          /\ \A j \in Connections : /\ connection'[j].own = connection[j].own
                                    /\ connection'[j].ready = connection[j].ready
                                    /\ connection'[j].notified = connection[j].notified
                                    /\ connection'[j].tools = connection[j].tools
          /\ pooled' \in 0..opened /\ (pooled = 0 => pooled' = 0)
          /\ \A j \in 1..opened : connection[j].own \in {"opening", "open"} /\ ~connection'[j].closing =>
               pooled' = j \/ (holder # NoMcpCall /\ mcp[holder].on = j /\ mcp[holder].at = "connect")
      BY <1>5, <2>1, DiscardFacts
    <2> QED
      BY <1>1, <1>2, <1>3, <2>2, McpFields, StepKeeps
  <1> QED
    BY <1>4, <1>5 DEF Reap, CloseAll, Shutdown, LoopStops, GivesUp

-----------------------------------------------------------------------------
LEMMA McpInvInit == McpInit /\ stale = {} => McpInv
  <1> SUFFICES ASSUME McpInit, stale = {} PROVE McpInv
    OBVIOUS
  <1>1. MaxConnections \in Nat /\ MaxEdits \in Nat /\ 0 \in 0..MaxConnections /\ 0 \in 0..MaxEdits /\ NoMcpCall \notin McpCalls
    BY McpAssumption
  <1>2. Unborn \in ConnectionType /\ Idle \in CallType
    BY <1>1 DEF Unborn, Idle, ConnectionType, CallType, Fingerprints
  <1>3. McpTypeOK /\ pooled <= opened
    BY <1>1, <1>2 DEF McpInit, McpTypeOK, ConnectionType, CallType, Fingerprints, Catalogs
  <1>4. /\ \A c \in McpCalls : CoroutineFits(c)
        /\ \A k \in Connections : ConnectionFits(k)
        /\ NoConnectionIsLost
    BY <1>1 DEF McpInit, CoroutineFits, ConnectionFits, NoConnectionIsLost, Unborn, Idle, Holds, Using, Alive
  <1> QED
    BY <1>3, <1>4 DEF McpInv

(* A step of a connection is not a stuttering step.                         *)
LEMMA OwnerChanges ==
  ASSUME McpInv, Owner, [NoticeStep]_<<mcpVars, stale>>
  PROVE  NoticeStep
  <1>1. PICK k \in 1..opened : Ready(k) \/ CallEnds(k) \/ Notified(k)
    BY DEF Owner
  <1>2. k \in Connections /\ connection[k] \in ConnectionType /\ connection \in [Connections -> ConnectionType]
    BY McpFields
  <1>3. connection' # connection
    <2>1. CASE Ready(k)
      BY <1>2, <2>1 DEF Ready, ConnectionType
    <2>2. CASE CallEnds(k)
      <3> DEFINE r == [connection[k] EXCEPT !.own = "ended", !.tools = Unknown, !.notified = FALSE,
                                            !.ready = IF connection[k].ready = "no" THEN "failed" ELSE connection[k].ready]
      <3>1. r.own = "ended"
        BY <1>2 DEF ConnectionType
      <3>2. connection' = [connection EXCEPT ![k] = r] /\ connection[k].own \in {"opening", "open"}
        BY <2>2 DEF CallEnds
      <3> HIDE DEF r
      <3>3. connection'[k].own = "ended" /\ connection[k].own # "ended"
        BY <1>2, <3>1, <3>2
      <3> QED
        BY <3>3
    <2>3. CASE Notified(k)
      BY <1>2, <2>3 DEF Notified, ConnectionType
    <2> QED
      BY <1>1, <2>1, <2>2, <2>3
  <1> QED
    BY <1>3 DEF mcpVars

LEMMA McpInvNext ==
  ASSUME McpInv, [McpNext]_mcpVars, [NoticeStep]_<<mcpVars, stale>>
  PROVE  McpInv'
  <1>0. stale \subseteq stale'
    BY DEF NoticeStep
  <1>1. CASE UNCHANGED mcpVars
    <2>1. UNCHANGED <<config, catalog, edits, connection, opened, pooled, holder, mcp, dropped, closed>>
      BY <1>1 DEF mcpVars, serverVars
    <2> QED
      BY <1>0, <2>1 DEF McpInv, McpTypeOK, CoroutineFits, ConnectionFits, NoConnectionIsLost, Alive
  <1>2. ASSUME NEW c \in McpCalls, Coroutine(c)
        PROVE  McpInv'
    <2>1. UNCHANGED <<serverVars, closed>>
      BY <1>2 DEF Coroutine
    <2>2. CASE OpenFails(c) \/ Cancelled(c)
      BY <1>0, <2>1, <2>2, OpenFailsKeeps, CancelledKeeps
    <2>3. CASE UNCHANGED dropped /\ (Reuse(c) \/ Replace(c) \/ Open(c) \/ Opened(c) \/ Undone(c))
      BY <1>0, <2>1, <2>3, ReuseKeeps, ReplaceKeeps, OpenKeeps, OpenedKeeps, UndoneKeeps
    <2>4. CASE UNCHANGED dropped /\ (Ask(c) \/ Listed(c) \/ Looked(c) \/ Called(c) \/ Fails(c) \/ Failed(c))
      BY <1>0, <2>1, <2>4, AskKeeps, LookedKeeps, FailsKeeps
    <2> QED
      BY <1>2, <2>2, <2>3, <2>4 DEF Coroutine
  <1>3. CASE \E c \in McpCalls : Submit(c) \/ Coroutine(c)
    BY <1>0, <1>2, <1>3, SubmitKeeps
  <1>4. CASE Owner
    <2>1. NoticeStep
      BY <1>4, OwnerChanges
    <2>2. \A k \in 1..opened : Overtaken(k) => k \in stale'
      BY <2>1 DEF NoticeStep
    <2> QED
      BY <1>0, <1>4, <2>2, OwnerKeeps
  <1> QED
    BY <1>0, <1>1, <1>3, <1>4, EditKeeps, PoolKeeps DEF McpNext

(* In every behaviour of the pool a connection that is up is in the pool or *)
(* is being opened by the holder of the lock (_acquire, _use, _discard):    *)
(* for any number of calls, connections and changes, and whether or not the *)
(* pool closes while it connects.                                           *)
THEOREM NoConnectionIsLostAlways == McpSpec /\ McpWatch => []NoConnectionIsLost
  <1>1. McpInit /\ stale = {} => McpInv
    BY McpInvInit
  <1>2. McpInv /\ [McpNext]_mcpVars /\ [NoticeStep]_<<mcpVars, stale>> => McpInv'
    BY McpInvNext
  <1>3. McpInv => NoConnectionIsLost
    BY DEF McpInv
  <1> QED
    BY <1>1, <1>2, <1>3, PTL DEF McpSpec, McpWatch

(* The copy of the catalog that a connection offers is the server's, unless *)
(* a notice of that connection was handled while an older list, already     *)
(* fetched, waited to be stored (_on_message, tools): no other order of     *)
(* calls, edits, notices and breaks makes it old, and no other connection   *)
(* is touched.                                                              *)
THEOREM ConnectionsAreSoundAlways ==
  McpSpec /\ McpWatch =>
    []( /\ \A k \in (1..opened) \ stale :
              Alive(k) /\ ~connection[k].notified => connection[k].tools \in {catalog, Unknown}
        /\ stale = {} => ConnectionsAreSound )
  <1> DEFINE Fresh1 == \A k \in (1..opened) \ stale :
                        Alive(k) /\ ~connection[k].notified => connection[k].tools \in {catalog, Unknown}
  <1>1. McpInit /\ stale = {} => McpInv
    BY McpInvInit
  <1>2. McpInv /\ [McpNext]_mcpVars /\ [NoticeStep]_<<mcpVars, stale>> => McpInv'
    BY McpInvNext
  <1>3. McpInv => Fresh1 /\ (stale = {} => ConnectionsAreSound)
    BY McpFields DEF McpInv, ConnectionsAreSound, CatalogIsFresh, ConnectionFits
  <1> QED
    BY <1>1, <1>2, <1>3, PTL DEF McpSpec, McpWatch

-----------------------------------------------------------------------------
(***************************************************************************)
(* The channel of a session, for any sizes of the window and of the queue, *)
(* any output and any breaks: the end comes right after the last frame.    *)
(***************************************************************************)
Top == nextSeq - 1
Signs == {Exit, Overflow, Resync}

ChannelTypes ==
  /\ window \in Seq(Numbers) /\ nextSeq \in Nat \ {0} /\ finished \in BOOLEAN
  /\ socket \in {"none", "opening", "serving"}
  /\ replay \in Seq(Numbers \cup Signs) /\ queue \in Seq(Numbers \cup Signs)
  /\ registered \in BOOLEAN /\ overflowed \in BOOLEAN
  /\ view \in {"closed", "connecting", "connected", "ended"}
  /\ from \in Nat /\ last \in Nat

(* The window holds the last frames without a gap.                          *)
WindowFits ==
  /\ Len(window) <= WindowSize /\ (window = <<>> <=> nextSeq = 1)
  /\ \A i \in DOMAIN window : window[i] = Top - Len(window) + i

(* What the client will have shown last when it has handled the replay, if  *)
(* no sign comes before.                                                    *)
ShownLast(frames, before) == IF frames = <<>> THEN before ELSE frames[Len(frames)]

(* An end follows the last frame, be it shown, in the replay or queued.     *)
EndFollows(frames, before) ==
  \A i \in DOMAIN frames :
    frames[i] = Exit => finished /\ (IF i = 1 THEN before ELSE frames[i - 1]) = Top

Behind(frames) == \A i \in DOMAIN frames : frames[i] \in Numbers => frames[i] <= Top

WayFits ==
  /\ socket # "serving" => replay = <<>> /\ queue = <<>> /\ ~registered
  /\ registered => ~finished
  /\ last <= Top /\ Behind(replay) /\ Behind(queue)
  /\ EndFollows(replay, last) /\ EndFollows(queue, ShownLast(replay, last))
  /\ (registered /\ ~overflowed) => ShownLast(queue, ShownLast(replay, last)) = Top
  /\ view = "ended" => socket = "none" /\ finished /\ last = Top

ChannelInv == ChannelTypes /\ WindowFits /\ WayFits

LEMMA ChannelInvInit == ChannelInit => ChannelInv
  <1> SUFFICES ASSUME ChannelInit PROVE ChannelInv
    OBVIOUS
  <1>1. ChannelTypes
    <2>1. window \in Seq(Numbers) /\ replay \in Seq(Numbers \cup Signs) /\ queue \in Seq(Numbers \cup Signs)
      BY DEF ChannelInit
    <2>2. finished = FALSE /\ registered = FALSE /\ overflowed = FALSE
      BY DEF ChannelInit
    <2>3. nextSeq \in Nat \ {0} /\ from \in Nat /\ last \in Nat /\ socket = "none" /\ view = "closed"
      BY DEF ChannelInit
    <2> QED
      BY <2>1, <2>2, <2>3, Zenon DEF ChannelTypes
  <1>2. WindowFits
    BY TerminalStreamAssumption DEF ChannelInit, WindowFits
  <1>3. WayFits
    BY DEF ChannelInit, WayFits, ShownLast, EndFollows, Behind, Top
  <1> QED
    BY <1>1, <1>2, <1>3 DEF ChannelInv

(* The window after a frame.                                                *)
LEMMA WindowNext ==
  ASSUME ChannelInv, Outputs
  PROVE  window' \in Seq(Numbers) /\ WindowFits'
  <1>0. /\ window \in Seq(Numbers) /\ nextSeq \in Numbers /\ nextSeq' = nextSeq + 1
        /\ WindowSize \in Nat \ {0} /\ WindowFits /\ nextSeq \in Nat \ {0}
    BY TerminalStreamAssumption DEF ChannelInv, ChannelTypes, Outputs, Numbers
  <1>1. CASE Len(window) < WindowSize
    <2>1. window' = Append(window, nextSeq)
      BY <1>1 DEF Outputs
    <2>2. /\ window' \in Seq(Numbers) /\ Len(window') = Len(window) + 1
          /\ \A i \in DOMAIN window' : window'[i] = IF i = Len(window) + 1 THEN nextSeq ELSE window[i]
      BY <1>0, <2>1
    <2> QED
      BY <1>0, <1>1, <2>2 DEF WindowFits, Top
  <1>2. CASE ~(Len(window) < WindowSize)
    <2>1. window' = Append(Tail(window), nextSeq)
      BY <1>2 DEF Outputs
    <2>2. window # <<>> /\ Len(window) \in Nat \ {0} /\ Len(window) <= WindowSize
      BY <1>0, <1>2 DEF WindowFits
    <2>3. Tail(window) \in Seq(Numbers) /\ Len(Tail(window)) = Len(window) - 1
      BY <1>0, <2>2
    <2>4. \A i \in 1..(Len(window) - 1) : Tail(window)[i] = window[i + 1]
      BY <1>0, <2>2
    <2>5. /\ window' \in Seq(Numbers) /\ Len(window') = Len(window)
          /\ \A i \in DOMAIN window' : window'[i] = IF i = Len(window) THEN nextSeq ELSE window[i + 1]
      BY <1>0, <2>1, <2>2, <2>3, <2>4
    <2>6. nextSeq' # 1 /\ window' # <<>> /\ Len(window') <= WindowSize
      BY <1>0, <2>2, <2>5
    <2>7. ASSUME NEW i \in DOMAIN window'
          PROVE  window'[i] = nextSeq' - 1 - Len(window') + i
      <3>1. i \in 1..Len(window) /\ Len(window') = Len(window)
        BY <2>2, <2>5
      <3>2. i # Len(window) => window[i + 1] = nextSeq - 1 - Len(window) + (i + 1)
        BY <1>0, <2>2, <3>1 DEF WindowFits, Top
      <3> QED
        BY <1>0, <2>2, <2>5, <3>1, <3>2
    <2> QED
      BY <1>0, <2>5, <2>6, <2>7 DEF WindowFits, Top
  <1> QED
    BY <1>1, <1>2

(* What goes into the queue: the event, the overflow instead, or nothing.   *)
LEMMA PublishedEffect ==
  ASSUME ChannelTypes, NEW event \in Numbers \cup {Exit}, Published(event)
  PROVE  \/ (~registered \/ overflowed) /\ UNCHANGED <<queue, overflowed>>
         \/ /\ registered /\ ~overflowed
            /\ \E e \in {event, Overflow} :
                 /\ e = Overflow => overflowed' = TRUE
                 /\ overflowed' \in BOOLEAN /\ (e # Overflow => overflowed' = FALSE)
                 /\ queue' = Append(queue, e)
  <1>1. QueueSize \in Nat /\ Len(queue) \in Nat /\ event # Overflow
    BY TerminalStreamAssumption DEF ChannelTypes, Numbers, Exit, Overflow
  <1>2. CASE ~registered \/ overflowed
    BY <1>2 DEF Published
  <1>3. CASE registered /\ ~overflowed /\ Len(queue) < QueueSize
    <2>1. queue' = Append(queue, event) /\ overflowed' = (Len(queue) >= QueueSize)
      BY <1>3 DEF Published
    <2>2. (Len(queue) >= QueueSize) = FALSE
      BY <1>1, <1>3
    <2>3. overflowed' = FALSE
      BY <2>1, <2>2, Zenon
    <2> QED
      BY <1>1, <1>3, <2>1, <2>3
  <1>4. CASE registered /\ ~overflowed /\ ~(Len(queue) < QueueSize)
    <2>1. queue' = Append(queue, Overflow) /\ overflowed' = (Len(queue) >= QueueSize)
      BY <1>4 DEF Published
    <2>2. (Len(queue) >= QueueSize) = TRUE
      BY <1>1, <1>4
    <2>3. overflowed' = TRUE
      BY <2>1, <2>2, Zenon
    <2> QED
      BY <1>1, <1>4, <2>1, <2>3
  <1> QED
    BY <1>2, <1>3, <1>4 DEF ChannelTypes

(* The signs are no numbers of frames.                                      *)
LEMMA SignsAreApart ==
  /\ Exit \notin Numbers /\ Overflow \notin Numbers /\ Resync \notin Numbers
  /\ Exit # Overflow /\ Exit # Resync /\ Overflow # Resync
  /\ MaxOutput \in Nat /\ \A n \in Numbers : n \in Nat \ {0} /\ n <= MaxOutput
  /\ {Exit, Overflow, Resync} \subseteq Signs
  BY TerminalStreamAssumption DEF Numbers, Exit, Overflow, Resync, Signs

(* What the client lacks leads it to the last frame.                        *)
LEMMA LackingEffect ==
  ASSUME ChannelTypes, WindowFits, last <= Top
  PROVE  /\ Lacking \in Seq(Numbers) /\ ShownLast(Lacking, last) = Top
         /\ \A i \in DOMAIN Lacking : \E j \in DOMAIN window : Lacking[i] = window[j]
  <1> DEFINE Splits(k) == k \in 1..(Len(window) + 1)
                          /\ \A i \in DOMAIN window : window[i] > last <=> i >= k
  <1>0. /\ window \in Seq(Numbers) /\ Len(window) \in Nat /\ last \in Nat /\ nextSeq \in Nat \ {0}
        /\ DOMAIN window = 1..Len(window)
    BY DEF ChannelTypes
  <1>1. \A i \in DOMAIN window : window[i] = nextSeq - 1 - Len(window) + i
    BY DEF WindowFits, Top
  <1>2. \E k : Splits(k)
    <2> DEFINE k == IF last <= nextSeq - 1 - Len(window) THEN 1 ELSE last - (nextSeq - 1 - Len(window)) + 1
    <2>1. k \in 1..(Len(window) + 1)
      BY <1>0 DEF Top
    <2>2. ASSUME NEW i \in DOMAIN window PROVE window[i] > last <=> i >= k
      BY <1>0, <1>1, <2>2
    <2> QED
      BY <2>1, <2>2
  <1>3. Splits(FirstLacking)
    <2> HIDE DEF Splits
    <2>1. FirstLacking = CHOOSE k : Splits(k)
      BY DEF FirstLacking, Splits
    <2> QED
      BY <1>2, <2>1
  <1> DEFINE f == FirstLacking
  <1>4. /\ f \in 1..(Len(window) + 1) /\ Lacking = SubSeq(window, f, Len(window))
        /\ \A i \in DOMAIN window : window[i] > last <=> i >= f
    BY <1>3 DEF Lacking
  <1> HIDE DEF f
  <1>5. Lacking \in Seq(Numbers) /\ Len(Lacking) = Len(window) - f + 1
    BY <1>0, <1>4
  <1>8. ASSUME NEW i \in DOMAIN Lacking PROVE \E j \in DOMAIN window : Lacking[i] = window[j]
    <2>1. i \in 1..(Len(window) - f + 1) /\ f + i - 1 \in DOMAIN window
      BY <1>0, <1>4, <1>5, <1>8
    <2>2. Lacking[i] = window[f + i - 1]
      BY <1>0, <1>4, <1>5, <2>1
    <2> QED
      BY <2>1, <2>2
  <1>6. CASE f = Len(window) + 1
    <2>1. Lacking = <<>>
      BY <1>0, <1>4, <1>5, <1>6
    <2>2. window = <<>> => last = Top
      BY <1>0 DEF WindowFits, Top
    <2>3. ASSUME window # <<>> PROVE last = Top
      <3>1. Len(window) \in DOMAIN window
        BY <1>0, <2>3
      <3>2. window[Len(window)] = Top /\ ~(window[Len(window)] > last)
        BY <1>0, <1>1, <1>4, <1>6, <3>1 DEF Top
      <3> QED
        BY <1>0, <3>2 DEF Top
    <2> QED
      BY <1>5, <1>8, <2>1, <2>2, <2>3 DEF ShownLast
  <1>7. CASE f # Len(window) + 1
    <2>1. Len(Lacking) \in 1..Len(window) /\ Lacking # <<>> /\ Len(window) \in DOMAIN window
      BY <1>0, <1>4, <1>5, <1>7
    <2>2. Lacking[Len(Lacking)] = window[Len(window)]
      BY <1>0, <1>4, <1>5, <2>1
    <2> QED
      BY <1>0, <1>1, <1>5, <1>8, <2>1, <2>2 DEF ShownLast, Top
  <1> QED
    BY <1>6, <1>7

(* More output only adds to what is behind.                                 *)
LEMMA BehindStays ==
  ASSUME NEW frames, Behind(frames), nextSeq \in Nat, nextSeq' = nextSeq + 1
  PROVE  \A i \in DOMAIN frames : frames[i] \in Numbers => frames[i] <= Top'
  <1> SUFFICES ASSUME NEW i \in DOMAIN frames, frames[i] \in Numbers PROVE frames[i] <= Top'
    OBVIOUS
  <1>1. frames[i] \in Nat /\ frames[i] <= nextSeq - 1
    BY SignsAreApart DEF Behind, Top
  <1> QED
    BY <1>1 DEF Top

LEMMA OutputsWay ==
  ASSUME ChannelInv, Outputs
  PROVE  WayFits'
  <1>0. ChannelTypes /\ WayFits /\ nextSeq \in Numbers /\ nextSeq' = nextSeq + 1 /\ ~finished /\ ~finished'
        /\ UNCHANGED <<socket, replay, registered, view, last>> /\ Published(nextSeq)
    BY TerminalStreamAssumption DEF ChannelInv, ChannelTypes, Outputs, Numbers
  <1>1. /\ \A i \in DOMAIN replay : replay[i] # Exit
        /\ \A i \in DOMAIN queue : queue[i] # Exit
    BY <1>0 DEF WayFits, EndFollows
  <1>2. /\ nextSeq # Exit /\ nextSeq # Overflow /\ nextSeq \in Nat /\ Top' = nextSeq /\ Top < nextSeq
        /\ Overflow # Exit /\ Overflow \notin Numbers
    BY <1>0, SignsAreApart DEF Top
  <1>3. PICK e \in {nextSeq, Overflow} :
          \/ (~registered \/ overflowed) /\ UNCHANGED <<queue, overflowed>>
          \/ /\ registered /\ ~overflowed /\ queue' = Append(queue, e)
             /\ e = Overflow => overflowed' = TRUE
    BY <1>0, PublishedEffect
  <1>4. Behind(replay)'
    BY <1>0, BehindStays DEF WayFits, Behind, ChannelTypes
  <1>5. CASE (~registered \/ overflowed) /\ UNCHANGED <<queue, overflowed>>
    <2>1. Behind(queue)'
      BY <1>0, <1>5, BehindStays DEF WayFits, Behind, ChannelTypes
    <2> QED
      BY <1>0, <1>1, <1>2, <1>4, <1>5, <2>1 DEF WayFits, EndFollows, ChannelTypes, Top
  <1>6. CASE registered /\ ~overflowed /\ queue' = Append(queue, e) /\ (e = Overflow => overflowed' = TRUE)
    <2>1. /\ queue \in Seq(Numbers \cup Signs) /\ Len(queue) \in Nat /\ queue' # <<>> /\ Len(queue') = Len(queue) + 1
          /\ \A i \in DOMAIN queue' : queue'[i] = IF i = Len(queue) + 1 THEN e ELSE queue[i]
          /\ \A i \in DOMAIN queue' : i = Len(queue) + 1 \/ i \in DOMAIN queue
      BY <1>0, <1>6 DEF ChannelTypes
    <2>2. \A i \in DOMAIN queue' : queue'[i] # Exit
      BY <1>1, <1>2, <2>1
    <2>3. Behind(queue)'
      <3> SUFFICES ASSUME NEW i \in DOMAIN queue', queue'[i] \in Numbers PROVE queue'[i] <= Top'
        BY DEF Behind
      <3>1. CASE i = Len(queue) + 1
        BY <1>2, <2>1, <3>1
      <3>2. CASE i \in DOMAIN queue /\ i # Len(queue) + 1
        BY <1>0, <2>1, <3>2, BehindStays DEF WayFits, ChannelTypes
      <3> QED
        BY <2>1, <3>1, <3>2
    <2>4. (registered' /\ ~overflowed') => queue'[Len(queue')] = Top'
      BY <1>2, <1>6, <2>1
    <2> QED
      BY <1>0, <1>1, <1>2, <1>4, <1>6, <2>1, <2>2, <2>3, <2>4 DEF WayFits, EndFollows, ShownLast, ChannelTypes, Top
  <1> QED
    BY <1>3, <1>5, <1>6

LEMMA FinishesWay ==
  ASSUME ChannelInv, Finishes
  PROVE  WayFits'
  <1>0. ChannelTypes /\ WayFits /\ ~finished /\ finished' = TRUE /\ registered' = FALSE
        /\ UNCHANGED <<nextSeq, socket, replay, view, last>> /\ Published(Exit)
    BY DEF ChannelInv, Finishes
  <1>1. /\ \A i \in DOMAIN replay : replay[i] # Exit
        /\ \A i \in DOMAIN queue : queue[i] # Exit
    BY <1>0 DEF WayFits, EndFollows
  <1>2. view # "ended" /\ Top' = Top
    BY <1>0 DEF WayFits, Top
  <1>3. PICK e \in {Exit, Overflow} :
          \/ (~registered \/ overflowed) /\ UNCHANGED <<queue, overflowed>>
          \/ registered /\ ~overflowed /\ queue' = Append(queue, e)
    BY <1>0, PublishedEffect
  <1>4. CASE (~registered \/ overflowed) /\ UNCHANGED <<queue, overflowed>>
    BY <1>0, <1>1, <1>2, <1>4 DEF WayFits, EndFollows, Behind
  <1>5. CASE registered /\ ~overflowed /\ queue' = Append(queue, e)
    <2>1. /\ queue \in Seq(Numbers \cup Signs) /\ Len(queue) \in Nat /\ Len(queue') = Len(queue) + 1
          /\ \A i \in DOMAIN queue' : queue'[i] = IF i = Len(queue) + 1 THEN e ELSE queue[i]
          /\ \A i \in DOMAIN queue' : i = Len(queue) + 1 \/ i \in DOMAIN queue
      BY <1>0, <1>5 DEF ChannelTypes
    <2>2. Behind(queue)'
      BY <1>0, <1>2, <2>1, SignsAreApart DEF WayFits, Behind
    <2>3. ShownLast(queue, ShownLast(replay, last)) = Top
      BY <1>0, <1>5 DEF WayFits
    <2>4. EndFollows(queue, ShownLast(replay, last))'
      <3> SUFFICES ASSUME NEW i \in DOMAIN queue', queue'[i] = Exit
                   PROVE  (IF i = 1 THEN ShownLast(replay', last') ELSE queue'[i - 1]) = Top'
        BY <1>0 DEF EndFollows
      <3>1. i = Len(queue) + 1
        BY <1>1, <2>1
      <3>2. CASE queue = <<>>
        BY <1>0, <1>2, <2>1, <2>3, <3>1, <3>2 DEF ShownLast
      <3>3. CASE queue # <<>>
        <4>1. Len(queue) \in DOMAIN queue' /\ i # 1 /\ i - 1 = Len(queue)
          BY <2>1, <3>1, <3>3
        <4> QED
          BY <1>2, <2>1, <2>3, <3>3, <4>1 DEF ShownLast
      <3> QED
        BY <3>2, <3>3
    <2> QED
      BY <1>0, <1>1, <1>2, <1>5, <2>2, <2>4 DEF WayFits, EndFollows, Behind
  <1> QED
    BY <1>3, <1>4, <1>5

LEMMA AttachesWay ==
  ASSUME ChannelInv, Attaches
  PROVE  /\ replay' \in Seq(Numbers \cup Signs) /\ registered' \in BOOLEAN
         /\ WayFits'
  <1>0. /\ ChannelTypes /\ WayFits /\ WindowFits /\ socket = "opening" /\ socket' = "serving"
        /\ queue' = <<>> /\ overflowed' = FALSE /\ UNCHANGED <<nextSeq, finished, view, last>>
    BY DEF ChannelInv, Attaches
  <1>1. Top' = Top /\ view # "ended" /\ last <= Top /\ last \in Nat
    BY <1>0 DEF WayFits, Top, ChannelTypes
  <1>2. CASE replay' = <<Resync>> /\ registered' = FALSE
    <2>1. \A i \in DOMAIN replay' : replay'[i] = Resync
      BY <1>2
    <2>2. EndFollows(replay, last)' /\ Behind(replay)'
      BY <2>1, SignsAreApart DEF EndFollows, Behind
    <2>3. replay' \in Seq(Numbers \cup Signs)
      BY <1>2, SignsAreApart
    <2>4. WayFits'
      BY <1>0, <1>1, <1>2, <2>2 DEF WayFits, EndFollows, Behind
    <2> QED
      BY <1>2, <2>3, <2>4
  <1>3. CASE replay' = Lacking \o EndReplayed /\ registered' = ~finished
    <2> DEFINE L == Lacking
    <2>0. L \in Seq(Numbers) /\ ShownLast(L, last) = Top
      BY <1>0, <1>1, LackingEffect
    <2> HIDE DEF L
    <2>1. /\ Len(L) \in Nat /\ \A i \in DOMAIN L : L[i] \in Numbers
          /\ DOMAIN L = 1..Len(L)
      BY <2>0
    <2>2. registered' \in BOOLEAN /\ (registered' => ~finished)
      BY <1>0, <1>3 DEF ChannelTypes
    <2>3. \A i \in DOMAIN L : L[i] <= Top
      <3>1. \A i \in DOMAIN window : window[i] <= Top
        <4>1. /\ \A i \in DOMAIN window : window[i] = nextSeq - 1 - Len(window) + i
              /\ DOMAIN window = 1..Len(window) /\ Len(window) \in Nat /\ nextSeq \in Nat
          BY <1>0 DEF WindowFits, Top, ChannelTypes
        <4> QED
          BY <4>1 DEF Top
      <3>2. ASSUME NEW i \in DOMAIN L PROVE \E j \in DOMAIN window : L[i] = window[j]
        BY <1>0, <1>1, LackingEffect, <2>1 DEF L
      <3> QED
        BY <3>1, <3>2
    <2>4. CASE finished = TRUE
      <3>1. replay' = Append(L, Exit)
        <4>1. EndReplayed = <<Exit>>
          BY <2>4 DEF EndReplayed
        <4> QED
          BY <1>3, <2>0, <4>1 DEF L
      <3>2. /\ replay' \in Seq(Numbers \cup Signs) /\ Len(replay') = Len(L) + 1
            /\ \A i \in DOMAIN replay' : replay'[i] = IF i = Len(L) + 1 THEN Exit ELSE L[i]
            /\ \A i \in DOMAIN replay' : i = Len(L) + 1 \/ i \in DOMAIN L
        BY <2>0, <3>1, SignsAreApart
      <3>3. Behind(replay)'
        BY <1>1, <2>3, <3>2, SignsAreApart DEF Behind
      <3>4. EndFollows(replay, last)'
        <4> SUFFICES ASSUME NEW i \in DOMAIN replay', replay'[i] = Exit
                     PROVE  finished' /\ (IF i = 1 THEN last' ELSE replay'[i - 1]) = Top'
          BY DEF EndFollows
        <4>1. i = Len(L) + 1
          BY <2>1, <3>2, SignsAreApart
        <4>2. CASE L = <<>>
          BY <1>0, <1>1, <2>0, <2>4, <4>1, <4>2 DEF ShownLast
        <4>3. CASE L # <<>>
          <5>1. Len(L) \in DOMAIN L /\ Len(L) \in DOMAIN replay' /\ i # 1 /\ i - 1 = Len(L)
            BY <2>0, <2>1, <3>1, <4>1, <4>3
          <5> QED
            BY <1>0, <1>1, <2>0, <2>1, <2>4, <3>2, <4>3, <5>1 DEF ShownLast
        <4> QED
          BY <4>2, <4>3
      <3> QED
        BY <1>0, <1>1, <2>2, <2>4, <3>2, <3>3, <3>4 DEF WayFits, EndFollows, Behind
    <2>5. CASE finished = FALSE
      <3>1. replay' = L
        <4>1. EndReplayed = <<>>
          BY <2>5 DEF EndReplayed
        <4> QED
          BY <1>3, <2>0, <4>1 DEF L
      <3>2. replay' \in Seq(Numbers \cup Signs)
        BY <2>0, <3>1
      <3>3. Behind(replay)' /\ EndFollows(replay, last)'
        BY <1>1, <2>1, <2>3, <3>1, SignsAreApart DEF Behind, EndFollows
      <3>4. ShownLast(queue', ShownLast(replay', last')) = Top'
        BY <1>0, <1>1, <2>0, <3>1 DEF ShownLast
      <3> QED
        BY <1>0, <1>1, <2>2, <2>5, <3>2, <3>3, <3>4 DEF WayFits, EndFollows, Behind
    <2> QED
      BY <1>0, <2>4, <2>5 DEF ChannelTypes
  <1> QED
    BY <1>0, <1>2, <1>3 DEF Attaches

(* A frame is handled: what comes after it follows from what is shown now.  *)
LEMMA TailFollows ==
  ASSUME NEW frames \in Seq(Numbers \cup Signs), frames # <<>>, NEW before, NEW after,
         EndFollows(frames, before), frames[1] = Top => after = Top
  PROVE  /\ Tail(frames) \in Seq(Numbers \cup Signs)
         /\ EndFollows(Tail(frames), after)
         /\ Behind(frames) => Behind(Tail(frames))
         /\ ShownLast(frames, before) = Top => ShownLast(Tail(frames), after) = Top
  <1>1. /\ Len(frames) \in Nat \ {0} /\ Tail(frames) \in Seq(Numbers \cup Signs)
        /\ Len(Tail(frames)) = Len(frames) - 1
        /\ \A i \in DOMAIN Tail(frames) : Tail(frames)[i] = frames[i + 1] /\ i + 1 \in DOMAIN frames /\ i \in Nat \ {0}
        /\ \A i \in DOMAIN Tail(frames) : i - 1 \in DOMAIN Tail(frames) => i # 1
        /\ \A i \in DOMAIN Tail(frames) : i # 1 => i - 1 \in DOMAIN Tail(frames)
    OBVIOUS
  <1>2. ASSUME NEW i \in DOMAIN Tail(frames), Tail(frames)[i] = Exit
        PROVE  finished /\ (IF i = 1 THEN after ELSE Tail(frames)[i - 1]) = Top
    <2>1. finished /\ frames[i] = Top
      <3>1. frames[i + 1] = Exit /\ i + 1 \in DOMAIN frames /\ i + 1 # 1 /\ (i + 1) - 1 = i
        BY <1>1, <1>2
      <3> QED
        BY <3>1 DEF EndFollows
    <2>2. CASE i = 1
      BY <2>1, <2>2
    <2>3. CASE i # 1
      <3>1. i - 1 \in DOMAIN Tail(frames) /\ Tail(frames)[i - 1] = frames[(i - 1) + 1] /\ (i - 1) + 1 = i
        BY <1>1, <2>3
      <3> QED
        BY <2>1, <2>3, <3>1
    <2> QED
      BY <2>2, <2>3
  <1>3. Behind(frames) => Behind(Tail(frames))
    BY <1>1 DEF Behind
  <1>4. ASSUME ShownLast(frames, before) = Top PROVE ShownLast(Tail(frames), after) = Top
    <2>1. frames[Len(frames)] = Top
      BY <1>4 DEF ShownLast
    <2>2. CASE Len(frames) = 1
      <3>1. Tail(frames) = <<>>
        BY <1>1, <2>2
      <3> QED
        BY <2>1, <2>2, <3>1 DEF ShownLast
    <2>3. CASE Len(frames) # 1
      <3>1. Len(Tail(frames)) \in DOMAIN Tail(frames) /\ Tail(frames) # <<>> /\ Len(Tail(frames)) + 1 = Len(frames)
        BY <1>1, <2>3
      <3> QED
        BY <1>1, <2>1, <3>1 DEF ShownLast
    <2> QED
      BY <2>2, <2>3
  <1> QED
    BY <1>1, <1>2, <1>3, <1>4 DEF EndFollows

(* Nothing is on the way to a client that has to attach again.              *)
LEMMA DetachedWay ==
  ASSUME ChannelTypes, WayFits, Detached, UNCHANGED <<nextSeq, finished>>,
         last' \in Nat, last' <= Top, view' = "ended" => finished /\ last' = Top
  PROVE  /\ replay' \in Seq(Numbers \cup Signs) /\ queue' \in Seq(Numbers \cup Signs)
         /\ socket' = "none" /\ registered' = FALSE /\ overflowed' = FALSE
         /\ WayFits'
  <1>1. /\ socket' = "none" /\ registered' = FALSE /\ overflowed' = FALSE /\ replay' = <<>> /\ queue' = <<>>
        /\ Top' = Top
    BY DEF Detached, Top
  <1>2. /\ Behind(replay)' /\ EndFollows(replay, last)' /\ Behind(queue)'
        /\ EndFollows(queue, ShownLast(replay, last))'
    BY <1>1 DEF Behind, EndFollows
  <1>3. WayFits'
    BY <1>1, <1>2 DEF WayFits
  <1> QED
    BY <1>1, <1>3

(* What a step of the client may leave behind.                              *)
ClientTypes ==
  /\ socket \in {"none", "opening", "serving"}
  /\ replay \in Seq(Numbers \cup Signs) /\ queue \in Seq(Numbers \cup Signs)
  /\ registered \in BOOLEAN /\ overflowed \in BOOLEAN
  /\ view \in {"closed", "connecting", "connected", "ended"}
  /\ from \in Nat /\ last \in Nat

LEMMA ShowsWay ==
  ASSUME ChannelTypes, WayFits, UNCHANGED <<nextSeq, finished>>, socket = "serving",
         NEW n \in Numbers, n <= Top, ShowsOutput(n), NEW restReplay, NEW restQueue,
         socket' = "serving" => replay' = restReplay /\ queue' = restQueue,
         \/ replay # <<>> /\ n = replay[1] /\ restReplay = Tail(replay) /\ restQueue = queue
         \/ replay = <<>> /\ queue # <<>> /\ n = queue[1] /\ restReplay = <<>> /\ restQueue = Tail(queue)
  PROVE  ClientTypes' /\ WayFits'
  <1>0. n \in Nat \ {0} /\ last \in Nat /\ last <= Top /\ Top \in Nat /\ Top' = Top /\ view # "ended"
    BY SignsAreApart DEF ChannelTypes, WayFits, Top
  <1>1. CASE Resyncs
    <2>1. Detached /\ last' = 0 /\ from' = 0 /\ view' = "connecting"
      BY <1>1 DEF Resyncs
    <2> QED
      BY <1>0, <2>1, DetachedWay DEF ClientTypes
  <1>2. CASE /\ UNCHANGED <<socket, registered, overflowed>> /\ view' \in {view, "connected"}
             /\ last' \in Nat /\ last' <= Top /\ from' \in Nat /\ (n = Top => last' = Top)
    <2>1. replay' = restReplay /\ queue' = restQueue
      BY <1>2
    <2>2. /\ replay \in Seq(Numbers \cup Signs) /\ queue \in Seq(Numbers \cup Signs)
          /\ Behind(replay) /\ Behind(queue) /\ EndFollows(replay, last)
          /\ EndFollows(queue, ShownLast(replay, last))
          /\ (registered /\ ~overflowed) => ShownLast(queue, ShownLast(replay, last)) = Top
      BY DEF ChannelTypes, WayFits
    <2> DEFINE
      Rest(r, q) == /\ r \in Seq(Numbers \cup Signs) /\ q \in Seq(Numbers \cup Signs)
                    /\ Behind(r) /\ Behind(q) /\ EndFollows(r, last') /\ EndFollows(q, ShownLast(r, last'))
                    /\ (registered /\ ~overflowed) => ShownLast(q, ShownLast(r, last')) = Top
    <2>3. ASSUME replay # <<>> /\ n = replay[1] /\ restReplay = Tail(replay) /\ restQueue = queue
          PROVE  Rest(restReplay, restQueue)
      <3>1. /\ Tail(replay) \in Seq(Numbers \cup Signs) /\ EndFollows(Tail(replay), last') /\ Behind(Tail(replay))
            /\ ShownLast(replay, last) = Top => ShownLast(Tail(replay), last') = Top
        BY <1>2, <2>2, <2>3, TailFollows
      <3>2. EndFollows(queue, ShownLast(Tail(replay), last'))
        BY <2>2, <3>1 DEF EndFollows
      <3>3. (registered /\ ~overflowed) => ShownLast(queue, ShownLast(Tail(replay), last')) = Top
        BY <2>2, <3>1 DEF ShownLast
      <3>4. Rest(restReplay, restQueue)
        BY <2>2, <2>3, <3>1, <3>2, <3>3
      <3> QED
        BY <3>4
    <2>4. ASSUME replay = <<>> /\ queue # <<>> /\ n = queue[1] /\ restReplay = <<>> /\ restQueue = Tail(queue)
          PROVE  Rest(restReplay, restQueue)
      <3>1. ShownLast(replay, last) = last /\ ShownLast(<<>>, last') = last'
        BY <2>4 DEF ShownLast
      <3>2. /\ Tail(queue) \in Seq(Numbers \cup Signs) /\ EndFollows(Tail(queue), last') /\ Behind(Tail(queue))
            /\ ShownLast(queue, last) = Top => ShownLast(Tail(queue), last') = Top
        BY <1>2, <2>2, <2>4, <3>1, TailFollows
      <3>3. <<>> \in Seq(Numbers \cup Signs) /\ Behind(<<>>) /\ EndFollows(<<>>, last')
        BY DEF Behind, EndFollows
      <3>4. Rest(restReplay, restQueue)
        BY <2>2, <2>4, <3>1, <3>2, <3>3
      <3> QED
        BY <3>4
    <2>5. Rest(restReplay, restQueue)
      BY <2>3, <2>4
    <2>6. WayFits'
      BY <1>0, <1>2, <2>1, <2>5 DEF WayFits, Behind, EndFollows
    <2>7. registered' \in BOOLEAN /\ overflowed' \in BOOLEAN
      BY <1>2 DEF ChannelTypes
    <2> QED
      BY <1>2, <2>1, <2>5, <2>6, <2>7 DEF ClientTypes, ChannelTypes
  <1>3. CASE n <= last
    BY <1>0, <1>2, <1>3 DEF ShowsOutput, ChannelTypes
  <1>4. CASE n > last /\ last # 0 /\ n # last + 1
    BY <1>0, <1>1, <1>4 DEF ShowsOutput
  <1>5. CASE ~(n <= last) /\ ~(n > last /\ last # 0 /\ n # last + 1)
    BY <1>0, <1>2, <1>5 DEF ShowsOutput, ChannelTypes
  <1> QED
    BY <1>3, <1>4, <1>5

LEMMA HandlesWay ==
  ASSUME ChannelTypes, WayFits, UNCHANGED <<nextSeq, finished>>, socket = "serving",
         NEW event, NEW restReplay, NEW restQueue, Handles(event, restReplay, restQueue),
         \/ replay # <<>> /\ event = replay[1] /\ restReplay = Tail(replay) /\ restQueue = queue
         \/ replay = <<>> /\ queue # <<>> /\ event = queue[1] /\ restReplay = <<>> /\ restQueue = Tail(queue)
  PROVE  ClientTypes' /\ WayFits'
  <1>1. /\ event \in Numbers \cup Signs
        /\ event \in Numbers => event <= Top
        /\ event = Exit => finished /\ last = Top
    <2>1. CASE replay # <<>> /\ event = replay[1]
      <3>1. 1 \in DOMAIN replay /\ replay[1] \in Numbers \cup Signs
        BY <2>1 DEF ChannelTypes
      <3> QED
        BY <2>1, <3>1 DEF WayFits, Behind, EndFollows
    <2>2. CASE replay = <<>> /\ queue # <<>> /\ event = queue[1]
      <3>1. 1 \in DOMAIN queue /\ queue[1] \in Numbers \cup Signs /\ ShownLast(replay, last) = last
        BY <2>2 DEF ChannelTypes, ShownLast
      <3> QED
        BY <2>2, <3>1 DEF WayFits, Behind, EndFollows
    <2> QED
      BY <2>1, <2>2
  <1>2. last \in Nat /\ last <= Top /\ Top \in Nat /\ from \in Nat
    BY DEF ChannelTypes, WayFits, Top
  <1>3. CASE event = Exit
    <2>1. Detached /\ view' = "ended" /\ UNCHANGED <<from, last>>
      BY <1>3, SignsAreApart DEF Handles
    <2> QED
      BY <1>1, <1>2, <1>3, <2>1, DetachedWay DEF ClientTypes
  <1>4. CASE event \in {Resync, Overflow}
    <2>1. Detached /\ last' = 0 /\ from' = 0 /\ view' = "connecting"
      BY <1>4, SignsAreApart DEF Handles, Resyncs
    <2> QED
      BY <1>2, <2>1, DetachedWay DEF ClientTypes
  <1>5. CASE event \in Numbers
    <2>1. ShowsOutput(event) /\ (socket' = "serving" => replay' = restReplay /\ queue' = restQueue)
      BY <1>5, SignsAreApart DEF Handles
    <2> QED
      BY <1>1, <1>5, <2>1, ShowsWay
  <1> QED
    BY <1>1, <1>3, <1>4, <1>5 DEF Signs

LEMMA ChannelInvNext ==
  ASSUME ChannelInv, [ChannelNext]_channelVars
  PROVE  ChannelInv'
  <1>0. ChannelTypes /\ WindowFits /\ WayFits
    BY DEF ChannelInv
  <1>1. CASE Outputs
    <2>1. /\ nextSeq \in Nat \ {0} /\ nextSeq' = nextSeq + 1 /\ nextSeq \in Numbers
          /\ UNCHANGED <<finished, socket, replay, registered, view, from, last>> /\ Published(nextSeq)
      BY <1>0, <1>1, TerminalStreamAssumption DEF Outputs, ChannelTypes, Numbers
    <2>2. queue' \in Seq(Numbers \cup Signs) /\ overflowed' \in BOOLEAN
      <3>1. PICK e \in {nextSeq, Overflow} :
              \/ UNCHANGED <<queue, overflowed>>
              \/ overflowed' \in BOOLEAN /\ queue' = Append(queue, e)
        BY <1>0, <2>1, PublishedEffect
      <3>2. e \in Numbers \cup Signs /\ queue \in Seq(Numbers \cup Signs) /\ overflowed \in BOOLEAN
        BY <1>0, <2>1, <3>1, SignsAreApart DEF ChannelTypes
      <3>3. CASE UNCHANGED <<queue, overflowed>>
        BY <3>2, <3>3
      <3>4. CASE overflowed' \in BOOLEAN /\ queue' = Append(queue, e)
        BY <3>2, <3>4
      <3> QED
        BY <3>1, <3>3, <3>4
    <2>3. window' \in Seq(Numbers) /\ WindowFits' /\ WayFits'
      BY <1>1, WindowNext, OutputsWay
    <2>4. nextSeq' \in Nat \ {0}
      BY <2>1
    <2>5. ChannelTypes'
      BY <1>0, <2>1, <2>2, <2>3, <2>4, Zenon DEF ChannelTypes
    <2> QED
      BY <2>3, <2>5 DEF ChannelInv
  <1>2. CASE Finishes
    <2>1. /\ UNCHANGED <<window, nextSeq, socket, replay, view, from, last>> /\ Published(Exit)
          /\ finished' = TRUE /\ registered' = FALSE
      BY <1>2 DEF Finishes
    <2>2. queue' \in Seq(Numbers \cup Signs) /\ overflowed' \in BOOLEAN
      <3>1. PICK e \in {Exit, Overflow} :
              \/ UNCHANGED <<queue, overflowed>>
              \/ overflowed' \in BOOLEAN /\ queue' = Append(queue, e)
        BY <1>0, <2>1, PublishedEffect
      <3>2. e \in Numbers \cup Signs /\ queue \in Seq(Numbers \cup Signs) /\ overflowed \in BOOLEAN
        BY <1>0, <2>1, <3>1, SignsAreApart DEF ChannelTypes
      <3>3. CASE UNCHANGED <<queue, overflowed>>
        BY <3>2, <3>3
      <3>4. CASE overflowed' \in BOOLEAN /\ queue' = Append(queue, e)
        BY <3>2, <3>4
      <3> QED
        BY <3>1, <3>3, <3>4
    <2>3. WindowFits' /\ WayFits'
      BY <1>0, <1>2, <2>1, FinishesWay DEF WindowFits, Top
    <2>4. ChannelTypes'
      BY <1>0, <2>1, <2>2, Zenon DEF ChannelTypes
    <2> QED
      BY <2>3, <2>4 DEF ChannelInv
  <1>3. CASE Attaches
    <2>1. /\ socket' = "serving" /\ queue' = <<>> /\ overflowed' = FALSE
          /\ UNCHANGED <<window, nextSeq, finished, view, from, last>>
      BY <1>3 DEF Attaches
    <2>2. replay' \in Seq(Numbers \cup Signs) /\ registered' \in BOOLEAN /\ WayFits'
      BY <1>3, AttachesWay
    <2>3. WindowFits' /\ queue' \in Seq(Numbers \cup Signs)
      BY <1>0, <2>1 DEF WindowFits, Top
    <2>4. ChannelTypes'
      BY <1>0, <2>1, <2>2, <2>3, Zenon DEF ChannelTypes
    <2> QED
      BY <2>2, <2>3, <2>4 DEF ChannelInv
  <1>4. ASSUME UNCHANGED <<window, nextSeq, finished>>, ClientTypes', WayFits'
        PROVE  ChannelInv'
    <2>1. WindowFits'
      BY <1>0, <1>4 DEF WindowFits, Top
    <2>2. ChannelTypes'
      BY <1>0, <1>4, Zenon DEF ChannelTypes, ClientTypes
    <2> QED
      BY <1>4, <2>1, <2>2 DEF ChannelInv
  <1>5. CASE Receives
    <2>1. socket = "serving" /\ UNCHANGED <<window, nextSeq, finished>>
      BY <1>5 DEF Receives
    <2>2. CASE replay # <<>> /\ Handles(Head(replay), Tail(replay), queue)
      <3>1. Head(replay) = replay[1]
        BY <1>0, <2>2 DEF ChannelTypes
      <3> QED
        BY <1>0, <1>4, <2>1, <2>2, <3>1, HandlesWay
    <2>3. CASE replay = <<>> /\ queue # <<>> /\ Handles(Head(queue), <<>>, Tail(queue))
      <3>1. Head(queue) = queue[1]
        BY <1>0, <2>3 DEF ChannelTypes
      <3> QED
        BY <1>0, <1>4, <2>1, <2>3, <3>1, HandlesWay
    <2> QED
      BY <1>5, <2>2, <2>3 DEF Receives
  <1>6. CASE Breaks
    <2>1. Detached /\ UNCHANGED <<window, nextSeq, finished, view, from, last>> /\ view # "ended"
      BY <1>0, <1>6 DEF Breaks, WayFits
    <2>2. last \in Nat /\ last <= Top
      BY <1>0 DEF ChannelTypes, WayFits
    <2>3. ClientTypes' /\ WayFits'
      BY <1>0, <2>1, <2>2, DetachedWay DEF ClientTypes, ChannelTypes
    <2> QED
      BY <1>4, <2>1, <2>3
  <1>7. CASE Opens \/ Connects
    <2>1. /\ UNCHANGED <<window, nextSeq, finished, replay, queue, registered, overflowed, from, last>>
          /\ \/ view = "closed" /\ view' = "connecting" /\ socket' = socket
             \/ view # "ended" /\ view' = view /\ socket = "none" /\ socket' = "opening"
      BY <1>7 DEF Opens, Connects
    <2>2. ClientTypes'
      BY <1>0, <2>1 DEF ClientTypes, ChannelTypes
    <2>3. WayFits'
      BY <1>0, <2>1 DEF WayFits, Behind, EndFollows, Top
    <2> QED
      BY <1>4, <2>1, <2>2, <2>3
  <1>8. CASE UNCHANGED channelVars
    <2>1. UNCHANGED <<window, nextSeq, finished>> /\ ClientTypes'
      BY <1>0, <1>8 DEF channelVars, ClientTypes, ChannelTypes
    <2>2. WayFits'
      BY <1>0, <1>8 DEF channelVars, WayFits, Behind, EndFollows, Top
    <2> QED
      BY <1>4, <2>1, <2>2
  <1> QED
    BY <1>1, <1>2, <1>3, <1>5, <1>6, <1>7, <1>8 DEF ChannelNext

LEMMA ViewIsWhole == ChannelSpec => []EndedViewIsWhole
  <1>1. ChannelInv => EndedViewIsWhole
    BY DEF ChannelInv, WayFits, EndedViewIsWhole, Top
  <1> QED
    BY <1>1, ChannelInvInit, ChannelInvNext, PTL DEF ChannelSpec

-----------------------------------------------------------------------------
(***************************************************************************)
(* The command of an Agent, for any length of its output.                  *)
(***************************************************************************)
PipeEvents == {"output"} \cup Endings
Early == {"ready", "launching"}
Returned == {"returned", "ended"}

ExecTypes ==
  /\ worker \in {"none", "starting", "running", "gone"}
  /\ shutdown \in BOOLEAN /\ cut \in BOOLEAN /\ stopped \in BOOLEAN /\ sealed \in BOOLEAN
  /\ scheduled \in BOOLEAN /\ timer \in BOOLEAN /\ streamClosed \in BOOLEAN
  /\ produced \in Nat /\ collected \in Nat /\ resultText \in Nat /\ unsent \in Nat /\ published \in Nat
  /\ drained \in Nat \cup {None}
  /\ pipe \in Seq(PipeEvents) /\ held \in {"none"} \cup PipeEvents /\ ends \subseteq Endings
  /\ thread \in {"ready", "launching", "known", "waiting", "late", "closing", "finishing", "returned", "ended"}
  /\ result \in {"none", "exited", "timed_out", "cancelled", "failed", "lost"}
  /\ loopQueue \in Seq({"schedule", "drain"}) /\ loop \in {"runs", "closed"}

(* The pipe is output and then, when the worker is gone, its endings; as    *)
(* long as it is read, what is in it is what was not collected.             *)
OutputFirst(k) ==
  /\ \A i \in 1..k : pipe[i] = "output"
  /\ \A i \in (k + 1)..Len(pipe) : pipe[i] \in Endings
  /\ collected + (IF held = "output" THEN 1 ELSE 0) + k = produced

PipeFits ==
  /\ ~cut => \E k \in 0..Len(pipe) : OutputFirst(k)
  /\ (\E i \in DOMAIN pipe : pipe[i] # "output") => worker = "gone"
  /\ held \in Endings \/ ends # {} => worker = "gone" /\ held # "output" /\ collected = produced

(* Where the thread is, and what it has made of the output.                 *)
ThreadFits ==
  /\ thread \in Early => worker = "none"
  /\ worker = "none" => /\ thread \in Early \cup Returned /\ ~sealed
                        /\ pipe = <<>> /\ held = "none" /\ collected = 0 /\ produced = 0 /\ ends = {}
  /\ thread \in {"closing", "finishing"} => cut /\ worker = "gone"
  /\ thread = "finishing" \/ (thread \in Returned /\ worker # "none") => sealed
  /\ IF sealed THEN resultText = collected /\ cut ELSE resultText = 0
  /\ streamClosed => thread = "ended"
  /\ result = "exited" => thread \in Returned /\ "exit" \in ends /\ sealed

(* Whatever was collected is shown, on its way or due on the loop.          *)
ShownFits ==
  loop = "runs" =>
    /\ published + (IF drained = None THEN 0 ELSE drained) + unsent = collected
    /\ unsent # 0 => scheduled
    /\ scheduled => timer \/ \E i \in DOMAIN loopQueue : loopQueue[i] = "schedule"

ExecInv == ExecTypes /\ PipeFits /\ ThreadFits /\ ShownFits /\ StopIsHeard


LEMMA ExecInvInit == ExecInit => ExecInv
  <1> SUFFICES ASSUME ExecInit PROVE ExecInv
    OBVIOUS
  <1>1. ExecTypes
    <2>1. /\ shutdown = FALSE /\ cut = FALSE /\ stopped = FALSE /\ sealed = FALSE
          /\ scheduled = FALSE /\ timer = FALSE /\ streamClosed = FALSE
      BY DEF ExecInit
    <2>2. /\ worker = "none" /\ produced \in Nat /\ collected \in Nat /\ resultText \in Nat /\ unsent \in Nat
          /\ published \in Nat
          /\ drained \in Nat \cup {None} /\ held = "none" /\ ends \subseteq Endings /\ thread = "ready" /\ result = "none"
          /\ loop = "runs"
      BY DEF ExecInit
    <2>3. pipe \in Seq(PipeEvents) /\ loopQueue \in Seq({"schedule", "drain"})
      BY DEF ExecInit
    <2> QED
      BY <2>1, <2>2, <2>3, Zenon DEF ExecTypes
  <1>2. PipeFits
    <2>1. /\ pipe = <<>> /\ Len(pipe) = 0 /\ held = "none" /\ ends = {} /\ collected = 0 /\ produced = 0
      BY DEF ExecInit
    <2>2. OutputFirst(0)
      BY <2>1 DEF OutputFirst
    <2> QED
      BY <2>1, <2>2 DEF PipeFits, Endings
  <1>3. ThreadFits
    BY DEF ExecInit, ThreadFits, Early, Returned
  <1>4. ShownFits /\ StopIsHeard
    BY DEF ExecInit, ShownFits, StopIsHeard
  <1> QED
    BY <1>1, <1>2, <1>3, <1>4 DEF ExecInv

(* While the worker lives, the pipe holds only output.                      *)
LEMMA OnlyOutput ==
  ASSUME ExecTypes, PipeFits, worker # "gone"
  PROVE  /\ \A i \in DOMAIN pipe : pipe[i] = "output"
         /\ held \notin Endings /\ ends = {}
         /\ ~cut => OutputFirst(Len(pipe))
  <1>1. \A i \in DOMAIN pipe : pipe[i] = "output"
    BY DEF PipeFits
  <1>2. ASSUME ~cut PROVE OutputFirst(Len(pipe))
    <2>1. PICK k \in 0..Len(pipe) : OutputFirst(k)
      BY <1>2 DEF PipeFits
    <2>2. pipe \in Seq(PipeEvents) /\ Len(pipe) \in Nat /\ "output" \notin Endings
      BY DEF ExecTypes, Endings
    <2>3. k \in Nat /\ k <= Len(pipe)
      BY <2>2
    <2>4. ASSUME k # Len(pipe) PROVE FALSE
      <3>1. k + 1 \in DOMAIN pipe /\ k + 1 \in (k + 1)..Len(pipe)
        BY <2>2, <2>3, <2>4
      <3>2. pipe[k + 1] \in Endings /\ pipe[k + 1] = "output"
        BY <1>1, <2>1, <3>1 DEF OutputFirst
      <3> QED
        BY <2>2, <3>2
    <2> QED
      BY <2>1, <2>4
  <1> QED
    BY <1>1, <1>2 DEF PipeFits

(* What the worker adds comes after all that is in the pipe.                *)
LEMMA WorkerPipe ==
  ASSUME ExecTypes, PipeFits, worker # "gone", NEW added \in Seq(PipeEvents),
         pipe' = pipe \o added, UNCHANGED <<held, ends, collected, cut>>,
         \/ /\ added = <<"output">> /\ produced' = produced + 1 /\ worker' = worker
         \/ /\ \A i \in DOMAIN added : added[i] \in Endings
            /\ produced' = produced /\ (added = <<>> \/ worker' = "gone")
  PROVE  pipe' \in Seq(PipeEvents) /\ PipeFits'
  <1>1. /\ pipe \in Seq(PipeEvents) /\ Len(pipe) \in Nat /\ Len(added) \in Nat
        /\ pipe' \in Seq(PipeEvents) /\ Len(pipe') = Len(pipe) + Len(added)
        /\ \A i \in 1..Len(pipe) : pipe'[i] = pipe[i]
        /\ \A i \in (Len(pipe) + 1)..Len(pipe') : pipe'[i] = added[i - Len(pipe)] /\ i - Len(pipe) \in DOMAIN added
    BY DEF ExecTypes
  <1>2. /\ \A i \in DOMAIN pipe : pipe[i] = "output"
        /\ held \notin Endings /\ ends = {} /\ (~cut => OutputFirst(Len(pipe)))
        /\ collected \in Nat /\ produced \in Nat
    BY OnlyOutput DEF ExecTypes
  <1>3. held' \notin Endings /\ ends' = {}
    BY <1>2
  <1>4. CASE added = <<"output">> /\ produced' = produced + 1 /\ worker' = worker
    <2>1. Len(added) = 1 /\ added[1] = "output"
      BY <1>4
    <2>2. \A i \in 1..Len(pipe') : pipe'[i] = "output"
      BY <1>1, <1>2, <2>1
    <2>3. /\ Len(pipe) \in Nat /\ collected \in Nat /\ produced \in Nat /\ produced' = produced + 1
          /\ collected' = collected /\ held' = held /\ Len(pipe') = Len(pipe) + 1
      BY <1>1, <1>2, <1>4, <2>1
    <2>4. ASSUME ~cut' PROVE OutputFirst(Len(pipe))
      BY <1>2, <2>4
    <2>5. ASSUME ~cut' PROVE collected + (IF held = "output" THEN 1 ELSE 0) + Len(pipe) = produced
      BY <2>4, <2>5 DEF OutputFirst
    <2>6. ASSUME ~cut' PROVE collected' + (IF held' = "output" THEN 1 ELSE 0) + Len(pipe') = produced'
      BY <2>3, <2>5, <2>6
    <2>7. (Len(pipe') + 1)..Len(pipe') = {} /\ Len(pipe') \in 0..Len(pipe')
      BY <2>3
    <2>8. ASSUME ~cut' PROVE OutputFirst(Len(pipe))'
      BY <2>2, <2>6, <2>7, <2>8 DEF OutputFirst
    <2>9. ~(\E i \in DOMAIN pipe' : pipe'[i] # "output")
      BY <1>1, <2>2
    <2> QED
      BY <1>1, <1>3, <2>7, <2>8, <2>9 DEF PipeFits
  <1>5. CASE /\ \A i \in DOMAIN added : added[i] \in Endings
             /\ produced' = produced /\ (added = <<>> \/ worker' = "gone")
    <2>0. PICK n \in Nat : n = Len(pipe)
      BY <1>1
    <2>1. ASSUME ~cut' PROVE OutputFirst(n)'
      <3>0. OutputFirst(n)
        BY <1>2, <2>0, <2>1
      <3>1. collected' + (IF held' = "output" THEN 1 ELSE 0) + n = produced'
        BY <1>5, <3>0 DEF OutputFirst
      <3>2. \A i \in 1..n : pipe'[i] = "output"
        BY <1>1, <1>2, <2>0
      <3>3. \A i \in (n + 1)..Len(pipe') : pipe'[i] \in Endings
        BY <1>1, <1>5, <2>0
      <3> QED
        BY <3>1, <3>2, <3>3, Zenon DEF OutputFirst
    <2>2. n \in 0..Len(pipe')
      BY <1>1, <2>0
    <2>3. (\E i \in DOMAIN pipe' : pipe'[i] # "output") => worker' = "gone"
      <3>1. CASE added = <<>>
        <4>1. Len(added) = 0
          BY <3>1
        <4> QED
          BY <1>1, <1>2, <4>1
      <3> QED
        BY <1>5, <3>1
    <2>4. ~cut' => \E k \in 0..Len(pipe') : OutputFirst(k)'
      BY <2>1, <2>2
    <2> QED
      BY <1>1, <1>3, <2>3, <2>4 DEF PipeFits
  <1> QED
    BY <1>4, <1>5

LEMMA ReadsPipe ==
  ASSUME ExecTypes, PipeFits, ReadsOutput
  PROVE  pipe' \in Seq(PipeEvents) /\ held' \in PipeEvents /\ PipeFits'
  <1>1. /\ pipe \in Seq(PipeEvents) /\ Len(pipe) \in Nat \ {0} /\ pipe' \in Seq(PipeEvents)
        /\ Len(pipe') = Len(pipe) - 1 /\ held' = pipe[1] /\ pipe[1] \in PipeEvents
        /\ \A i \in 1..Len(pipe') : pipe'[i] = pipe[i + 1]
    BY DEF ExecTypes, ReadsOutput
  <1>2. /\ held = "none" /\ ~cut /\ UNCHANGED <<worker, produced, cut, ends, collected>>
        /\ collected \in Nat /\ produced \in Nat /\ "output" \notin Endings /\ "none" \notin Endings
    BY DEF ExecTypes, ReadsOutput, WorkerKeeps, threadVars, Endings
  <1>3. PICK k \in 0..Len(pipe) : OutputFirst(k)
    BY <1>2 DEF PipeFits
  <1>4. /\ k \in Nat /\ k <= Len(pipe) /\ collected + k = produced
        /\ \A i \in 1..k : pipe[i] = "output"
        /\ \A i \in (k + 1)..Len(pipe) : pipe[i] \in Endings
    BY <1>1, <1>2, <1>3 DEF OutputFirst
  <1>5. (\E i \in DOMAIN pipe' : pipe'[i] # "output") => worker' = "gone"
    <2>1. \A i \in DOMAIN pipe' : i + 1 \in DOMAIN pipe /\ pipe'[i] = pipe[i + 1]
      BY <1>1
    <2> QED
      BY <1>2, <2>1 DEF PipeFits
  <1>6. CASE k = 0
    <2>1. held' \in Endings /\ collected = produced /\ worker = "gone"
      <3>1. pipe[1] \in Endings
        BY <1>1, <1>4, <1>6
      <3>2. 1 \in DOMAIN pipe /\ pipe[1] # "output"
        BY <1>1, <1>2, <3>1
      <3> QED
        BY <1>1, <1>2, <1>4, <1>6, <3>1, <3>2 DEF PipeFits
    <2>2. OutputFirst(0)'
      <3>1. \A i \in (0 + 1)..Len(pipe') : pipe'[i] \in Endings
        BY <1>1, <1>4, <1>6
      <3>2. collected' + (IF held' = "output" THEN 1 ELSE 0) + 0 = produced'
        BY <1>2, <2>1
      <3> QED
        BY <3>1, <3>2 DEF OutputFirst
    <2>3. 0 \in 0..Len(pipe')
      BY <1>1
    <2> QED
      BY <1>1, <1>2, <1>5, <2>1, <2>2, <2>3 DEF PipeFits
  <1>7. CASE k # 0
    <2>1. held' = "output" /\ collected # produced
      BY <1>1, <1>2, <1>4, <1>7
    <2>2. ends = {} /\ held' \notin Endings
      BY <1>2, <2>1 DEF PipeFits
    <2>3. PICK n \in Nat : n = k - 1
      BY <1>4, <1>7
    <2>4. OutputFirst(n)'
      <3>1. \A i \in 1..n : pipe'[i] = "output"
        BY <1>1, <1>4, <2>3
      <3>2. \A i \in (n + 1)..Len(pipe') : pipe'[i] \in Endings
        BY <1>1, <1>4, <2>3
      <3>3. collected' + (IF held' = "output" THEN 1 ELSE 0) + n = produced'
        BY <1>2, <1>4, <2>1, <2>3
      <3> QED
        BY <3>1, <3>2, <3>3 DEF OutputFirst
    <2>5. n \in 0..Len(pipe')
      BY <1>1, <1>4, <2>3
    <2> QED
      BY <1>1, <1>2, <1>5, <2>1, <2>2, <2>4, <2>5 DEF PipeFits
  <1> QED
    BY <1>6, <1>7

LEMMA ObservesPipe ==
  ASSUME ExecTypes, PipeFits, ThreadFits, ObservesEnd
  PROVE  /\ collected' \in Nat /\ ends' \subseteq Endings
         /\ PipeFits'
  <1>1. /\ held # "none" /\ held' = "none" /\ UNCHANGED <<worker, pipe, produced, cut, sealed>>
        /\ collected \in Nat /\ produced \in Nat /\ "output" \notin Endings /\ "none" \notin Endings
        /\ held \in PipeEvents
    BY DEF ExecTypes, ObservesEnd, Endings
  <1>2. (\E i \in DOMAIN pipe' : pipe'[i] # "output") => worker' = "gone"
    BY <1>1 DEF PipeFits
  <1>3. CASE held = "output"
    <2>1. ends' = ends /\ ends = {} /\ ends \subseteq Endings /\ held' \notin Endings
      BY <1>1, <1>3 DEF ObservesEnd, PipeFits, ExecTypes
    <2>2. CASE sealed
      <3>1. cut' /\ collected' = collected
        BY <1>1, <1>3, <2>2 DEF ObservesEnd, Collects, ThreadFits
      <3> QED
        BY <1>1, <1>2, <2>1, <3>1 DEF PipeFits
    <2>3. CASE ~sealed
      <3>1. collected' = collected + 1
        BY <1>1, <1>3, <2>3 DEF ObservesEnd, Collects
      <3>2. ASSUME ~cut' PROVE \E k \in 0..Len(pipe') : OutputFirst(k)'
        <4>1. PICK k \in 0..Len(pipe) : OutputFirst(k)
          BY <1>1, <3>2 DEF PipeFits
        <4>2. collected + 1 + k = produced /\ k \in Int
          BY <1>3, <4>1 DEF OutputFirst
        <4>3. collected' + (IF held' = "output" THEN 1 ELSE 0) + k = produced'
          BY <1>1, <3>1, <4>2
        <4>4. OutputFirst(k)'
          BY <1>1, <4>1, <4>3 DEF OutputFirst
        <4> QED
          BY <1>1, <4>1, <4>4
      <3> QED
        BY <1>1, <1>2, <2>1, <3>1, <3>2 DEF PipeFits
    <2> QED
      BY <2>2, <2>3
  <1>4. CASE held # "output"
    <2>1. held \in Endings /\ collected' = collected
      BY <1>1, <1>4 DEF PipeEvents, ObservesEnd
    <2>2. ends' = ends \cup (IF cut /\ held = "lost" THEN {} ELSE {held}) /\ ends \subseteq Endings
      BY <1>1, <1>4 DEF ObservesEnd, ExecTypes
    <2>3. ends' \subseteq Endings
      BY <2>1, <2>2
    <2>4. worker' = "gone" /\ held' # "output" /\ collected' = produced'
      BY <1>1, <2>1 DEF PipeFits
    <2>5. ASSUME ~cut' PROVE \E k \in 0..Len(pipe') : OutputFirst(k)'
      <3>1. PICK k \in 0..Len(pipe) : OutputFirst(k)
        BY <1>1, <2>5 DEF PipeFits
      <3>2. OutputFirst(k)'
        BY <1>1, <1>4, <2>1, <3>1 DEF OutputFirst
      <3> QED
        BY <1>1, <3>1, <3>2
    <2> QED
      BY <1>1, <1>2, <2>1, <2>3, <2>4, <2>5 DEF PipeFits
  <1> QED
    BY <1>3, <1>4

(* The worker: CommandStarts, CommandWrites, CommandEnds.                   *)
LEMMA WorkerInv ==
  ASSUME ExecInv, CommandStarts \/ CommandWrites \/ CommandEnds
  PROVE  ExecInv'
  <1>0. ExecTypes /\ PipeFits /\ ThreadFits /\ ShownFits /\ StopIsHeard
    BY DEF ExecInv
  <1>1. /\ worker \in {"starting", "running"} /\ worker' \in {"running", "gone"}
        /\ UNCHANGED <<shutdown, held, cut, threadVars, collected, unsent, scheduled, loopQueue, loop, loopVars>>
    BY DEF CommandStarts, CommandWrites, CommandEnds, WorkerKeeps
  <1>2. \E added \in Seq(PipeEvents) :
          /\ pipe' = pipe \o added
          /\ \/ /\ added = <<"output">> /\ produced' = produced + 1 /\ worker' = worker
             \/ /\ \A i \in DOMAIN added : added[i] \in Endings
                /\ produced' = produced /\ (added = <<>> \/ worker' = "gone")
    <2>1. pipe \in Seq(PipeEvents)
      BY <1>0 DEF ExecTypes
    <2>2. CASE pipe' = pipe /\ produced' = produced
      <3>1. <<>> \in Seq(PipeEvents) /\ pipe' = pipe \o <<>> /\ \A i \in DOMAIN <<>> : FALSE
        BY <2>1, <2>2
      <3> QED
        BY <2>2, <3>1
    <2>3. CASE CommandWrites
      <3>1. <<"output">> \in Seq(PipeEvents) /\ pipe' = pipe \o <<"output">>
        BY <2>1, <2>3 DEF CommandWrites, PipeEvents
      <3> QED
        BY <2>3, <3>1 DEF CommandWrites
    <2>4. ASSUME NEW added \in {<<"start_failed", "exit", "lost">>, <<"exit", "lost">>, <<"lost">>},
                 pipe' = pipe \o added, produced' = produced, worker' = "gone"
          PROVE  /\ added \in Seq(PipeEvents) /\ \A i \in DOMAIN added : added[i] \in Endings
      <3>1. CASE added = <<"lost">>
        BY <3>1 DEF PipeEvents, Endings
      <3>2. CASE added = <<"exit", "lost">>
        BY <3>2 DEF PipeEvents, Endings
      <3>3. CASE added = <<"start_failed", "exit", "lost">>
        BY <3>3 DEF PipeEvents, Endings
      <3> QED
        BY <2>4, <3>1, <3>2, <3>3
    <2>5. CASE CommandStarts
      BY <2>2, <2>4, <2>5 DEF CommandStarts
    <2>6. CASE CommandEnds
      BY <2>4, <2>6 DEF CommandEnds
    <2> QED
      BY <2>3, <2>5, <2>6
  <1>3. pipe' \in Seq(PipeEvents) /\ PipeFits'
    BY <1>0, <1>1, <1>2, WorkerPipe DEF threadVars
  <1>4. produced' \in Nat
    BY <1>0, <1>2 DEF ExecTypes
  <1>5. ExecTypes'
    <2>1. /\ shutdown' = shutdown /\ held' = held /\ cut' = cut /\ thread' = thread /\ stopped' = stopped
          /\ ends' = ends /\ sealed' = sealed /\ result' = result /\ resultText' = resultText
          /\ collected' = collected /\ unsent' = unsent /\ scheduled' = scheduled /\ loopQueue' = loopQueue
          /\ loop' = loop /\ timer' = timer /\ streamClosed' = streamClosed /\ drained' = drained
          /\ published' = published /\ worker' \in {"none", "starting", "running", "gone"}
      BY <1>1 DEF threadVars, loopVars
    <2> QED
      BY <1>0, <1>3, <1>4, <2>1 DEF ExecTypes
  <1>6. ThreadFits'
    BY <1>0, <1>1 DEF ThreadFits, Early, Returned, threadVars, loopVars
  <1>7. ShownFits' /\ StopIsHeard'
    BY <1>0, <1>1 DEF ShownFits, StopIsHeard, threadVars, loopVars
  <1> QED
    BY <1>3, <1>5, <1>6, <1>7 DEF ExecInv

LEMMA ReadsInv ==
  ASSUME ExecInv, ReadsOutput
  PROVE  ExecInv'
  <1>0. ExecTypes /\ PipeFits /\ ThreadFits /\ ShownFits /\ StopIsHeard
    BY DEF ExecInv
  <1>1. /\ pipe # <<>>
        /\ UNCHANGED <<worker, shutdown, produced, cut, threadVars, collected, unsent, scheduled, loopQueue, loop, loopVars>>
    BY DEF ReadsOutput, WorkerKeeps
  <1>2. pipe' \in Seq(PipeEvents) /\ held' \in PipeEvents /\ PipeFits'
    BY <1>0, ReadsPipe
  <1>3. ExecTypes'
    <2>1. /\ shutdown' = shutdown /\ worker' = worker /\ cut' = cut /\ thread' = thread /\ stopped' = stopped
          /\ ends' = ends /\ sealed' = sealed /\ result' = result /\ resultText' = resultText
          /\ collected' = collected /\ unsent' = unsent /\ scheduled' = scheduled /\ loopQueue' = loopQueue
          /\ loop' = loop /\ timer' = timer /\ streamClosed' = streamClosed /\ drained' = drained
          /\ published' = published /\ produced' = produced /\ held' \in {"none"} \cup PipeEvents
      BY <1>1, <1>2 DEF threadVars, loopVars
    <2> QED
      BY <1>0, <1>2, <2>1 DEF ExecTypes
  <1>4. ThreadFits'
    BY <1>0, <1>1 DEF ThreadFits, Early, Returned, threadVars, loopVars
  <1>5. ShownFits' /\ StopIsHeard'
    BY <1>0, <1>1 DEF ShownFits, StopIsHeard, threadVars, loopVars
  <1> QED
    BY <1>2, <1>3, <1>4, <1>5 DEF ExecInv

(* What is collected is counted into the window that is due.                *)
LEMMA ObservesShown ==
  ASSUME ExecTypes, ThreadFits, ShownFits, ObservesEnd
  PROVE  /\ unsent' \in Nat /\ scheduled' \in BOOLEAN /\ loopQueue' \in Seq({"schedule", "drain"})
         /\ ShownFits'
  <1>0. /\ unsent \in Nat /\ scheduled \in BOOLEAN /\ loopQueue \in Seq({"schedule", "drain"}) /\ collected \in Nat
        /\ published \in Nat /\ (drained # None => drained \in Nat) /\ loop \in {"runs", "closed"}
        /\ UNCHANGED <<loop, timer, streamClosed, drained, published>>
    BY DEF ExecTypes, ObservesEnd, loopVars
  <1>1. CASE UNCHANGED <<collected, unsent, scheduled, loopQueue>>
    BY <1>0, <1>1 DEF ShownFits
  <1>2. CASE Collects /\ collected' = collected + 1 /\ Emits
    <2>1. ~streamClosed \/ loop = "closed" \/ thread = "ended"
      BY DEF ThreadFits
    <2>2. CASE streamClosed
      <3>1. UNCHANGED <<unsent, scheduled, loopQueue>> /\ thread = "ended" /\ ~sealed
        BY <1>2, <2>2 DEF Emits, Collects, ThreadFits
      <3>2. worker = "none" /\ held = "none"
        BY <3>1 DEF ThreadFits, Returned
      <3> QED
        BY <3>2 DEF ObservesEnd
    <2>3. CASE ~streamClosed /\ loop = "runs"
      <3>1. unsent' = unsent + 1 /\ scheduled' = TRUE
            /\ loopQueue' = IF scheduled THEN loopQueue ELSE Append(loopQueue, "schedule")
        <4>1. scheduled' = (loop = "runs" \/ scheduled) /\ unsent' = (IF loop = "runs" \/ scheduled THEN unsent + 1 ELSE 0)
          BY <1>2, <2>3 DEF Emits
        <4>2. (loop = "runs" \/ scheduled) = TRUE
          BY <2>3
        <4>3. scheduled' = TRUE /\ unsent' = unsent + 1
          BY <4>1, <4>2, Zenon
        <4> QED
          BY <1>2, <2>3, <4>3 DEF Emits, Woken
      <3>2. timer' \/ \E i \in DOMAIN loopQueue' : loopQueue'[i] = "schedule"
        <4>1. CASE scheduled
          BY <1>0, <2>3, <3>1, <4>1 DEF ShownFits
        <4>2. CASE ~scheduled
          <5>1. Len(loopQueue) + 1 \in DOMAIN loopQueue' /\ loopQueue'[Len(loopQueue) + 1] = "schedule"
            BY <1>0, <3>1, <4>2
          <5> QED
            BY <5>1
        <4> QED
          BY <4>1, <4>2
      <3>3. published' + (IF drained' = None THEN 0 ELSE drained') + unsent' = collected'
        <4>1. published + (IF drained = None THEN 0 ELSE drained) + unsent = collected
          BY <2>3 DEF ShownFits
        <4> QED
          BY <1>0, <1>2, <3>1, <4>1
      <3>4. loopQueue' \in Seq({"schedule", "drain"})
        BY <1>0, <3>1
      <3> QED
        BY <1>0, <3>1, <3>2, <3>3, <3>4 DEF ShownFits
    <2>4. CASE ~streamClosed /\ loop = "closed"
      <3>1. loop' # "runs" /\ loopQueue' = loopQueue
        BY <1>0, <1>2, <2>4 DEF Emits, Woken
      <3>2. unsent' \in Nat
        BY <1>0, <1>2, <2>4 DEF Emits
      <3>3. scheduled' \in BOOLEAN
        <4>1. scheduled' = (loop = "runs" \/ scheduled) /\ (loop = "runs" \/ scheduled) \in BOOLEAN
          BY <1>2, <2>4 DEF Emits
        <4> QED
          BY <4>1, Zenon
      <3> QED
        BY <1>0, <3>1, <3>2, <3>3 DEF ShownFits
    <2> QED
      BY <1>0, <2>2, <2>3, <2>4
  <1> QED
    BY <1>1, <1>2 DEF ObservesEnd

LEMMA ObservesInv ==
  ASSUME ExecInv, ObservesEnd
  PROVE  ExecInv'
  <1>0. ExecTypes /\ PipeFits /\ ThreadFits /\ ShownFits /\ StopIsHeard
    BY DEF ExecInv
  <1>1. /\ held # "none" /\ held' = "none"
        /\ UNCHANGED <<worker, shutdown, produced, pipe, cut, thread, stopped, sealed, result, resultText, loop, loopVars>>
    BY DEF ObservesEnd
  <1>2. collected' \in Nat /\ ends' \subseteq Endings /\ PipeFits'
    BY <1>0, ObservesPipe
  <1>3. unsent' \in Nat /\ scheduled' \in BOOLEAN /\ loopQueue' \in Seq({"schedule", "drain"}) /\ ShownFits'
    BY <1>0, ObservesShown
  <1>4. ExecTypes'
    <2>1. /\ shutdown' = shutdown /\ worker' = worker /\ cut' = cut /\ thread' = thread /\ stopped' = stopped
          /\ pipe' = pipe /\ sealed' = sealed /\ result' = result /\ resultText' = resultText
          /\ produced' = produced /\ held' \in {"none"} \cup PipeEvents
          /\ loop' = loop /\ timer' = timer /\ streamClosed' = streamClosed /\ drained' = drained
          /\ published' = published
      BY <1>1 DEF loopVars
    <2> QED
      BY <1>0, <1>2, <1>3, <2>1 DEF ExecTypes
  <1>5. ThreadFits'
    <2>1. worker # "none" /\ ends \subseteq ends' /\ (sealed => collected' = collected)
      BY <1>0, <1>1 DEF ThreadFits, ObservesEnd, Collects
    <2> QED
      BY <1>0, <1>1, <2>1 DEF ThreadFits, Early, Returned, loopVars
  <1>6. StopIsHeard'
    BY <1>0, <1>1 DEF StopIsHeard
  <1> QED
    BY <1>2, <1>3, <1>4, <1>5, <1>6 DEF ExecInv

(* A step of the thread or of a stop leaves the pipe and what is collected  *)
(* alone; a worker that is begun has written nothing, one that was closed   *)
(* is not read any more.                                                    *)
LEMMA PipeKept ==
  ASSUME ExecTypes, PipeFits, ThreadFits,
         UNCHANGED <<produced, pipe, held, collected, ends>>,
         \/ UNCHANGED <<worker, cut>>
         \/ worker = "none" /\ cut' = cut
         \/ worker' = "gone" /\ cut' = TRUE
  PROVE  PipeFits'
  <1>1. CASE UNCHANGED <<worker, cut>>
    BY <1>1 DEF PipeFits, OutputFirst
  <1>2. CASE worker' = "gone" /\ cut' = TRUE
    BY <1>2 DEF PipeFits
  <1>3. CASE worker = "none" /\ cut' = cut
    <2>1. pipe' = <<>> /\ held' = "none" /\ ends' = {} /\ "none" \notin Endings
      BY <1>3 DEF ThreadFits, Endings
    <2>2. ~cut' => \E k \in 0..Len(pipe') : OutputFirst(k)'
      BY <1>3 DEF PipeFits, OutputFirst
    <2> QED
      BY <2>1, <2>2 DEF PipeFits
  <1> QED
    BY <1>1, <1>2, <1>3

LEMMA ShutDownEffect ==
  ASSUME ExecTypes, ShutDown
  PROVE  shutdown' \in BOOLEAN /\ (worker \in {"starting", "running"} \/ shutdown => shutdown')
  <1>1. shutdown' = (shutdown \/ worker \in {"starting", "running"})
    BY DEF ShutDown
  <1>2. (shutdown \/ worker \in {"starting", "running"}) \in BOOLEAN
    OBVIOUS
  <1> QED
    BY <1>1, <1>2, Zenon

(* The thread of the command and whoever stops it, step by step.            *)
LEMMA ThreadInv ==
  ASSUME ExecInv, CommandCalled \/ Stops \/ ThreadSteps
  PROVE  ExecInv'
  <1>0. ExecTypes /\ PipeFits /\ ThreadFits /\ ShownFits /\ StopIsHeard
    BY DEF ExecInv
  <1> DEFINE
    Carried == UNCHANGED <<produced, pipe, held, collected, ends, unsent, scheduled, loop, timer, drained, published>>
    Typed == /\ worker' \in {"none", "starting", "running", "gone"} /\ shutdown' \in BOOLEAN /\ cut' \in BOOLEAN
             /\ stopped' \in BOOLEAN /\ sealed' \in BOOLEAN /\ streamClosed' \in BOOLEAN
             /\ thread' \in {"ready", "launching", "known", "waiting", "late", "closing", "finishing", "returned", "ended"}
             /\ result' \in {"none", "exited", "timed_out", "cancelled", "failed", "lost"}
             /\ resultText' \in Nat /\ loopQueue' \in Seq({"schedule", "drain"})
    Piped == \/ UNCHANGED <<worker, cut>>
             \/ worker = "none" /\ cut' = cut
             \/ worker' = "gone" /\ cut' = TRUE
    Grown == \/ loopQueue' = loopQueue
             \/ loopQueue' = Append(loopQueue, "drain")
  <1>1. ASSUME Carried, Typed, Piped, Grown, ThreadFits', StopIsHeard'
        PROVE  ExecInv'
    <2>1. ExecTypes'
      <3>1. /\ produced' = produced /\ pipe' = pipe /\ held' = held /\ collected' = collected /\ ends' = ends
            /\ unsent' = unsent /\ scheduled' = scheduled /\ loop' = loop /\ timer' = timer /\ drained' = drained
            /\ published' = published
        BY <1>1
      <3> QED
        BY <1>0, <1>1, <3>1 DEF ExecTypes
    <2>2. PipeFits'
      BY <1>0, <1>1, PipeKept
    <2>3. ShownFits'
      <3>1. loopQueue \in Seq({"schedule", "drain"})
        BY <1>0 DEF ExecTypes
      <3>2. \A i \in DOMAIN loopQueue : i \in DOMAIN loopQueue' /\ loopQueue'[i] = loopQueue[i]
        BY <1>1, <3>1
      <3> QED
        BY <1>0, <1>1, <3>2 DEF ShownFits
    <2> QED
      BY <1>1, <2>1, <2>2, <2>3 DEF ExecInv
  <1>3. CASE CommandCalled
    <2>1. /\ thread = "ready" /\ thread' = "launching" /\ Carried
          /\ UNCHANGED <<worker, shutdown, cut, stopped, sealed, result, resultText, loopQueue, streamClosed>>
      BY <1>3 DEF CommandCalled, ThreadKeeps, loopVars
    <2>2. Typed
      BY <1>0, <2>1 DEF ExecTypes
    <2>3. ThreadFits'
      BY <1>0, <2>1 DEF ThreadFits, Early, Returned
    <2>4. StopIsHeard'
      BY <2>1 DEF StopIsHeard
    <2> QED
      BY <1>1, <2>1, <2>2, <2>3, <2>4
  <1>4. CASE Launches
    <2>1. /\ thread = "launching" /\ Carried
          /\ \/ worker' = "starting" /\ thread' = "known" /\ UNCHANGED result
             \/ result' = "failed" /\ thread' = "returned" /\ UNCHANGED worker
          /\ UNCHANGED <<shutdown, cut, stopped, sealed, resultText, loopQueue, streamClosed>>
      BY <1>4 DEF Launches, ThreadKeeps, loopVars
    <2>2. Typed
      BY <1>0, <2>1 DEF ExecTypes
    <2>3. worker = "none"
      BY <1>0, <2>1 DEF ThreadFits, Early
    <2>4. ThreadFits'
      BY <1>0, <2>1, <2>3 DEF ThreadFits, Early, Returned
    <2>5. StopIsHeard'
      BY <2>1 DEF StopIsHeard
    <2> QED
      BY <1>1, <2>1, <2>2, <2>3, <2>4, <2>5
  <1>5. CASE MadeKnown
    <2>1. /\ thread = "known" /\ thread' = "waiting" /\ Carried
          /\ UNCHANGED <<worker, cut, stopped, sealed, result, resultText, loopQueue, streamClosed>>
          /\ IF stopped THEN ShutDown ELSE UNCHANGED shutdown
      BY <1>5 DEF MadeKnown, Remembered, ThreadKeeps, loopVars
    <2>2. shutdown' \in BOOLEAN /\ (stopped /\ worker \in {"starting", "running"} => shutdown')
      BY <1>0, <2>1, ShutDownEffect DEF ExecTypes
    <2>3. Typed
      BY <1>0, <2>1, <2>2 DEF ExecTypes
    <2>4. ThreadFits'
      BY <1>0, <2>1 DEF ThreadFits, Early, Returned
    <2>5. StopIsHeard'
      BY <2>1, <2>2 DEF StopIsHeard
    <2> QED
      BY <1>1, <2>1, <2>3, <2>4, <2>5
  <1>6. CASE Stops
    <2>1. /\ stopped' = TRUE /\ Carried
          /\ UNCHANGED <<worker, cut, thread, sealed, result, resultText, loopQueue, streamClosed>>
          /\ IF thread \in {"launching", "known"} THEN UNCHANGED shutdown ELSE ShutDown
      BY <1>6 DEF Stops, ThreadKeeps, loopVars
    <2>2. shutdown' \in BOOLEAN
          /\ (thread \in {"waiting", "late"} /\ worker \in {"starting", "running"} => shutdown')
      BY <1>0, <2>1, ShutDownEffect DEF ExecTypes
    <2>3. Typed
      BY <1>0, <2>1, <2>2 DEF ExecTypes
    <2>4. ThreadFits'
      BY <1>0, <2>1 DEF ThreadFits, Early, Returned
    <2>5. StopIsHeard'
      BY <2>1, <2>2 DEF StopIsHeard
    <2> QED
      BY <1>1, <2>1, <2>3, <2>4, <2>5
  <1>7. CASE TimesOut
    <2>1. /\ thread = "waiting" /\ thread' = "late" /\ Carried /\ ShutDown
          /\ UNCHANGED <<worker, cut, stopped, sealed, result, resultText, loopQueue, streamClosed>>
      BY <1>7 DEF TimesOut, ThreadKeeps, loopVars
    <2>2. shutdown' \in BOOLEAN /\ (worker \in {"starting", "running"} => shutdown')
      BY <1>0, <2>1, ShutDownEffect
    <2>3. Typed
      BY <1>0, <2>1, <2>2 DEF ExecTypes
    <2>4. ThreadFits'
      BY <1>0, <2>1 DEF ThreadFits, Early, Returned
    <2>5. StopIsHeard'
      BY <2>1, <2>2 DEF StopIsHeard
    <2> QED
      BY <1>1, <2>1, <2>3, <2>4, <2>5
  <1>8. CASE Closes
    <2>1. /\ thread \in {"waiting", "late"} /\ thread' = "closing" /\ cut' = TRUE /\ worker' = "gone" /\ Carried
          /\ result' \in {result, "timed_out"}
          /\ UNCHANGED <<shutdown, stopped, sealed, resultText, loopQueue, streamClosed>>
      BY <1>8 DEF Closes, GivesUpWaiting, ThreadKeeps, loopVars
    <2>2. Typed
      BY <1>0, <2>1 DEF ExecTypes
    <2>3. ThreadFits'
      BY <1>0, <2>1 DEF ThreadFits, Early, Returned
    <2>4. StopIsHeard'
      BY <2>1 DEF StopIsHeard
    <2> QED
      BY <1>1, <2>1, <2>2, <2>3, <2>4
  <1>9. CASE FinishesOutput
    <2>1. /\ thread = "closing" /\ thread' = "finishing" /\ sealed' = TRUE /\ resultText' = collected /\ Carried
          /\ UNCHANGED <<worker, shutdown, cut, stopped, result, loopQueue, streamClosed>>
      BY <1>9 DEF FinishesOutput, ThreadKeeps, loopVars
    <2>2. Typed
      BY <1>0, <2>1 DEF ExecTypes
    <2>3. ThreadFits'
      BY <1>0, <2>1 DEF ThreadFits, Early, Returned
    <2>4. StopIsHeard'
      BY <2>1 DEF StopIsHeard
    <2> QED
      BY <1>1, <2>1, <2>2, <2>3, <2>4
  <1>10. CASE ResultReturns
    <2>1. /\ thread = "finishing" /\ thread' = "returned" /\ result' = Outcome /\ Carried
          /\ UNCHANGED <<worker, shutdown, cut, stopped, sealed, resultText, loopQueue, streamClosed>>
      BY <1>10 DEF ResultReturns, ThreadKeeps, loopVars
    <2>2. /\ result' \in {"exited", "timed_out", "cancelled", "failed", "lost"}
          /\ result' = "exited" => "exit" \in ends
      BY <2>1 DEF Outcome
    <2>3. Typed
      BY <1>0, <2>1, <2>2 DEF ExecTypes
    <2>4. ThreadFits'
      BY <1>0, <2>1, <2>2 DEF ThreadFits, Early, Returned
    <2>5. StopIsHeard'
      BY <2>1 DEF StopIsHeard
    <2> QED
      BY <1>1, <2>1, <2>3, <2>4, <2>5
  <1>11. CASE ChannelFinishes
    <2>1. /\ thread = "returned" /\ thread' = "ended" /\ streamClosed' = TRUE /\ Carried /\ Grown
          /\ UNCHANGED <<worker, shutdown, cut, stopped, sealed, result, resultText>>
      BY <1>11 DEF ChannelFinishes, Woken, processVars
    <2>2. loopQueue' \in Seq({"schedule", "drain"})
      BY <1>0, <2>1 DEF ExecTypes
    <2>3. Typed
      BY <1>0, <2>1, <2>2 DEF ExecTypes
    <2>4. ThreadFits'
      BY <1>0, <2>1 DEF ThreadFits, Early, Returned
    <2>5. StopIsHeard'
      BY <2>1 DEF StopIsHeard
    <2> QED
      BY <1>1, <2>1, <2>3, <2>4, <2>5
  <1> QED
    BY <1>3, <1>4, <1>5, <1>6, <1>7, <1>8, <1>9, <1>10, <1>11 DEF ThreadSteps

LEMMA LoopInv ==
  ASSUME ExecInv, LoopSteps \/ LoopCloses
  PROVE  ExecInv'
  <1>0. ExecTypes /\ PipeFits /\ ThreadFits /\ ShownFits /\ StopIsHeard
    BY DEF ExecInv
  <1>1. /\ UNCHANGED <<worker, shutdown, produced, pipe, held, cut, thread, stopped, ends, sealed, result, resultText>>
        /\ UNCHANGED <<collected, streamClosed>>
    BY DEF LoopSteps, LoopSchedules, LoopDrains, LoopPublishes, LoopCloses, LoopKeeps, processVars, threadVars, loopVars
  <1>2. /\ loop = "runs" /\ unsent \in Nat /\ published \in Nat /\ collected \in Nat
        /\ loopQueue \in Seq({"schedule", "drain"}) /\ None \notin Nat
        /\ published + (IF drained = None THEN 0 ELSE drained) + unsent = collected
        /\ unsent # 0 => scheduled
        /\ scheduled => timer \/ \E i \in DOMAIN loopQueue : loopQueue[i] = "schedule"
    BY <1>0 DEF ExecTypes, ShownFits, LoopSteps, LoopSchedules, LoopDrains, LoopPublishes, LoopCloses, None
  <1>3. ASSUME NEW l \in {"runs", "closed"}, loop' = l,
               unsent' \in Nat, published' \in Nat, drained' \in Nat \cup {None},
               scheduled' \in BOOLEAN, timer' \in BOOLEAN, loopQueue' \in Seq({"schedule", "drain"}), ShownFits'
        PROVE  ExecInv'
    <2>1. ExecTypes'
      BY <1>0, <1>1, <1>3 DEF ExecTypes
    <2>2. PipeFits'
      BY <1>0, <1>1 DEF PipeFits, OutputFirst
    <2>3. ThreadFits' /\ StopIsHeard'
      BY <1>0, <1>1 DEF ThreadFits, StopIsHeard
    <2> QED
      BY <1>3, <2>1, <2>2, <2>3 DEF ExecInv
  <1>4. CASE LoopCloses
    <2>1. loop' = "closed" /\ UNCHANGED <<unsent, scheduled, loopQueue, timer, drained, published>>
      BY <1>4 DEF LoopCloses, loopVars
    <2>2. ShownFits'
      BY <2>1 DEF ShownFits
    <2> QED
      BY <1>0, <1>3, <2>1, <2>2 DEF ExecTypes
  <1>5. ASSUME loop' = loop, drained = None, Takes, published' = published,
               loopQueue' = loopQueue \/ (loopQueue # <<>> /\ loopQueue' = Tail(loopQueue))
        PROVE  ExecInv'
    <2>1. drained' = unsent /\ unsent' = 0 /\ scheduled' = FALSE /\ timer' = FALSE
      BY <1>5 DEF Takes
    <2>2. loopQueue' \in Seq({"schedule", "drain"})
      BY <1>2, <1>5
    <2>3. published + unsent = collected
      BY <1>2, <1>5
    <2>4. ShownFits'
      BY <1>1, <1>2, <1>5, <2>1, <2>3 DEF ShownFits
    <2> QED
      BY <1>2, <1>3, <1>5, <2>1, <2>2, <2>4
  <1>6. CASE LoopSchedules
    <2>1. drained = None /\ loop' = loop /\ published' = published /\ loopQueue # <<>> /\ loopQueue' = Tail(loopQueue)
      BY <1>6 DEF LoopSchedules, LoopKeeps
    <2>2. CASE ~timer /\ streamClosed
      BY <1>5, <1>6, <2>1, <2>2 DEF LoopSchedules
    <2>3. CASE ~(~timer /\ streamClosed)
      <3>1. timer' = TRUE /\ UNCHANGED <<drained, unsent, scheduled>>
        BY <1>6, <2>3 DEF LoopSchedules
      <3>2. loopQueue' \in Seq({"schedule", "drain"})
        BY <1>2, <2>1
      <3>3. ShownFits'
        BY <1>1, <1>2, <2>1, <3>1 DEF ShownFits
      <3> QED
        BY <1>0, <1>2, <1>3, <2>1, <3>1, <3>2, <3>3 DEF ExecTypes
    <2> QED
      BY <2>2, <2>3
  <1>7. CASE LoopDrains
    BY <1>5, <1>7 DEF LoopDrains, LoopKeeps
  <1>8. CASE LoopPublishes
    <2>1. /\ drained # None /\ published' = published + drained /\ drained' = None /\ loop' = loop
          /\ UNCHANGED <<unsent, timer>> /\ drained \in Nat
      BY <1>0, <1>8 DEF LoopPublishes, LoopKeeps, ExecTypes
    <2>2. UNCHANGED <<scheduled, loopQueue>>
      BY <1>2, <1>8 DEF LoopPublishes, Rescheduled
    <2>3. published' + unsent' = collected'
      BY <1>1, <1>2, <2>1
    <2>4. ShownFits'
      BY <1>2, <2>1, <2>2, <2>3 DEF ShownFits
    <2> QED
      BY <1>0, <1>2, <1>3, <2>1, <2>2, <2>4 DEF ExecTypes
  <1> QED
    BY <1>4, <1>6, <1>7, <1>8 DEF LoopSteps

LEMMA ExecInvNext ==
  ASSUME ExecInv, [ExecNext]_execVars
  PROVE  ExecInv'
  <1>1. CASE UNCHANGED execVars
    BY <1>1 DEF execVars, processVars, threadVars, loopVars, ExecInv, ExecTypes, PipeFits, OutputFirst, ThreadFits,
                ShownFits, StopIsHeard
  <1> QED
    BY <1>1, WorkerInv, ReadsInv, ObservesInv, ThreadInv, LoopInv DEF ExecNext

(* The result of a command, what was shown of it and its stop.              *)
LEMMA CommandIsTrue == ExecSpec => [](ResultIsTrue /\ LiveIsResult /\ StopIsHeard)
  <1>1. ExecInv => ResultIsTrue /\ LiveIsResult /\ StopIsHeard
    <2> SUFFICES ASSUME ExecInv PROVE ResultIsTrue /\ LiveIsResult
      BY DEF ExecInv
    <2>1. ResultIsTrue
      BY DEF ExecInv, PipeFits, ThreadFits, ResultIsTrue
    <2>2. ASSUME thread = "ended", loop = "runs", drained = None, loopQueue = <<>>, ~timer
          PROVE  published = resultText
      <3>1. unsent = 0 /\ published + 0 + unsent = collected /\ published \in Nat /\ collected \in Nat
        BY <2>2 DEF ExecInv, ExecTypes, ShownFits
      <3>2. sealed \/ worker = "none"
        BY <2>2 DEF ExecInv, ThreadFits, Returned
      <3>3. collected = resultText
        BY <3>2 DEF ExecInv, ThreadFits
      <3> QED
        BY <3>1, <3>3
    <2> QED
      BY <2>1, <2>2 DEF LiveIsResult
  <1> QED
    BY <1>1, ExecInvInit, ExecInvNext, PTL DEF ExecSpec

(***************************************************************************)
(* What a reader of a terminal is shown, and what an Agent is told of its  *)
(* command, is what happened: a view that says the session has ended holds *)
(* all its output, the result of a command is how it ended with the output *)
(* it wrote, the live output is what the result says, and a stop is heard. *)
(***************************************************************************)
THEOREM TerminalIsTrueAlways == ChannelSpec /\ ExecSpec => []TerminalIsTrue
  BY ViewIsWhole, CommandIsTrue, PTL DEF TerminalIsTrue

-----------------------------------------------------------------------------
(***************************************************************************)
(* Who types into a session, for any calls, inputs and orders of both. The *)
(* queue, the program in front and what is reported of it mix the user     *)
(* with the Agent only after their inputs have crossed (crossed): the user *)
(* typed while input of the Agent was on its way, or a call went ahead     *)
(* while a line of the user was still to be reported. An operation is      *)
(* applied twice only if the confirmation of its signal was given up       *)
(* (late). Both variables are histories that say what has happened: they   *)
(* exclude no behaviour of the session.                                    *)
(***************************************************************************)
VARIABLES crossed, late

Crosses ==
  \/ UserTypes /\ ~AgentIsReported /\ ~(AgentOnlyWaits /\ inputs'[Len(inputs')].kind = "erase")
  \/ ~UserIsReported /\ \E w \in WriteCalls : Calls(w) /\ call'[w] \in Under

TypingStep ==
  /\ crossed' = (crossed \/ Crosses)
  /\ late' = late \cup {w \in WriteCalls : AckIsLate(w)}

typingWatchVars == <<inputVars, crossed, late>>
TypingWatch == (crossed = FALSE /\ late = {}) /\ [][TypingStep]_typingWatchVars

InputTypes ==
  /\ session \in {"starting", "running", "ended"}
  /\ inputs \in Seq(Frames) /\ events \in Seq({"started", "returned"})
  /\ front \in Sources \cup {"shell"} /\ half \in BOOLEAN /\ typing \in BOOLEAN
  /\ command \in Sources \cup {"none"} /\ lastInput \in Sources \cup {"none"}
  /\ kind \in [WriteCalls -> {"line", "signal"}]
  /\ call \in [WriteCalls -> Under \cup {"new", "accepted", "failed"}]
  /\ accepted \subseteq WriteCalls /\ applied \in [WriteCalls -> Nat]
  /\ again \in 0..MaxSizes /\ pending \in 0..MaxSizes /\ sizes \in 0..MaxSizes

(* What is on its way to the terminal of a call, or has reached it, was     *)
(* delivered by the call and will not be delivered again.                   *)
IsOf(n, w) == inputs[n].by = "agent" /\ inputs[n].of = w
Delivered(w) == call[w] \in {"sent", "unsure"} \/ w \in accepted \/ session = "ended"

(* The calls whose signals were confirmed in time.                          *)
Prompt == WriteCalls \ late

OnceFits ==
  /\ \A w \in Prompt : applied[w] = 0 \/ (applied[w] = 1 /\ Delivered(w))
  /\ \A w \in Prompt : \A n \in 1..Len(inputs) : IsOf(n, w) => applied[w] = 0 /\ Delivered(w)
  /\ \A w \in Prompt : \A m, n \in 1..Len(inputs) : IsOf(m, w) /\ IsOf(n, w) => m = n
  /\ \A w \in Prompt : call[w] \in {"waiting", "admitted"} => w \notin accepted
  /\ session = "ended" => inputs = <<>>

OnceInv == InputTypes /\ OnceFits

(* Lines that wait for the terminal are of who typed last, and so is the    *)
(* command that they start.                                                 *)
Last == events[Len(events)]
AgentIsUnderWay ==
  (\E w \in WriteCalls : call[w] \in {"admitted", "sent", "unsure"})
  \/ \E n \in 1..Len(inputs) : inputs[n].by = "agent"

LinesFit ==
  /\ \A n \in 1..Len(inputs) : inputs[n].kind = "line" => inputs[n].by = lastInput
  /\ events # <<>> => front = (IF Last = "started" THEN lastInput ELSE "shell")
  /\ session = "starting" => front = "shell" /\ command = "none" /\ events = <<>>
  /\ CommandIsAttributed

(* The user and the Agent: while the user types only a call that waits is   *)
(* under way; afterwards nothing of the user is left in the queue.          *)
TurnsFit ==
  /\ \A v, w \in WriteCalls : call[v] \in Under /\ call[w] \in Under => v = w
  /\ \A w \in WriteCalls : call[w] = "admitted" => lastInput = "agent"
  /\ \A w \in WriteCalls : call[w] = "waiting" =>
       /\ \A n \in 1..Len(inputs) : inputs[n].kind # "line"
       /\ \A n \in 1..Len(events) : events[n] # "started"
  /\ typing => ~AgentIsUnderWay
  /\ ~typing => ~half /\ \A n \in 1..Len(inputs) : inputs[n].by = "agent" \/ inputs[n].kind = "size"
  /\ (\E w \in WriteCalls : call[w] \in Under) \/ AgentIsUnderWay => front # "user"

TypingInv == InputTypes /\ LinesFit /\ TurnsFit

LEMMA QueueGrows ==
  ASSUME inputs \in Seq(Frames), NEW f \in Frames, inputs' = Append(inputs, f)
  PROVE  /\ inputs' \in Seq(Frames) /\ Len(inputs') = Len(inputs) + 1
         /\ inputs'[Len(inputs) + 1] = f
         /\ \A n \in 1..Len(inputs) : inputs'[n] = inputs[n]
         /\ \A n \in 1..Len(inputs') : n \in 1..Len(inputs) \/ n = Len(inputs) + 1
  OBVIOUS

LEMMA QueueShrinks ==
  ASSUME inputs \in Seq(Frames), inputs # <<>>, inputs' = Tail(inputs)
  PROVE  /\ inputs' \in Seq(Frames) /\ Head(inputs) = inputs[1] /\ 1 \in 1..Len(inputs)
         /\ \A n \in 1..Len(inputs') : n + 1 \in 1..Len(inputs) /\ inputs'[n] = inputs[n + 1]
  OBVIOUS

LEMMA EventsGrow ==
  ASSUME events \in Seq({"started", "returned"}), NEW e \in {"started", "returned"},
         events' = Append(events, e)
  PROVE  /\ events' \in Seq({"started", "returned"}) /\ events' # <<>>
         /\ events'[Len(events')] = e
         /\ \A n \in 1..Len(events') : events'[n] = e \/ (n \in 1..Len(events) /\ events'[n] = events[n])
  OBVIOUS

LEMMA EventsShrink ==
  ASSUME events \in Seq({"started", "returned"}), events # <<>>, events' = Tail(events)
  PROVE  /\ events' \in Seq({"started", "returned"})
         /\ events' = <<>> => Head(events) = events[Len(events)]
         /\ events' # <<>> => events'[Len(events')] = events[Len(events)]
         /\ \A n \in 1..Len(events') : n + 1 \in 1..Len(events) /\ events'[n] = events[n + 1]
  <1>1. Len(events) \in Nat /\ Len(events) > 0 /\ Len(events') = Len(events) - 1
        /\ \A n \in 1..Len(events') : events'[n] = events[n + 1]
    OBVIOUS
  <1>2. Head(events) = events[1] /\ events' \in Seq({"started", "returned"})
    OBVIOUS
  <1>5. events' = <<>> => Len(events') = 0
    OBVIOUS
  <1>3. events' = <<>> => Len(events) = 1
    BY <1>1, <1>5
  <1>4. events' # <<>> => Len(events') \in 1..Len(events') /\ Len(events') + 1 = Len(events)
    BY <1>1, <1>2
  <1> QED
    BY <1>1, <1>2, <1>3, <1>4

LEMMA FrameFacts ==
  ASSUME NEW f \in Frames
  PROVE  /\ f.by \in Sources /\ f.kind \in {"line", "signal", "keys", "erase", "size"}
         /\ f.by = "agent" => f.of \in WriteCalls /\ f.kind \in {"line", "signal"}
         /\ f.kind = "size" => f.by = "user"
  BY DEF Frames, Sources

LEMMA FramesMade ==
  /\ \A what \in {"keys", "line", "erase"} : Frame("user", what, Panel) \in Frames
  /\ \A w \in WriteCalls : \A k \in {"line", "signal"} : Frame("agent", k, w) \in Frames
  /\ \A n \in 1..MaxSizes : Frame("user", "size", n) \in Frames
  BY DEF Frame, Frames, Sources

LEMMA InputTypesInit == InputInit => InputTypes
  <1> SUFFICES ASSUME InputInit PROVE InputTypes
    OBVIOUS
  <1>1. inputs \in Seq(Frames) /\ events \in Seq({"started", "returned"})
    BY DEF InputInit
  <1>2. call \in [WriteCalls -> Under \cup {"new", "accepted", "failed"}] /\ applied \in [WriteCalls -> Nat]
    BY DEF InputInit
  <1>3. /\ again \in 0..MaxSizes /\ pending \in 0..MaxSizes /\ sizes \in 0..MaxSizes
    BY TerminalInputAssumption DEF InputInit
  <1>4. accepted \subseteq WriteCalls /\ kind \in [WriteCalls -> {"line", "signal"}]
    BY DEF InputInit
  <1> QED
    BY <1>1, <1>2, <1>3, <1>4 DEF InputInit, InputTypes, Sources

LEMMA InputTypesNext ==
  ASSUME InputTypes, [InputNext]_inputVars
  PROVE  InputTypes'
  <1> USE DEF InputTypes
  <1>1. CASE UserTypes
    <2>1. PICK what \in {"keys", "line", "erase"} : Enqueue(Frame("user", what, Panel))
      BY <1>1 DEF UserTypes
    <2>2. inputs' \in Seq(Frames)
      BY <2>1, FramesMade, QueueGrows DEF Enqueue
    <2> QED
      BY <1>1, <2>2 DEF UserTypes, sizeVars, Sources
  <1>2. CASE UserPauses
    BY <1>2 DEF UserPauses, sizeVars
  <1>3. CASE Applies
    <2>1. inputs' \in Seq(Frames) /\ Head(inputs) \in Frames
      BY <1>3, QueueShrinks DEF Applies
    <2> DEFINE f == Head(inputs)
    <2>2. /\ applied' = IF f.by = "agent" THEN [applied EXCEPT ![f.of] = @ + 1] ELSE applied
          /\ call' = IF f.by = "agent" /\ f.kind = "signal" /\ call[f.of] = "unsure"
                     THEN [call EXCEPT ![f.of] = "sent"] ELSE call
          /\ half' = (front = "shell" /\ (f.kind = "keys" \/ (half /\ f.kind = "size")))
          /\ UNCHANGED <<session, command, lastInput, typing, kind, accepted, pending, again, sizes>>
      BY <1>3 DEF Applies
    <2>3. /\ front' = f.by \/ front' = front \/ front' = "shell"
          /\ events' = events \/ events' = Append(events, "started") \/ events' = Append(events, "returned")
      BY <1>3 DEF Applies, Begun
    <2>4. applied' \in [WriteCalls -> Nat]
      BY <2>1, <2>2, FrameFacts
    <2>5. call' \in [WriteCalls -> Under \cup {"new", "accepted", "failed"}]
      BY <2>2 DEF Under
    <2>6. half' \in BOOLEAN
      BY <2>2
    <2>7. front' \in Sources \cup {"shell"} /\ events' \in Seq({"started", "returned"})
      <3>1. f.by \in Sources
        BY <2>1, FrameFacts
      <3>2. front' \in Sources \cup {"shell"}
        BY <2>3, <3>1
      <3>3. events' \in Seq({"started", "returned"})
        <4>1. CASE events' = events
          BY <4>1
        <4>2. CASE events' = Append(events, "started")
          BY <4>2
        <4>3. CASE events' = Append(events, "returned")
          BY <4>3
        <4> QED
          BY <2>3, <4>1, <4>2, <4>3
      <3> QED
        BY <3>2, <3>3
    <2> QED
      BY <2>1, <2>2, <2>4, <2>5, <2>6, <2>7
  <1>4. CASE ProgramReturns
    <2>1. events' \in Seq({"started", "returned"})
      BY <1>4 DEF ProgramReturns
    <2> QED
      BY <1>4, <2>1 DEF ProgramReturns, sizeVars
  <1>5. CASE ShellReports
    <2>1. events' \in Seq({"started", "returned"})
      BY <1>5 DEF ShellReports
    <2> QED
      BY <1>5, <2>1 DEF ShellReports, StartedBy, sizeVars
  <1>6. CASE SessionEnds
    <2>1. inputs' \in Seq(Frames) /\ events' \in Seq({"started", "returned"})
      BY <1>6 DEF SessionEnds
    <2>2. call' \in [WriteCalls -> Under \cup {"new", "accepted", "failed"}]
      BY <1>6 DEF SessionEnds
    <2> QED
      BY <1>6, <2>1, <2>2 DEF SessionEnds, sizeVars
  <1>7. CASE PanelChanges
    <2>1. sizes' \in 1..MaxSizes
      BY <1>7, TerminalInputAssumption DEF PanelChanges
    <2>2. inputs' = inputs \/ Enqueue(Frame("user", "size", sizes'))
      BY <1>7 DEF PanelChanges
    <2>3. inputs' \in Seq(Frames)
      BY <2>1, <2>2, FramesMade, QueueGrows DEF Enqueue
    <2>4. pending' \in 0..MaxSizes
      BY <1>7, <2>1 DEF PanelChanges
    <2> QED
      BY <1>7, <2>1, <2>3, <2>4 DEF PanelChanges
  <1>8. CASE Starts
    BY <1>8, TerminalInputAssumption DEF Starts, TakenUp
  <1>9. CASE SendsAgain
    <2>1. again \in 1..MaxSizes
      BY <1>9, TerminalInputAssumption DEF SendsAgain
    <2>2. inputs' \in Seq(Frames)
      BY <1>9, <2>1, FramesMade, QueueGrows DEF SendsAgain, Enqueue
    <2> QED
      BY <1>9, <2>2, TerminalInputAssumption DEF SendsAgain
  <1>10. ASSUME NEW w \in WriteCalls, Calls(w) PROVE InputTypes'
    BY <1>10 DEF Calls, Reach, Admit, Under, sizeVars, Sources
  <1>11. ASSUME NEW w \in WriteCalls, WaitEnds(w) PROVE InputTypes'
    BY <1>11 DEF WaitEnds, Reach, Admit, Under, sizeVars, Sources
  <1>12. ASSUME NEW w \in WriteCalls, Delivers(w) PROVE InputTypes'
    <2>1. inputs' = inputs \/ Enqueue(Frame("agent", kind[w], w))
      BY <1>12 DEF Delivers
    <2>2. inputs' \in Seq(Frames)
      BY <2>1, FramesMade, QueueGrows DEF Enqueue
    <2>3. call' \in [WriteCalls -> Under \cup {"new", "accepted", "failed"}]
      BY <1>12 DEF Delivers, Reach, Under
    <2> QED
      BY <1>12, <2>2, <2>3 DEF Delivers, sizeVars
  <1>13. ASSUME NEW w \in WriteCalls, AckIsLate(w) \/ Accepts(w) PROVE InputTypes'
    BY <1>13 DEF AckIsLate, Accepts, Reach, Under, sizeVars
  <1>14. CASE UNCHANGED inputVars
    BY <1>14 DEF inputVars, typingVars, sizeVars
  <1> QED
    BY <1>1, <1>2, <1>3, <1>4, <1>5, <1>6, <1>7, <1>8, <1>9, <1>10, <1>11, <1>12, <1>13, <1>14 DEF InputNext

(* A step that delivers nothing of the Agent and applies nothing.           *)
LEMMA OnceKept ==
  ASSUME InputTypes, OnceFits, Prompt' \subseteq Prompt, applied' = applied, session' = "ended" <=> session = "ended",
         inputs' = inputs \/ (session # "ended" /\ \E f \in Frames : f.by = "user" /\ inputs' = Append(inputs, f)),
         \A w \in Prompt' : Delivered(w) => Delivered(w)',
         \A w \in Prompt' : call'[w] \in {"waiting", "admitted"} => w \notin accepted'
  PROVE  OnceFits'
  <1>1. \A w \in Prompt : \A n \in 1..Len(inputs') :
          IsOf(n, w)' => n \in 1..Len(inputs) /\ IsOf(n, w)
    <2>1. CASE inputs' = inputs
      BY <2>1 DEF IsOf
    <2>2. CASE \E f \in Frames : f.by = "user" /\ inputs' = Append(inputs, f)
      <3>1. PICK f \in Frames : f.by = "user" /\ inputs' = Append(inputs, f)
        BY <2>2
      <3> QED
        BY <3>1, QueueGrows DEF IsOf, InputTypes
    <2> QED
      BY <2>1, <2>2
  <1>2. session' = "ended" => inputs' = <<>>
    BY DEF OnceFits
  <1> QED
    BY <1>1, <1>2 DEF OnceFits

LEMMA OnceFitsNext ==
  ASSUME InputTypes, OnceFits, [InputNext]_inputVars, [TypingStep]_typingWatchVars
  PROVE  OnceFits'
  <1> USE DEF InputTypes
  <1>0. Prompt' \subseteq Prompt /\ Prompt \subseteq WriteCalls
    BY DEF Prompt, TypingStep, typingWatchVars
  <1>1. CASE UserTypes
    <2>1. PICK what \in {"keys", "line", "erase"} : Enqueue(Frame("user", what, Panel))
      BY <1>1 DEF UserTypes
    <2>2. Frame("user", what, Panel) \in Frames /\ Frame("user", what, Panel).by = "user"
      BY FramesMade DEF Frame
    <2> QED
      BY <1>1, <1>0, <2>1, <2>2, OnceKept DEF UserTypes, Enqueue, Delivered, OnceFits
  <1>2. CASE UserPauses
    BY <1>2, <1>0, OnceKept DEF UserPauses, Delivered, OnceFits
  <1>3. CASE ProgramReturns \/ ShellReports
    BY <1>3, <1>0, OnceKept DEF ProgramReturns, ShellReports, Delivered, OnceFits
  <1>4. CASE Starts
    BY <1>4, <1>0, OnceKept DEF Starts, Delivered, OnceFits
  <1>5. CASE PanelChanges
    <2>1. sizes' \in 1..MaxSizes
      BY <1>5, TerminalInputAssumption DEF PanelChanges
    <2>2. Frame("user", "size", sizes') \in Frames /\ Frame("user", "size", sizes').by = "user"
      BY <2>1, FramesMade DEF Frame
    <2>3. inputs' = inputs \/ Enqueue(Frame("user", "size", sizes'))
      BY <1>5 DEF PanelChanges
    <2> QED
      BY <1>5, <2>2, <2>3, <1>0, OnceKept DEF PanelChanges, Enqueue, Delivered, OnceFits
  <1>6. CASE SendsAgain
    <2>1. Frame("user", "size", again) \in Frames /\ Frame("user", "size", again).by = "user"
      BY <1>6, TerminalInputAssumption, FramesMade DEF SendsAgain, Frame
    <2> QED
      BY <1>6, <1>0, <2>1, OnceKept DEF SendsAgain, Enqueue, Delivered, OnceFits
  <1>7. ASSUME NEW w \in WriteCalls, Calls(w) \/ WaitEnds(w) PROVE OnceFits'
    <2>1. /\ applied' = applied /\ session' = session /\ inputs' = inputs /\ accepted' = accepted
          /\ call[w] \notin {"sent", "unsure", "admitted"}
          /\ \A v \in WriteCalls : v # w => call'[v] = call[v]
      BY <1>7 DEF Calls, WaitEnds, Reach, Admit
    <2>2. w \in Prompt /\ call'[w] \in {"waiting", "admitted"} => w \notin accepted
      BY <1>7 DEF Calls, WaitEnds, Reach, Admit, IsDuplicate, OnceFits
    <2> QED
      BY <1>0, <2>1, <2>2, OnceKept DEF Delivered, OnceFits
  <1>8. ASSUME NEW w \in WriteCalls, Accepts(w) PROVE OnceFits'
    <2>1. /\ applied' = applied /\ session' = session /\ inputs' = inputs /\ accepted' = accepted \cup {w}
          /\ call'[w] = "accepted" /\ \A v \in WriteCalls : v # w => call'[v] = call[v]
      BY <1>8 DEF Accepts, Reach
    <2> QED
      BY <1>0, <2>1, OnceKept DEF Delivered, OnceFits
  <1>9. ASSUME NEW w \in WriteCalls, Delivers(w) PROVE OnceFits'
    <2>1. /\ applied' = applied /\ session' = session /\ accepted' = accepted /\ call[w] = "admitted"
          /\ \A v \in WriteCalls : v # w => call'[v] = call[v]
      BY <1>9 DEF Delivers, Reach
    <2>2. CASE inputs' = inputs /\ call'[w] = "failed"
      BY <1>0, <2>1, <2>2, OnceKept DEF Delivered, OnceFits
    <2>3. CASE session = "running" /\ Enqueue(Frame("agent", kind[w], w)) /\ call'[w] \in {"unsure", "sent"}
      <3> DEFINE f == Frame("agent", kind[w], w)
      <3>1. f \in Frames /\ f.by = "agent" /\ f.of = w
        BY FramesMade DEF Frame
      <3>2. inputs' = Append(inputs, f)
        BY <2>3 DEF Enqueue
      <3>3. ASSUME w \in Prompt PROVE applied[w] = 0 /\ \A n \in 1..Len(inputs) : ~IsOf(n, w)
        <4>1. ~Delivered(w)
          BY <2>1, <2>3, <3>3 DEF Delivered, OnceFits
        <4> QED
          BY <3>3, <4>1 DEF OnceFits
      <3>4. \A v \in Prompt : \A n \in 1..Len(inputs') :
              IsOf(n, v)' => (n \in 1..Len(inputs) /\ IsOf(n, v)) \/ (v = w /\ n = Len(inputs) + 1)
        BY <3>1, <3>2, QueueGrows DEF IsOf
      <3>5. \A v \in Prompt : v # w => (Delivered(v) => Delivered(v)')
        BY <1>0, <2>1 DEF Delivered
      <3>6. Delivered(w)'
        BY <2>3 DEF Delivered
      <3>7. session' # "ended"
        BY <2>1, <2>3
      <3> QED
        BY <1>0, <2>1, <2>3, <3>3, <3>4, <3>5, <3>6, <3>7 DEF OnceFits
    <2> QED
      BY <1>9, <2>2, <2>3 DEF Delivers, Reach
  <1>10. CASE Applies
    <2> DEFINE f == Head(inputs)
    <2>1. /\ inputs # <<>> /\ inputs' = Tail(inputs) /\ session = "running" /\ session' = session
          /\ accepted' = accepted
          /\ applied' = IF f.by = "agent" THEN [applied EXCEPT ![f.of] = @ + 1] ELSE applied
          /\ call' = IF f.by = "agent" /\ f.kind = "signal" /\ call[f.of] = "unsure"
                     THEN [call EXCEPT ![f.of] = "sent"] ELSE call
      BY <1>10 DEF Applies
    <2>2. f = inputs[1] /\ f \in Frames /\ 1 \in 1..Len(inputs)
      BY <2>1, QueueShrinks
    <2>3. f.by = "agent" => f.of \in WriteCalls
      BY <2>2, FrameFacts
    <2>4. \A v \in Prompt : \A n \in 1..Len(inputs') : IsOf(n, v)' =>
            n + 1 \in 1..Len(inputs) /\ IsOf(n + 1, v) /\ ~(f.by = "agent" /\ f.of = v)
      <3> SUFFICES ASSUME NEW v \in Prompt, NEW n \in 1..Len(inputs'), IsOf(n, v)'
                   PROVE  n + 1 \in 1..Len(inputs) /\ IsOf(n + 1, v) /\ ~(f.by = "agent" /\ f.of = v)
        OBVIOUS
      <3>1. n + 1 \in 1..Len(inputs) /\ IsOf(n + 1, v)
        BY <2>1, QueueShrinks DEF IsOf
      <3>2. f.by = "agent" /\ f.of = v => IsOf(1, v)
        BY <2>2 DEF IsOf
      <3>3. n + 1 # 1
        OBVIOUS
      <3> QED
        BY <2>2, <3>1, <3>2, <3>3 DEF OnceFits
    <2>5. \A v \in Prompt : Delivered(v) => Delivered(v)'
      BY <2>1, <2>3 DEF Delivered
    <2>6. \A v \in Prompt : applied'[v] = IF f.by = "agent" /\ f.of = v THEN applied[v] + 1 ELSE applied[v]
      BY <2>1, <2>3
    <2>7. \A v \in Prompt : f.by = "agent" /\ f.of = v => applied[v] = 0 /\ Delivered(v)
      BY <2>2 DEF OnceFits, IsOf
    <2>8. \A v \in Prompt : call'[v] \in {"waiting", "admitted"} => call'[v] = call[v]
      BY <2>1, <2>3
    <2> HIDE DEF f
    <2>9. \A v \in Prompt : applied'[v] = 0 \/ (applied'[v] = 1 /\ Delivered(v)')
      BY <2>5, <2>6, <2>7 DEF OnceFits
    <2>10. \A v \in Prompt : \A n \in 1..Len(inputs') : IsOf(n, v)' => applied'[v] = 0 /\ Delivered(v)'
      BY <2>4, <2>5, <2>6 DEF OnceFits
    <2>11. \A v \in Prompt : \A m, n \in 1..Len(inputs') : IsOf(m, v)' /\ IsOf(n, v)' => m = n
      <3> SUFFICES ASSUME NEW v \in Prompt, NEW m \in 1..Len(inputs'), NEW n \in 1..Len(inputs'),
                          IsOf(m, v)', IsOf(n, v)'
                   PROVE  m = n
        OBVIOUS
      <3>1. m + 1 = n + 1
        BY <2>4 DEF OnceFits
      <3> QED
        BY <3>1
    <2> QED
      BY <1>0, <2>1, <2>8, <2>9, <2>10, <2>11 DEF OnceFits
  <1>11. CASE SessionEnds
    <2>1. /\ session' = "ended" /\ inputs' = <<>> /\ applied' = applied /\ accepted' = accepted
          /\ \A v \in Prompt : call'[v] \in {"waiting", "admitted"} => call'[v] = call[v]
      BY <1>0, <1>11 DEF SessionEnds
    <2>2. \A v \in Prompt : Delivered(v)'
      BY <2>1 DEF Delivered
    <2>3. 1..Len(inputs') = {}
      BY <2>1
    <2>4. \A v \in Prompt : applied[v] = 0 \/ applied[v] = 1
      BY DEF OnceFits
    <2>5. \A v \in Prompt : call'[v] \in {"waiting", "admitted"} => v \notin accepted
      BY <2>1 DEF OnceFits
    <2> QED
      BY <1>0, <2>1, <2>2, <2>3, <2>4, <2>5 DEF OnceFits
  <1>12. CASE UNCHANGED inputVars
    BY <1>0, <1>12 DEF inputVars, typingVars, OnceFits, Delivered, IsOf
  <1>13. ASSUME NEW w \in WriteCalls, AckIsLate(w) PROVE OnceFits'
    <2>1. /\ UNCHANGED <<applied, session, inputs, accepted>>
          /\ call[w] = "unsure" /\ call'[w] = "failed" /\ \A v \in WriteCalls : v # w => call'[v] = call[v]
      BY <1>13 DEF AckIsLate, Reach
    <2>2. w \notin Prompt'
      <3>1. TypingStep
        BY <2>1 DEF typingWatchVars, inputVars, typingVars
      <3> QED
        BY <1>13, <3>1 DEF TypingStep, Prompt
    <2>3. \A v \in Prompt' : v \in Prompt /\ v # w /\ call'[v] = call[v]
      BY <1>0, <2>1, <2>2 DEF Prompt
    <2> QED
      BY <1>0, <2>1, <2>3, OnceKept DEF Delivered, OnceFits
  <1> QED
    BY <1>1, <1>2, <1>3, <1>4, <1>5, <1>6, <1>7, <1>8, <1>9, <1>10, <1>11, <1>12, <1>13 DEF InputNext

LEMMA LinesKept ==
  ASSUME LinesFit, UNCHANGED <<session, front, events, command>>,
         events # <<>> /\ Last = "started" => lastInput' = lastInput,
         \A n \in 1..Len(inputs') : inputs'[n].kind = "line" => inputs'[n].by = lastInput'
  PROVE  LinesFit'
  <1>1. events' # <<>> => front' = (IF Last' = "started" THEN lastInput' ELSE "shell")
    BY DEF LinesFit, Last
  <1>2. CommandIsAttributed'
    BY DEF LinesFit, CommandIsAttributed
  <1> QED
    BY <1>1, <1>2 DEF LinesFit

LEMMA CallIsOver ==
  ASSUME TurnsFit, UNCHANGED <<inputs, front, half, typing>>,
         \A w \in WriteCalls : call'[w] \notin Under
  PROVE  TurnsFit'
  <1>1. AgentIsUnderWay' => AgentIsUnderWay
    BY DEF AgentIsUnderWay, Under
  <1> QED
    BY <1>1 DEF TurnsFit, Under

LEMMA TypesTheLine ==
  ASSUME TypingInv, UserTypes, ~Crosses
  PROVE  LinesFit' /\ TurnsFit'
  <1> USE DEF TypingInv, InputTypes
  <1>1. PICK what \in {"keys", "line", "erase"} :
          inputs' = Append(inputs, Frame("user", what, Panel))
    BY DEF UserTypes, Enqueue
  <1> DEFINE f == Frame("user", what, Panel)
  <1>2. f \in Frames /\ f.by = "user" /\ f.kind = what
    BY FramesMade DEF Frame
  <1>3. /\ events = <<>> /\ \A n \in 1..Len(inputs) : inputs[n].by # "agent"
        /\ \A w \in WriteCalls : call[w] \in Under => call[w] = "waiting" /\ what # "line"
    <2>1. inputs'[Len(inputs')] = f
      BY <1>1, <1>2, QueueGrows
    <2>2. AgentIsReported \/ (what = "erase" /\ AgentOnlyWaits)
      BY <1>2, <2>1 DEF Crosses
    <2> QED
      BY <2>2 DEF AgentIsReported, AgentOnlyWaits
  <1>4. /\ typing' = TRUE /\ lastInput' = "user"
        /\ UNCHANGED <<session, front, half, events, command, call>>
    BY DEF UserTypes
  <1>5. /\ \A n \in 1..Len(inputs') : n \in 1..Len(inputs) \/ inputs'[n] = f
        /\ \A n \in 1..Len(inputs) : inputs'[n] = inputs[n]
    BY <1>1, <1>2, QueueGrows
  <1>6. \A n \in 1..Len(inputs) : inputs[n] \in Frames
    OBVIOUS
  <1>7. \A n \in 1..Len(inputs') : inputs'[n].by = "user"
    BY <1>2, <1>3, <1>5, <1>6, FrameFacts DEF Sources
  <1>8. ~AgentIsUnderWay'
    BY <1>3, <1>4, <1>7 DEF AgentIsUnderWay, Under
  <1>9. LinesFit'
    BY <1>3, <1>4, <1>7 DEF LinesFit, CommandIsAttributed
  <1>10. \A w \in WriteCalls : call'[w] = "waiting" =>
           /\ \A n \in 1..Len(inputs') : inputs'[n].kind # "line"
           /\ \A n \in 1..Len(events') : events'[n] # "started"
    BY <1>2, <1>3, <1>4, <1>5 DEF TurnsFit, Under
  <1>11. TurnsFit'
    BY <1>3, <1>4, <1>8, <1>10 DEF TurnsFit, Under
  <1> QED
    BY <1>9, <1>11

LEMMA CallsFit ==
  ASSUME TypingInv, NEW w \in WriteCalls, Calls(w), ~Crosses
  PROVE  LinesFit' /\ TurnsFit'
  <1> USE DEF TypingInv, InputTypes
  <1>1. /\ UNCHANGED <<session, inputs, front, half, events, command, typing>>
        /\ \A v \in WriteCalls : call[v] \notin Under
        /\ \A v \in WriteCalls : v # w => call'[v] = call[v]
    BY DEF Calls, Reach, Admit
  <1>2. \A n \in 1..Len(inputs) : inputs[n] \in Frames
    OBVIOUS
  <1>3. call'[w] \in Under =>
          events = <<>> /\ \A n \in 1..Len(inputs) : inputs[n].kind = "line" => inputs[n].by = "agent"
    BY <1>2, FrameFacts DEF Crosses, UserIsReported, Sources
  <1>4. CASE call'[w] \in {"accepted", "failed"} /\ lastInput' = lastInput
    <2>1. \A v \in WriteCalls : call'[v] \notin Under
      BY <1>1, <1>4 DEF Under
    <2>2. LinesFit'
      BY <1>1, <1>4, LinesKept DEF LinesFit
    <2> QED
      BY <1>1, <2>1, <2>2, CallIsOver
  <1>5. CASE /\ session = "running" /\ command # "user"
             /\ IF typing THEN call'[w] = "waiting" /\ lastInput' = lastInput
                ELSE call'[w] = "admitted" /\ lastInput' = "agent"
    <2>0. events = <<>> /\ \A n \in 1..Len(inputs) : inputs[n].kind = "line" => inputs[n].by = "agent"
      BY <1>3, <1>5 DEF Under
    <2>1. front # "user"
      BY <2>0, <1>5 DEF LinesFit, CommandIsAttributed
    <2>2. \A v \in WriteCalls : call'[v] \in Under => v = w
      BY <1>1
    <2>3. \A n \in 1..Len(inputs) : inputs[n].kind = "line" => ~typing
      BY <2>0 DEF TurnsFit, AgentIsUnderWay
    <2>4. typing => ~AgentIsUnderWay'
      BY <1>1, <1>5 DEF TurnsFit, AgentIsUnderWay, Under
    <2>5. LinesFit'
      BY <1>1, <1>5, <2>0, <2>3 DEF LinesFit, CommandIsAttributed
    <2>6. \A v \in WriteCalls : call'[v] = "waiting" =>
            /\ \A n \in 1..Len(inputs') : inputs'[n].kind # "line"
            /\ \A n \in 1..Len(events') : events'[n] # "started"
      BY <1>1, <1>5, <2>0, <2>2, <2>3 DEF Under
    <2>7. \A v \in WriteCalls : call'[v] = "admitted" => lastInput' = "agent"
      BY <1>5, <2>2 DEF Under
    <2>8. TurnsFit'
      BY <1>1, <2>1, <2>2, <2>4, <2>6, <2>7 DEF TurnsFit
    <2> QED
      BY <2>5, <2>8
  <1> QED
    BY <1>4, <1>5 DEF Calls, Reach, Admit, Admissible

LEMMA WaitEndsFit ==
  ASSUME TypingInv, NEW w \in WriteCalls, WaitEnds(w)
  PROVE  LinesFit' /\ TurnsFit'
  <1> USE DEF TypingInv, InputTypes
  <1>1. /\ UNCHANGED <<session, inputs, front, half, events, command, typing>>
        /\ call[w] = "waiting" /\ \A v \in WriteCalls : v # w => call'[v] = call[v]
    BY DEF WaitEnds, Reach, Admit
  <1>2. \A v \in WriteCalls : call[v] \in Under => v = w
    BY <1>1 DEF TurnsFit, Under
  <1>3. /\ front # "user" /\ \A n \in 1..Len(inputs) : inputs[n].kind # "line"
        /\ \A n \in 1..Len(events) : events[n] # "started"
    BY <1>1 DEF TurnsFit, Under
  <1>4. events # <<>> => Len(events) \in 1..Len(events)
    OBVIOUS
  <1>5. CASE call'[w] = "failed" /\ lastInput' = lastInput
    <2>1. \A v \in WriteCalls : call'[v] \notin Under
      BY <1>1, <1>2, <1>5 DEF Under
    <2>2. LinesFit'
      BY <1>1, <1>5, LinesKept DEF LinesFit
    <2> QED
      BY <1>1, <2>1, <2>2, CallIsOver
  <1>6. CASE ~typing /\ call'[w] = "admitted" /\ lastInput' = "agent"
    <2>1. \A v \in WriteCalls : call'[v] \in Under => v = w
      BY <1>1, <1>2
    <2>2. LinesFit'
      BY <1>1, <1>3, <1>4, <1>6, LinesKept DEF Last
    <2>3. TurnsFit'
      BY <1>1, <1>3, <1>6, <2>1 DEF TurnsFit, Under
    <2> QED
      BY <2>2, <2>3
  <1> QED
    BY <1>5, <1>6 DEF WaitEnds, Reach, Admit

LEMMA DeliversFit ==
  ASSUME TypingInv, NEW w \in WriteCalls, Delivers(w)
  PROVE  LinesFit' /\ TurnsFit'
  <1> USE DEF TypingInv, InputTypes
  <1>1. /\ UNCHANGED <<session, front, half, events, command, lastInput, typing>>
        /\ call[w] = "admitted" /\ \A v \in WriteCalls : v # w => call'[v] = call[v]
    BY DEF Delivers, Reach
  <1>2. \A v \in WriteCalls : call[v] \in Under => v = w
    BY <1>1 DEF TurnsFit, Under
  <1>3. lastInput = "agent" /\ ~typing /\ front # "user"
    BY <1>1 DEF TurnsFit, AgentIsUnderWay
  <1>4. CASE inputs' = inputs /\ call'[w] = "failed"
    <2>1. \A v \in WriteCalls : call'[v] \notin Under
      BY <1>1, <1>2, <1>4 DEF Under
    <2>2. LinesFit'
      BY <1>1, <1>4, LinesKept DEF LinesFit
    <2> QED
      BY <1>1, <1>4, <2>1, <2>2, CallIsOver
  <1>5. CASE inputs' = Append(inputs, Frame("agent", kind[w], w)) /\ call'[w] \in {"unsure", "sent"}
    <2> DEFINE f == Frame("agent", kind[w], w)
    <2>1. f \in Frames /\ f.by = "agent"
      BY FramesMade DEF Frame
    <2>2. /\ \A n \in 1..Len(inputs') : n \in 1..Len(inputs) \/ inputs'[n] = f
          /\ \A n \in 1..Len(inputs) : inputs'[n] = inputs[n]
      BY <1>5, <2>1, QueueGrows
    <2>3. \A v \in WriteCalls : call'[v] \in Under => v = w
      BY <1>1, <1>2
    <2>4. LinesFit'
      BY <1>1, <1>3, <2>1, <2>2, LinesKept DEF LinesFit
    <2>5. TurnsFit'
      BY <1>1, <1>3, <1>5, <2>1, <2>2, <2>3 DEF TurnsFit, Under
    <2> QED
      BY <2>4, <2>5
  <1> QED
    BY <1>4, <1>5 DEF Delivers, Reach, Enqueue

LEMMA AppliesFit ==
  ASSUME TypingInv, Applies
  PROVE  LinesFit' /\ TurnsFit'
  <1> USE DEF TypingInv, InputTypes
  <1> DEFINE f == Head(inputs)
  <1>1. /\ inputs # <<>> /\ inputs' = Tail(inputs) /\ session = "running"
        /\ UNCHANGED <<session, command, lastInput, typing>>
        /\ half' = (front = "shell" /\ (f.kind = "keys" \/ (half /\ f.kind = "size")))
        /\ call' = IF f.by = "agent" /\ f.kind = "signal" /\ call[f.of] = "unsure"
                   THEN [call EXCEPT ![f.of] = "sent"] ELSE call
    BY DEF Applies
  <1>2. \/ f.kind = "line" /\ front = "shell" /\ Begun(f.by)
        \/ front' = "shell" /\ events' = Append(events, "returned")
        \/ UNCHANGED <<front, events>>
    BY DEF Applies
  <1>3. f = inputs[1] /\ f \in Frames /\ 1 \in 1..Len(inputs)
    BY <1>1, QueueShrinks
  <1>4. \A n \in 1..Len(inputs') : n + 1 \in 1..Len(inputs) /\ inputs'[n] = inputs[n + 1]
    BY <1>1, QueueShrinks
  <1>5. \A w \in WriteCalls : call'[w] = call[w] \/ (call[w] = "unsure" /\ call'[w] = "sent")
    BY <1>1, <1>3, FrameFacts
  <1>6. /\ f.by \in Sources /\ f.kind = "size" => f.by = "user"
        /\ f.kind = "line" => f.by = lastInput
    BY <1>3, FrameFacts DEF LinesFit
  <1>7. AgentIsUnderWay' => AgentIsUnderWay
    BY <1>4, <1>5 DEF AgentIsUnderWay
  <1>8. \A w \in WriteCalls : call'[w] \in Under => call[w] \in Under
    BY <1>5 DEF Under
  <1>9. \A n \in 1..Len(inputs') : inputs'[n].kind = "line" => inputs'[n].by = lastInput'
    BY <1>1, <1>4 DEF LinesFit
  <1>10. ~typing => ~half /\ (f.by = "agent" \/ f.kind = "size")
    BY <1>3 DEF TurnsFit
  <1>11. ~typing => half' = FALSE
    <2>1. f.by = "agent" => f.kind # "keys"
      BY <1>3, FrameFacts
    <2> QED
      BY <1>1, <1>10, <2>1
  <1>12. \A w \in WriteCalls : call'[w] = "waiting" => f.kind # "line"
    BY <1>3, <1>5 DEF TurnsFit
  <1>13. \A w \in WriteCalls : call'[w] = "waiting" => \A n \in 1..Len(events') : events'[n] # "started"
    <2> SUFFICES ASSUME NEW w \in WriteCalls, call'[w] = "waiting", NEW n \in 1..Len(events')
                 PROVE  events'[n] # "started"
      OBVIOUS
    <2>1. \A i \in 1..Len(events) : events[i] # "started"
      BY <1>5 DEF TurnsFit
    <2>2. events' = events \/ events' = Append(events, "returned")
      BY <1>2, <1>12
    <2> QED
      BY <2>1, <2>2, EventsGrow
  <1>14. front' # "user" \/ (~AgentIsUnderWay' /\ \A w \in WriteCalls : call'[w] \notin Under)
    <2>1. CASE f.kind = "line" /\ Begun(f.by)
      <3>1. CASE typing
        <4>1. ~AgentIsUnderWay /\ \A w \in WriteCalls : call'[w] # "waiting"
          BY <1>12, <2>1, <3>1 DEF TurnsFit
        <4> QED
          BY <1>5, <1>7, <4>1 DEF AgentIsUnderWay, Under
      <3>2. CASE ~typing
        BY <1>6, <1>10, <2>1, <3>2 DEF Begun
      <3> QED
        BY <3>1, <3>2
    <2>2. CASE front' = "shell"
      BY <2>2
    <2>3. CASE front' = front
      BY <1>7, <1>8, <2>3 DEF TurnsFit
    <2> QED
      BY <1>2, <2>1, <2>2, <2>3
  <1>15. TurnsFit'
    <2>1. \A v, w \in WriteCalls : call'[v] \in Under /\ call'[w] \in Under => v = w
      BY <1>8 DEF TurnsFit
    <2>2. \A w \in WriteCalls : call'[w] = "admitted" => lastInput' = "agent"
      BY <1>1, <1>5 DEF TurnsFit
    <2>3. \A w \in WriteCalls : call'[w] = "waiting" => \A n \in 1..Len(inputs') : inputs'[n].kind # "line"
      BY <1>4, <1>5 DEF TurnsFit
    <2>4. typing' => ~AgentIsUnderWay'
      BY <1>1, <1>7 DEF TurnsFit
    <2>5. ~typing' => ~half' /\ \A n \in 1..Len(inputs') : inputs'[n].by = "agent" \/ inputs'[n].kind = "size"
      BY <1>1, <1>4, <1>11 DEF TurnsFit
    <2> QED
      BY <1>13, <1>14, <2>1, <2>2, <2>3, <2>4, <2>5 DEF TurnsFit
  <1>16. LinesFit'
    <2>1. CASE f.kind = "line" /\ front = "shell" /\ Begun(f.by)
      <3>1. front' = lastInput' /\ events' = Append(events, "started")
        BY <1>1, <1>6, <2>1 DEF Begun
      <3>2. events' # <<>> /\ events'[Len(events')] = "started"
        BY <3>1, EventsGrow
      <3> QED
        BY <1>1, <1>9, <3>1, <3>2 DEF LinesFit, Last, CommandIsAttributed
    <2>2. CASE front' = "shell" /\ events' = Append(events, "returned")
      <3>1. events' # <<>> /\ events'[Len(events')] = "returned"
        BY <2>2, EventsGrow
      <3> QED
        BY <1>1, <1>9, <2>2, <3>1 DEF LinesFit, Last, CommandIsAttributed
    <2>3. CASE UNCHANGED <<front, events>>
      BY <1>1, <1>9, <2>3, LinesKept
    <2> QED
      BY <1>2, <2>1, <2>2, <2>3
  <1> QED
    BY <1>15, <1>16

(* What adds no input but a size, and touches no call.                      *)
LEMMA SizeFits ==
  ASSUME TypingInv, UNCHANGED <<front, half, events, command, lastInput, typing, call>>,
         session' = session \/ (session = "starting" /\ session' = "running"),
         inputs' = inputs \/ \E n \in 1..MaxSizes : inputs' = Append(inputs, Frame("user", "size", n))
  PROVE  LinesFit' /\ TurnsFit'
  <1> USE DEF TypingInv, InputTypes
  <1>1. \A n \in 1..Len(inputs') : \/ n \in 1..Len(inputs) /\ inputs'[n] = inputs[n]
                                   \/ inputs'[n].kind = "size" /\ inputs'[n].by = "user"
    <2>1. CASE inputs' = inputs
      BY <2>1
    <2>2. ASSUME NEW k \in 1..MaxSizes, inputs' = Append(inputs, Frame("user", "size", k))
          PROVE  \A n \in 1..Len(inputs') : \/ n \in 1..Len(inputs) /\ inputs'[n] = inputs[n]
                                            \/ inputs'[n].kind = "size" /\ inputs'[n].by = "user"
      <3>1. Frame("user", "size", k) \in Frames
        BY FramesMade
      <3> QED
        BY <2>2, <3>1, QueueGrows DEF Frame
    <2> QED
      BY <2>1, <2>2
  <1>2. AgentIsUnderWay' => AgentIsUnderWay
    BY <1>1 DEF AgentIsUnderWay
  <1>3. TurnsFit'
    BY <1>1, <1>2 DEF TurnsFit
  <1>4. \A n \in 1..Len(inputs') : inputs'[n].kind = "line" => inputs'[n].by = lastInput'
    BY <1>1 DEF LinesFit
  <1>5. LinesFit /\ UNCHANGED <<front, events, command>> /\ lastInput' = lastInput
    OBVIOUS
  <1>6. ASSUME session' = session PROVE LinesFit'
    <2>1. UNCHANGED <<session, front, events, command>>
      BY <1>5, <1>6
    <2> QED
      BY ONLY <1>4, <1>5, <2>1, LinesKept
  <1>7. ASSUME session = "starting", session' = "running" PROVE LinesFit'
    <2>1. front = "shell" /\ command = "none" /\ events = <<>>
      BY <1>5, <1>7 DEF LinesFit
    <2>2. CommandIsAttributed'
      BY <1>5, <2>1 DEF CommandIsAttributed
    <2> QED
      BY <1>4, <1>5, <1>7, <2>1, <2>2 DEF LinesFit
  <1> QED
    BY <1>3, <1>6, <1>7

LEMMA TypingInvNext ==
  ASSUME TypingInv, [InputNext]_inputVars, ~Crosses
  PROVE  TypingInv'
  <1> SUFFICES LinesFit' /\ TurnsFit'
    BY InputTypesNext DEF TypingInv
  <1> USE DEF TypingInv, InputTypes
  <1>1. CASE UserTypes
    BY <1>1, TypesTheLine
  <1>2. CASE UserPauses
    <2>1. /\ UNCHANGED <<session, inputs, front, half, events, command, lastInput, call>>
          /\ ~half /\ typing' = FALSE
          /\ \A n \in 1..Len(inputs) : inputs[n].kind = "size"
      BY <1>2 DEF UserPauses
    <2>2. LinesFit'
      BY <2>1, LinesKept DEF LinesFit
    <2>3. TurnsFit'
      BY <2>1 DEF TurnsFit, AgentIsUnderWay
    <2> QED
      BY <2>2, <2>3
  <1>3. CASE Applies
    BY <1>3, AppliesFit
  <1>4. CASE ProgramReturns
    <2>1. /\ UNCHANGED <<session, inputs, half, command, lastInput, typing, call>>
          /\ session = "running" /\ front' = "shell" /\ events' = Append(events, "returned")
      BY <1>4 DEF ProgramReturns
    <2>2. /\ events' # <<>> /\ events'[Len(events')] = "returned"
          /\ \A n \in 1..Len(events') : events'[n] = "returned" \/ (n \in 1..Len(events) /\ events'[n] = events[n])
      BY <2>1, EventsGrow
    <2>3. LinesFit'
      BY <2>1, <2>2 DEF LinesFit, Last, CommandIsAttributed
    <2>4. TurnsFit'
      BY <2>1, <2>2 DEF TurnsFit, AgentIsUnderWay
    <2> QED
      BY <2>3, <2>4
  <1>5. CASE ShellReports
    <2>1. /\ UNCHANGED <<session, inputs, front, half, lastInput, typing, call>>
          /\ events # <<>> /\ events' = Tail(events)
          /\ command' = IF Head(events) = "started" THEN lastInput ELSE "none"
      BY <1>5 DEF ShellReports, StartedBy
    <2>2. /\ events' = <<>> => Head(events) = Last
          /\ events' # <<>> => events'[Len(events')] = Last
          /\ \A n \in 1..Len(events') : n + 1 \in 1..Len(events) /\ events'[n] = events[n + 1]
      BY <2>1, EventsShrink DEF Last
    <2>3. front = IF Last = "started" THEN lastInput ELSE "shell"
      BY <2>1 DEF LinesFit
    <2>4. Last = "started" => lastInput # "shell"
      BY <2>3 DEF Sources
    <2>5. LinesFit'
      BY <2>1, <2>2, <2>3, <2>4 DEF LinesFit, Last, CommandIsAttributed
    <2>6. TurnsFit'
      BY <2>1, <2>2 DEF TurnsFit, AgentIsUnderWay
    <2> QED
      BY <2>5, <2>6
  <1>6. CASE SessionEnds
    <2>1. /\ UNCHANGED <<front, half, lastInput, typing>> /\ session' = "ended" /\ events' = <<>> /\ inputs' = <<>>
          /\ \A w \in WriteCalls : call'[w] = call[w] \/ call'[w] = "failed"
          /\ \A w \in WriteCalls : call'[w] # "waiting"
      BY <1>6 DEF SessionEnds
    <2>2. 1..Len(inputs') = {}
      BY <2>1
    <2>3. LinesFit'
      BY <2>1, <2>2 DEF LinesFit, CommandIsAttributed
    <2>4. AgentIsUnderWay' => AgentIsUnderWay
      BY <2>1, <2>2 DEF AgentIsUnderWay
    <2>5. TurnsFit'
      BY <2>1, <2>2, <2>4 DEF TurnsFit, Under
    <2> QED
      BY <2>3, <2>5
  <1>7. CASE PanelChanges
    <2>1. sizes' \in 1..MaxSizes
      BY <1>7, TerminalInputAssumption DEF PanelChanges
    <2> QED
      BY <1>7, <2>1, SizeFits DEF PanelChanges, Enqueue
  <1>8. CASE Starts
    BY <1>8, SizeFits DEF Starts
  <1>9. CASE SendsAgain
    <2>1. again \in 1..MaxSizes
      BY <1>9, TerminalInputAssumption DEF SendsAgain
    <2> QED
      BY <1>9, <2>1, SizeFits DEF SendsAgain, Enqueue
  <1>10. ASSUME NEW w \in WriteCalls, Calls(w) PROVE LinesFit' /\ TurnsFit'
    BY <1>10, CallsFit
  <1>11. ASSUME NEW w \in WriteCalls, WaitEnds(w) PROVE LinesFit' /\ TurnsFit'
    BY <1>11, WaitEndsFit
  <1>12. ASSUME NEW w \in WriteCalls, Delivers(w) PROVE LinesFit' /\ TurnsFit'
    BY <1>12, DeliversFit
  <1>13. ASSUME NEW w \in WriteCalls, AckIsLate(w) \/ Accepts(w) PROVE LinesFit' /\ TurnsFit'
    <2>1. /\ UNCHANGED <<session, inputs, front, half, events, command, lastInput, typing>>
          /\ call[w] \in {"unsure", "sent"} /\ call'[w] \in {"failed", "accepted"}
          /\ \A v \in WriteCalls : v # w => call'[v] = call[v]
      BY <1>13 DEF AckIsLate, Accepts, Reach
    <2>2. \A v \in WriteCalls : call'[v] \notin Under
      BY <2>1 DEF TurnsFit, Under
    <2>3. LinesFit'
      BY <2>1, LinesKept DEF LinesFit
    <2> QED
      BY <2>1, <2>2, <2>3, CallIsOver
  <1>14. CASE UNCHANGED inputVars
    BY <1>14, SizeFits DEF inputVars, typingVars
  <1> QED
    BY <1>1, <1>2, <1>3, <1>4, <1>5, <1>6, <1>7, <1>8, <1>9, <1>10, <1>11, <1>12, <1>13, <1>14 DEF InputNext

(* A step that crosses inputs is noticed.                                   *)
LEMMA CrossingIsSeen ==
  ASSUME Crosses, [TypingStep]_typingWatchVars, InputTypes
  PROVE  crossed'
  <1>1. CASE UserTypes
    <2>1. PICK what \in {"keys", "line", "erase"} : inputs' = Append(inputs, Frame("user", what, Panel))
      BY <1>1 DEF UserTypes, Enqueue
    <2>2. Len(inputs') = Len(inputs) + 1 /\ Len(inputs) \in Nat
      BY <2>1, FramesMade, QueueGrows DEF InputTypes
    <2>3. inputs' # inputs
      BY <2>2
    <2> QED
      BY <2>3 DEF TypingStep, typingWatchVars, inputVars, typingVars
  <1>2. ASSUME NEW w \in WriteCalls, Calls(w), call'[w] \in Under PROVE crossed'
    <2>1. call' # call
      BY <1>2 DEF Calls
    <2> QED
      BY <1>2, <2>1 DEF TypingStep, typingWatchVars, inputVars, typingVars
  <1> QED
    BY <1>1, <1>2 DEF Crosses

(***************************************************************************)
(* What is typed for a call of the Agent reaches the terminal once, however *)
(* often the call is made, unless the confirmation of its signal was given  *)
(* up (TerminalInteraction.write and signal).                              *)
(***************************************************************************)
THEOREM InputsGoOnce ==
  InputSpec /\ TypingWatch => [](\A w \in WriteCalls \ late : applied[w] <= 1)
  <1>1. InputInit => OnceInv
    <2> SUFFICES ASSUME InputInit PROVE OnceFits
      BY InputTypesInit DEF OnceInv
    <2>1. 1..Len(inputs) = {}
      BY DEF InputInit
    <2> QED
      BY <2>1 DEF InputInit, OnceFits, Prompt
  <1>2. OnceInv /\ [InputNext]_inputVars /\ [TypingStep]_typingWatchVars => OnceInv'
    BY InputTypesNext, OnceFitsNext DEF OnceInv
  <1>3. OnceInv => \A w \in WriteCalls \ late : applied[w] <= 1
    BY DEF OnceInv, OnceFits, Prompt
  <1> QED
    BY <1>1, <1>2, <1>3, PTL DEF InputSpec, TypingWatch

(***************************************************************************)
(* As long as the inputs of the user and the Agent have not crossed, a      *)
(* command that runs is attributed to who typed it, and no input of the     *)
(* Agent falls into a program or a half line of the user (user_input and    *)
(* _admit_agent_input, which do not wait for what is on its way).           *)
(***************************************************************************)
TypedApart == crossed \/ TypingInv

LEMMA TypedApartNext ==
  ASSUME InputTypes, TypedApart, [InputNext]_inputVars, [TypingStep]_typingWatchVars
  PROVE  TypedApart'
  <1>1. crossed => crossed'
    BY DEF TypingStep, typingWatchVars
  <1>2. CASE Crosses
    BY <1>2, CrossingIsSeen DEF TypedApart
  <1>3. CASE ~Crosses
    BY <1>1, <1>3, TypingInvNext DEF TypedApart
  <1> QED
    BY <1>2, <1>3

THEOREM TypingIsTold ==
  InputSpec /\ TypingWatch =>
    /\ [](CommandIsAttributed \/ crossed)
    /\ [][(inputs # <<>> /\ inputs' = Tail(inputs) /\ Head(inputs).by = "agent") =>
             (front # "user" /\ ~half) \/ crossed]_inputVars
  <1> DEFINE Inv == InputTypes /\ TypedApart
  <1>1. InputInit => Inv
    <2> SUFFICES ASSUME InputInit PROVE LinesFit /\ TurnsFit
      BY InputTypesInit DEF TypingInv, TypedApart
    <2>1. 1..Len(inputs) = {}
      BY DEF InputInit
    <2> QED
      BY <2>1 DEF InputInit, LinesFit, TurnsFit, AgentIsUnderWay, CommandIsAttributed, Under
  <1>2. Inv /\ [InputNext]_inputVars /\ [TypingStep]_typingWatchVars => Inv'
    BY InputTypesNext, TypedApartNext
  <1>3. Inv => CommandIsAttributed \/ crossed
    BY DEF TypedApart, TypingInv, LinesFit
  <1>4. Inv /\ [InputNext]_inputVars =>
          [(inputs # <<>> /\ inputs' = Tail(inputs) /\ Head(inputs).by = "agent") =>
             (front # "user" /\ ~half) \/ crossed]_inputVars
    <2> SUFFICES ASSUME TypingInv, inputs # <<>>, Head(inputs).by = "agent" PROVE front # "user" /\ ~half
      BY DEF TypedApart
    <2>1. 1 \in 1..Len(inputs) /\ Head(inputs) = inputs[1]
      BY DEF TypingInv, InputTypes
    <2>2. AgentIsUnderWay
      BY <2>1 DEF AgentIsUnderWay
    <2> QED
      BY <2>2 DEF TypingInv, TurnsFit
  <1> QED
    BY <1>1, <1>2, <1>3, <1>4, PTL DEF InputSpec, TypingWatch

-----------------------------------------------------------------------------
(***************************************************************************)
(* The worker of a session or a command, for any programs, any input and   *)
(* any order of its threads.                                               *)
(***************************************************************************)
Shells == {"leader", "job", "stray"}
WorkerEvents == {"write", "resize", "shutdown", "backend_eof", "output_failed", "read_failed",
                 "wait_failed", "eof", "exited"}
WorkerFrames == [kind : {"output", "screen", "shell"}, upto : Nat]
Items == {"text", "query", "p1", "p2"}

ScreenType == [upto : Nat, size : Sizes, prompt : {"none", "p1", "p2"}]
ReaderType == [state : {"reading", "holding", "ended"}, last : Nat, frames : Seq(WorkerFrames), mute : BOOLEAN]
MainType == [at : {"first", "loop", "scan", "signal", "reap", "done"}, round : {"ask", "KILL"},
             members : SUBSET Shells, code : BOOLEAN]
ArbiterType == [exited : BOOLEAN, eof : BOOLEAN, late : BOOLEAN, cleaned : BOOLEAN]
ReceivedType == [hello : BOOLEAN, output : Nat, screen : Nat, size : Sizes, shell : Nat,
                 end : {"none", "code", "forced", "failed"}]

WorkerTypes ==
  /\ mode \in {"none", "session", "exec"} /\ procs \subseteq Shells /\ output \in Seq(Items)
  /\ screen \in ScreenType
  /\ reader \in ReaderType
  /\ observed \in Seq(WorkerEvents)
  /\ main \in MainType
  /\ arbiter \in ArbiterType
  /\ backend \in {"beating", "silent", "gone"}
  /\ received \in ReceivedType

(* What the reader still sends is of where the screen is: the output comes  *)
(* first and a marker last.                                                *)
FramesFor(q, n) ==
  \A i \in 1..Len(q) :
    /\ q[i].upto = n
    /\ q[i].kind # "output" => received.output = n \/ \E j \in 1..(i - 1) : q[j].kind = "output"
    /\ q[i].kind = "shell" =>
         TextIn(received.screen) = TextIn(n) \/ \E j \in 1..(i - 1) : q[j].kind = "screen"

ReaderFits ==
  /\ received.screen <= received.output /\ received.output <= screen.upto
  /\ screen.upto <= reader.last /\ reader.last <= Len(output)
  /\ reader.state # "holding" => reader.frames = <<>>
  /\ reader.state = "reading" \/ (reader.state = "ended" /\ backend # "gone") => received.output = reader.last
  /\ mode # "exec" /\ reader.state = "reading" => TextIn(received.screen) = TextIn(screen.upto)
  /\ backend # "gone" => received.size = screen.size
  /\ FramesFor(reader.frames, screen.upto)

(* Before the first frame nothing was started, seen or told.               *)
FirstFits ==
  /\ main.at = "first" => mode = "none"
  /\ mode = "none" =>
       /\ observed = <<>> /\ procs = {} /\ ~main.code /\ ~received.hello /\ reader.state = "reading"
       /\ ~arbiter.eof /\ ~arbiter.exited /\ ~arbiter.cleaned

(* The end of the output is seen when nobody can write any more and all was *)
(* sent; the end is told with a code only then or when the wait is over.   *)
Observes(e) == \E i \in 1..Len(observed) : observed[i] = e
CodeFits ==
  /\ "read" \notin WorkerFaults /\ (Observes("eof") \/ arbiter.eof) =>
       reader.state = "ended" /\ procs = {} /\ received.output = Len(output)
  /\ received.end = "code" \/ (mode = "session" /\ main.code) => arbiter.late \/ arbiter.eof

(* Where the main loop is tells what still runs: what the clean-up has not  *)
(* ended has left the group.                                               *)
Strays == {"stray"}
VARIABLE unseen  \* history: a process started another between the last scan and its signal

(* It says what has happened and excludes no behaviour of the worker.       *)
ForksBehind == ForksUnseen /\ "job" \in procs' \ procs
ForkStep == unseen' = (unseen \/ ForksBehind)
ForkWatch == unseen = FALSE /\ [][ForkStep]_<<workerVars, unseen>>

GroupFits ==
  /\ main.at = "reap" => procs \subseteq Strays
  /\ main.at = "signal" /\ main.round = "KILL" => procs \ Strays \subseteq main.members
  /\ mode = "exec" /\ arbiter.exited => arbiter.cleaned
  /\ mode = "exec" /\ arbiter.cleaned /\ main.at = "loop" => procs \subseteq Strays
  /\ main.at = "done" => procs \subseteq Strays

(* Whoever leaves the loop has told the end.                               *)
ToldFits ==
  /\ Observes("output_failed") => backend = "gone"
  /\ mode = "none" => ~received.hello
  /\ mode = "exec" /\ main.code => received.end # "none" \/ backend = "gone"
  /\ main.at = "done" /\ received.hello => received.end # "none" \/ backend = "gone"

LEMMA WorkerTypesInit == WorkerInit => WorkerTypes
  <1> SUFFICES ASSUME WorkerInit PROVE WorkerTypes
    OBVIOUS
  <1>1. output \in Seq(Items) /\ observed \in Seq(WorkerEvents)
    BY DEF WorkerInit
  <1>2. reader \in ReaderType
    BY DEF WorkerInit, ReaderType
  <1>3. screen \in ScreenType /\ received \in ReceivedType
    BY DEF WorkerInit, ScreenType, ReceivedType, Sizes
  <1>4. main \in MainType /\ arbiter \in ArbiterType
    BY DEF WorkerInit, IdleMain, MainType, ArbiterType
  <1> QED
    BY <1>1, <1>2, <1>3, <1>4 DEF WorkerInit, WorkerTypes

LEMMA FramesMadeByReader ==
  ASSUME NEW n \in Nat
  PROVE  /\ Output(n) \in Seq(WorkerFrames) /\ Screen(n) \in Seq(WorkerFrames)
         /\ MarkedFrames(n) \in Seq(WorkerFrames) /\ Output(n) \o Screen(n) \in Seq(WorkerFrames)
  <1>1. \A k \in {"output", "screen", "shell"} : WorkerFrame(k, n) \in WorkerFrames
    BY DEF WorkerFrame, WorkerFrames
  <1>2. Output(n) \in Seq(WorkerFrames)
    BY <1>1 DEF Output
  <1>3. Screen(n) \in Seq(WorkerFrames)
    BY <1>1 DEF Screen
  <1>4. <<WorkerFrame("shell", n)>> \in Seq(WorkerFrames)
    BY <1>1
  <1> HIDE DEF WorkerFrames
  <1>5. Output(n) \o Screen(n) \in Seq(WorkerFrames)
    BY <1>2, <1>3
  <1>6. MarkedFrames(n) \in Seq(WorkerFrames)
    BY <1>4, <1>5 DEF MarkedFrames
  <1> QED
    BY <1>2, <1>3, <1>5, <1>6

LEMMA ObservedGrows ==
  ASSUME observed \in Seq(WorkerEvents), NEW e \in WorkerEvents, observed' = Append(observed, e)
  PROVE  /\ observed' \in Seq(WorkerEvents)
         /\ \A x : Observes(x)' => Observes(x) \/ x = e
  <1>1. /\ observed' \in Seq(WorkerEvents)
        /\ \A i \in 1..Len(observed') : observed'[i] = e \/ (i \in 1..Len(observed) /\ observed'[i] = observed[i])
    OBVIOUS
  <1> QED
    BY <1>1 DEF Observes

LEMMA ObservedShrinks ==
  ASSUME observed \in Seq(WorkerEvents), NEW e, TakesEvent(e)
  PROVE  /\ observed' \in Seq(WorkerEvents) /\ Observes(e)
         /\ \A x : Observes(x)' => Observes(x)
  <1>1. observed # <<>> /\ Head(observed) = e /\ observed' = Tail(observed)
    BY DEF TakesEvent
  <1>2. /\ observed' \in Seq(WorkerEvents) /\ 1 \in 1..Len(observed) /\ observed[1] = e
        /\ \A i \in 1..Len(observed') : i + 1 \in 1..Len(observed) /\ observed'[i] = observed[i + 1]
    BY <1>1
  <1> QED
    BY <1>2 DEF Observes

LEMMA SendsEffect ==
  ASSUME WorkerTypes, reader.frames # <<>>, SendsFrame(Head(reader.frames)), FramesFor(reader.frames, screen.upto)
  PROVE  LET f == Head(reader.frames) IN
         /\ backend # "gone" /\ f \in WorkerFrames /\ f = reader.frames[1] /\ f.upto = screen.upto
         /\ \/ f.kind = "output" /\ received' = [received EXCEPT !.output = screen.upto]
            \/ f.kind = "screen" /\ received' = [received EXCEPT !.screen = screen.upto, !.size = screen.size]
            \/ f.kind = "shell" /\ received' = [received EXCEPT !.shell = screen.upto]
  <1> DEFINE f == Head(reader.frames)
  <1>1. reader.frames \in Seq(WorkerFrames)
    BY DEF WorkerTypes, ReaderType
  <1>2. f = reader.frames[1] /\ f \in WorkerFrames /\ 1 \in 1..Len(reader.frames)
    BY <1>1
  <1>3. f.upto = screen.upto
    BY <1>2 DEF FramesFor
  <1>4. f.kind \in {"output", "screen", "shell"}
    BY <1>2 DEF WorkerFrames
  <1> HIDE DEF f
  <1>5. /\ backend # "gone"
        /\ received' = CASE f.kind = "output" -> [received EXCEPT !.output = f.upto]
               [] f.kind = "screen" -> [received EXCEPT !.screen = f.upto, !.size = screen.size]
               [] f.kind = "shell"  -> [received EXCEPT !.shell = f.upto]
    BY DEF SendsFrame, f
  <1> QED
    BY <1>2, <1>3, <1>4, <1>5 DEF f

LEMMA CleanUpTypes ==
  ASSUME main \in MainType, arbiter \in ArbiterType, NEW b \in BOOLEAN,
         (CleanUp(b) /\ UNCHANGED arbiter) \/ CleansOnce(b)
  PROVE  main' \in MainType /\ arbiter' \in ArbiterType
  <1>1. main' = main \/ CleanUp(b) \/ main' = [main EXCEPT !.at = "done"] \/ main' = [main EXCEPT !.at = "loop"]
    BY DEF CleansOnce
  <1>2. main' \in MainType
    BY <1>1 DEF CleanUp, MainType
  <1>3. arbiter' = arbiter \/ arbiter' = [arbiter EXCEPT !.cleaned = TRUE]
    BY DEF CleansOnce
  <1> QED
    BY <1>2, <1>3 DEF ArbiterType

LEMMA TellsEndEffect ==
  ASSUME received \in ReceivedType, NEW b, TellsEnd(b)
  PROVE  /\ received' \in ReceivedType
         /\ received' = received \/ received' = [received EXCEPT !.end = IF b THEN "code" ELSE "forced"]
         /\ received'.end # "none" \/ backend = "gone"
  <1>1. received' = received \/ received' = [received EXCEPT !.end = IF b THEN "code" ELSE "forced"]
    BY DEF TellsEnd
  <1>2. received'.end # "none" \/ backend = "gone"
    BY DEF TellsEnd, ReceivedType
  <1> QED
    BY <1>1, <1>2 DEF ReceivedType

LEMMA ReaderTypesNext ==
  ASSUME WorkerTypes, ReaderFits, ReaderSteps
  PROVE  WorkerTypes'
  <1> USE DEF WorkerTypes
  <1>1. CASE ReaderTakes
    <2>1. \E n \in Nat : reader' = [reader EXCEPT !.state = "holding", !.last = n]
      <3>1. reader.last \in Nat /\ Len(output) \in Nat
        BY DEF ReaderType
      <3>2. PICK n \in reader.last + 1 .. Len(output) : reader' = [reader EXCEPT !.state = "holding", !.last = n]
        BY <1>1 DEF ReaderTakes
      <3>3. n \in Nat
        BY <3>1, <3>2
      <3> QED
        BY <3>2, <3>3
    <2>2. reader' \in ReaderType
      BY <2>1 DEF ReaderType
    <2> QED
      BY <1>1, <2>2 DEF ReaderTakes
  <1>2. CASE ReaderAdvances
    <2> DEFINE n == screen.upto + 1
               k == output[n]
    <2>1. n \in Nat /\ n \in 1..Len(output)
      <3>1. screen.upto \in Nat /\ reader.last \in Nat /\ Len(output) \in Nat
        BY DEF ScreenType, ReaderType
      <3> QED
        BY <1>2, <3>1 DEF ReaderAdvances, ReaderFits
    <2>2. k \in Items
      BY <2>1
    <2>3. screen' = [screen EXCEPT !.upto = n, !.prompt = IF IsEvent(k) THEN k ELSE @]
      BY <1>2 DEF ReaderAdvances
    <2>4. screen' \in ScreenType
      <3> HIDE DEF n, k
      <3>1. screen.prompt \in {"none", "p1", "p2"}
        BY DEF ScreenType
      <3> DEFINE mark == IF IsEvent(k) THEN k ELSE screen.prompt
      <3>2. mark \in {"none", "p1", "p2"}
        BY <3>1 DEF IsEvent
      <3>3. screen' = [screen EXCEPT !.upto = n, !.prompt = mark]
        BY <2>3, <3>1
      <3> HIDE DEF mark
      <3>4. screen' = [upto |-> n, size |-> screen.size, prompt |-> mark] /\ screen.size \in Sizes
        BY <3>3 DEF ScreenType
      <3>5. n \in Nat
        BY <2>1
      <3> QED
        BY ONLY <3>2, <3>4, <3>5 DEF ScreenType
    <2>5. MarkedFrames(n) \in Seq(WorkerFrames) /\ <<>> \in Seq(WorkerFrames)
      <3> HIDE DEF n
      <3>1. MarkedFrames(n) \in Seq(WorkerFrames)
        BY ONLY <2>1, FramesMadeByReader
      <3> QED
        BY <3>1
    <2>6. reader' \in ReaderType
      <3>1. \/ AnswersQuery
            \/ reader' = [reader EXCEPT !.frames = MarkedFrames(n)]
            \/ reader' = [reader EXCEPT !.frames = <<>>]
        BY <1>2 DEF ReaderAdvances
      <3>2. \/ reader' = reader \/ reader' = [reader EXCEPT !.mute = TRUE]
            \/ reader' = [reader EXCEPT !.frames = MarkedFrames(n)]
            \/ reader' = [reader EXCEPT !.frames = <<>>]
        BY <3>1 DEF AnswersQuery
      <3> HIDE DEF n
      <3> QED
        BY <2>5, <3>2 DEF ReaderType
    <2> QED
      BY <1>2, <2>4, <2>6 DEF ReaderAdvances
  <1>3. CASE ReaderFinishes
    <2>1. LastFrames \in Seq(WorkerFrames)
      <3>1. reader.last \in Nat
        BY DEF ReaderType
      <3>2. /\ Output(reader.last) \in Seq(WorkerFrames)
            /\ Output(reader.last) \o Screen(reader.last) \in Seq(WorkerFrames)
        BY <3>1, FramesMadeByReader
      <3>3. Output(reader.last) \o <<>> = Output(reader.last)
        BY <3>2
      <3> QED
        BY <3>2, <3>3 DEF LastFrames
    <2>2. reader' = [reader EXCEPT !.state = "reading"] \/ reader' = [reader EXCEPT !.frames = LastFrames]
      BY <1>3 DEF ReaderFinishes
    <2>3. reader' \in ReaderType
      BY <2>1, <2>2 DEF ReaderType
    <2> QED
      BY <1>3, <2>3 DEF ReaderFinishes
  <1>4. CASE ReaderSends
    <2>1. reader.frames \in Seq(WorkerFrames) /\ reader.frames # <<>>
      BY <1>4 DEF ReaderSends, ReaderType
    <2>2. Tail(reader.frames) \in Seq(WorkerFrames)
      BY <2>1
    <2>3. CASE SendsFrame(Head(reader.frames)) /\ reader' = [reader EXCEPT !.frames = Tail(@)] /\ UNCHANGED observed
      <3>1. received' \in ReceivedType
        <4>1. \/ received' = [received EXCEPT !.output = screen.upto]
              \/ received' = [received EXCEPT !.screen = screen.upto, !.size = screen.size]
              \/ received' = [received EXCEPT !.shell = screen.upto]
          BY <2>1, <2>3, SendsEffect DEF ReaderFits
        <4>2. screen.upto \in Nat /\ screen.size \in Sizes
          BY DEF ScreenType
        <4> QED
          BY <4>1, <4>2 DEF ReceivedType
      <3>2. reader' \in ReaderType
        BY <2>2, <2>3 DEF ReaderType
      <3> QED
        BY <1>4, <2>3, <3>1, <3>2 DEF ReaderSends
    <2>4. CASE ReportsEvent("output_failed") /\ reader' = [reader EXCEPT !.state = "ended", !.frames = <<>>]
               /\ UNCHANGED received
      <3>1. observed' \in Seq(WorkerEvents)
        BY <2>4, ObservedGrows DEF ReportsEvent, WorkerEvents
      <3>2. <<>> \in Seq(WorkerFrames)
        OBVIOUS
      <3>3. reader' \in ReaderType
        BY <2>4, <3>2 DEF ReaderType
      <3> QED
        BY <1>4, <2>4, <3>1, <3>3 DEF ReaderSends
    <2> QED
      BY <1>4, <2>3, <2>4 DEF ReaderSends
  <1>5. CASE ReaderEnds
    <2>1. \E e \in {"eof", "read_failed"} : observed' = Append(observed, e)
      BY <1>5 DEF ReaderEnds, ReportsEvent
    <2>2. observed' \in Seq(WorkerEvents)
      BY <2>1, ObservedGrows DEF WorkerEvents
    <2>3. reader' \in ReaderType
      BY <1>5 DEF ReaderEnds, ReaderType
    <2> QED
      BY <1>5, <2>2, <2>3 DEF ReaderEnds
  <1> QED
    BY <1>1, <1>2, <1>3, <1>4, <1>5 DEF ReaderSteps

LEMMA MainTypesNext ==
  ASSUME WorkerTypes, MainTakes
  PROVE  WorkerTypes'
  <1> USE DEF WorkerTypes
  <1>1. CASE TakesWrite
    <2>1. observed' \in Seq(WorkerEvents)
      BY <1>1, ObservedShrinks DEF TakesWrite
    <2>2. main' = main \/ CleanUp(FALSE)
      BY <1>1 DEF TakesWrite
    <2>3. main' \in MainType
      BY <2>2 DEF CleanUp, MainType
    <2> QED
      BY <1>1, <2>1, <2>3 DEF TakesWrite, TakesEvent
  <1>2. CASE TakesResize
    <2>1. observed' \in Seq(WorkerEvents)
      BY <1>2, ObservedShrinks DEF TakesResize
    <2>2. screen' = screen \/ \E s \in Sizes : screen' = [screen EXCEPT !.size = s]
      BY <1>2 DEF TakesResize
    <2>3. screen' \in ScreenType
      BY <2>2 DEF ScreenType
    <2>4. main' = main \/ CleanUp(FALSE)
      BY <1>2 DEF TakesResize
    <2>5. main' \in MainType
      BY <2>4 DEF CleanUp, MainType
    <2>6. received' = received \/ received' = [received EXCEPT !.screen = screen.upto, !.size = screen'.size]
      BY <1>2 DEF TakesResize
    <2>7. screen.upto \in Nat /\ screen'.size \in Sizes
      BY <2>3 DEF ScreenType
    <2>8. received' \in ReceivedType
      BY <2>6, <2>7 DEF ReceivedType
    <2> QED
      BY <1>2, <2>1, <2>3, <2>5, <2>8 DEF TakesResize, TakesEvent
  <1>3. CASE TakesEnd
    <2>1. observed' \in Seq(WorkerEvents)
      BY <1>3, ObservedShrinks DEF TakesEnd
    <2>2. (CleanUp(FALSE) /\ UNCHANGED arbiter) \/ CleansOnce(FALSE)
      BY <1>3 DEF TakesEnd, StopsAll
    <2> QED
      BY <1>3, <2>1, <2>2, CleanUpTypes DEF TakesEnd, TakesEvent
  <1>4. CASE TakesFailure
    <2>1. observed' \in Seq(WorkerEvents)
      BY <1>4, ObservedShrinks DEF TakesFailure
    <2>2. (CleanUp(FALSE) /\ UNCHANGED arbiter) \/ CleansOnce(TRUE)
      BY <1>4 DEF TakesFailure
    <2>3. received' = received \/ received' = [received EXCEPT !.end = "failed"] \/ received' = [received EXCEPT !.end = @]
      BY <1>4 DEF TakesFailure
    <2>4. received' \in ReceivedType
      BY <2>3 DEF ReceivedType
    <2> QED
      BY <1>4, <2>1, <2>2, <2>4, CleanUpTypes DEF TakesFailure, TakesEvent
  <1>5. CASE TakesEof
    <2>1. observed' \in Seq(WorkerEvents)
      BY <1>5, ObservedShrinks DEF TakesEof
    <2>2. arbiter' \in ArbiterType
      BY <1>5 DEF TakesEof, ArbiterType
    <2> QED
      BY <1>5, <2>1, <2>2 DEF TakesEof, TakesEvent
  <1>6. CASE TakesExit
    <2>1. observed' \in Seq(WorkerEvents)
      BY <1>6, ObservedShrinks DEF TakesExit
    <2>2. main' = main \/ CleanUp(FALSE)
      BY <1>6 DEF TakesExit
    <2>3. main' \in MainType
      BY <2>2 DEF CleanUp, MainType
    <2>4. arbiter' \in ArbiterType
      BY <1>6 DEF TakesExit, ArbiterType
    <2> QED
      BY <1>6, <2>1, <2>3, <2>4 DEF TakesExit, TakesEvent
  <1> QED
    BY <1>1, <1>2, <1>3, <1>4, <1>5, <1>6 DEF MainTakes

LEMMA RunWorkerEffect ==
  ASSUME RunWorker
  PROVE  /\ main.at = "first" /\ UNCHANGED <<output, screen, reader, writer, observed, arbiter, backend, sent>>
         /\ \/ main' = [main EXCEPT !.at = "done"] /\ UNCHANGED <<mode, procs, received>>
            \/ \E m \in {"session", "exec"}, started \in BOOLEAN :
                 /\ mode' = m /\ procs' = (IF started THEN {"leader"} ELSE {})
                 /\ main' = [main EXCEPT !.at = IF started THEN "loop" ELSE "done"]
                 /\ received' = [received EXCEPT !.hello = started \/ m = "exec",
                                   !.end = IF m = "exec" /\ ~started THEN "failed" ELSE @]
  BY WorkerAssumption DEF RunWorker

LEMMA ProgramEffect ==
  ASSUME ProgramForks \/ ProgramLeaves \/ ProgramEnds
  PROVE  /\ UNCHANGED <<mode, output, screen, reader, writer, observed, main, arbiter, backend, sent, received>>
         /\ Running /\ procs # {} /\ procs' \subseteq procs \cup Shells
         /\ \/ "leader" \in procs /\ (ForksUnseen => ForksWhileScanned) /\ procs' = procs \cup {"job"}
            \/ procs' \subseteq procs \cup {"stray"}
  <1>1. CASE ProgramForks
    BY <1>1 DEF ProgramForks, Program, Shells
  <1>2. CASE ProgramLeaves
    BY <1>2 DEF ProgramLeaves, Program, Shells
  <1>3. CASE ProgramEnds
    BY <1>3 DEF ProgramEnds, Program, Shells
  <1> QED
    BY <1>1, <1>2, <1>3

LEMMA WorkerTypesNext ==
  ASSUME WorkerTypes, ReaderFits, [WorkerNext]_workerVars
  PROVE  WorkerTypes'
  <1> USE DEF WorkerTypes
  <1>1. CASE RunWorker
    <2>1. procs' \subseteq Shells /\ mode' \in {"none", "session", "exec"}
      BY <1>1, RunWorkerEffect DEF Shells
    <2>2. main' \in MainType
      BY <1>1, RunWorkerEffect DEF MainType
    <2>3. received' \in ReceivedType
      <3>1. CASE received' = received
        BY <3>1
      <3>2. ASSUME NEW m, NEW started \in BOOLEAN,
                   received' = [received EXCEPT !.hello = started \/ m = "exec",
                                   !.end = IF m = "exec" /\ ~started THEN "failed" ELSE @]
            PROVE  received' \in ReceivedType
        BY <3>2 DEF ReceivedType
      <3> QED
        BY <1>1, <3>1, <3>2, RunWorkerEffect
    <2> QED
      BY <1>1, <2>1, <2>2, <2>3, RunWorkerEffect
  <1>2. CASE ProgramWrites
    <2>1. PICK s \in Scripts : /\ Len(output) < Len(s)
                               /\ output' = Append(output, IF mode = "session" THEN s[Len(output) + 1] ELSE "text")
      BY <1>2 DEF ProgramWrites, Program
    <2>2. s[Len(output) + 1] \in Items
      <3>1. s \in Seq(Items)
        BY WorkerAssumption DEF Items
      <3>2. Len(output) \in Nat /\ Len(output) + 1 \in 1..Len(s)
        BY <2>1, <3>1
      <3> QED
        BY <3>1, <3>2
    <2>3. (IF mode = "session" THEN s[Len(output) + 1] ELSE "text") \in Items
      BY <2>2 DEF Items
    <2>4. output' \in Seq(Items)
      BY <2>1, <2>3
    <2> QED
      BY <1>2, <2>4 DEF ProgramWrites, Program
  <1>3. CASE ProgramForks \/ ProgramLeaves \/ ProgramEnds
    BY <1>3, ProgramEffect
  <1>4. CASE ReaderSteps
    BY <1>4, ReaderTypesNext
  <1>5. CASE WriterWrites
    BY <1>5 DEF WriterWrites
  <1>6. CASE WatcherSees
    <2>1. observed' \in Seq(WorkerEvents)
      BY <1>6, ObservedGrows DEF WatcherSees, ReportsEvent, WorkerEvents
    <2> QED
      BY <1>6, <2>1 DEF WatcherSees
  <1>7. CASE Scan
    <2>1. main' \in MainType
      BY <1>7 DEF Scan, Members, MainType
    <2> QED
      BY <1>7, <2>1 DEF Scan
  <1>8. CASE Signal
    <2>1. main' \in MainType
      BY <1>8 DEF Signal, MainType
    <2> QED
      BY <1>8, <2>1 DEF Signal
  <1>9. CASE ReapsShell
    <2>1. \E p \in {"done", "loop"} : main' = [main EXCEPT !.at = p]
      BY <1>9 DEF ReapsShell
    <2>2. main' \in MainType
      BY <2>1 DEF MainType
    <2>3. received' \in ReceivedType
      BY <1>9, TellsEndEffect DEF ReapsShell
    <2> QED
      BY <1>9, <2>2, <2>3 DEF ReapsShell
  <1>10. CASE Exits
    <2>1. main' = [main EXCEPT !.at = "done"] \/ CleanUp(TRUE)
      BY <1>10 DEF Exits
    <2>2. main' \in MainType
      BY <2>1 DEF CleanUp, MainType
    <2>3. received' \in ReceivedType
      BY <1>10, TellsEndEffect DEF Exits
    <2> QED
      BY <1>10, <2>2, <2>3 DEF Exits
  <1>11. CASE DrainIsOver
    <2>1. arbiter' \in ArbiterType
      BY <1>11 DEF DrainIsOver, ArbiterType
    <2> QED
      BY <1>11, <2>1 DEF DrainIsOver
  <1>12. CASE HeartbeatIsLost
    <2>1. (CleanUp(FALSE) /\ UNCHANGED arbiter) \/ CleansOnce(FALSE)
      BY <1>12 DEF HeartbeatIsLost, StopsAll
    <2> QED
      BY <1>12, <2>1, CleanUpTypes DEF HeartbeatIsLost
  <1>13. CASE MainTakes
    BY <1>13, MainTypesNext
  <1>14. CASE BackendSends
    <2>1. \E e \in WorkerEvents : observed' = Append(observed, e)
      BY <1>14, WorkerAssumption DEF BackendSends, ReportsEvent, WorkerEvents
    <2>2. observed' \in Seq(WorkerEvents)
      BY <2>1, ObservedGrows
    <2> QED
      BY <1>14, <2>2 DEF BackendSends
  <1>15. CASE BackendFails
    <2>1. observed' = observed \/ observed' = Append(observed, "backend_eof")
      BY <1>15 DEF BackendFails, ReportsEvent
    <2>2. observed' \in Seq(WorkerEvents)
      BY <2>1, ObservedGrows DEF WorkerEvents
    <2> QED
      BY <1>15, <2>2 DEF BackendFails
  <1>16. CASE UNCHANGED workerVars
    BY <1>16 DEF workerVars
  <1> QED
    BY <1>1, <1>2, <1>3, <1>4, <1>5, <1>6, <1>7, <1>8, <1>9, <1>10, <1>11, <1>12, <1>13, <1>14, <1>15, <1>16
       DEF WorkerNext, ReaderSteps, MainTakes
LEMMA ReaderFitsInit == WorkerInit => ReaderFits
  <1> SUFFICES ASSUME WorkerInit PROVE ReaderFits
    OBVIOUS
  <1>1. reader.frames = <<>> /\ reader.last = 0 /\ screen.upto = 0 /\ Len(output) = 0 /\ screen.size = "small"
        /\ received.screen = 0 /\ received.output = 0 /\ received.size = "small"
    BY DEF WorkerInit
  <1>2. FramesFor(reader.frames, screen.upto)
    BY <1>1 DEF FramesFor
  <1> QED
    BY <1>1, <1>2 DEF ReaderFits

(* The joins of short sequences. *)
LEMMA PairJoined == ASSUME NEW a, NEW b PROVE <<a>> \o <<b>> = <<a, b>>
  <1> DEFINE S == {a, b}
             q == <<a>> \o <<b>>
             r == <<a, b>>
  <1>1. <<a>> \in Seq(S) /\ <<b>> \in Seq(S)
    OBVIOUS
  <1>2. q \in Seq(S) /\ Len(q) = 2 /\ q[1] = a /\ q[2] = b
    BY <1>1
  <1>3. r \in Seq(S) /\ Len(r) = 2 /\ r[1] = a /\ r[2] = b
    OBVIOUS
  <1> HIDE DEF q, r
  <1>4. q = r
    BY <1>2, <1>3
  <1> QED
    BY <1>4 DEF q, r

LEMMA TripleJoined ==
  ASSUME NEW a, NEW b, NEW c PROVE <<a, b>> \o <<c>> = <<a, b, c>>
  <1> DEFINE S == {a, b, c}
             q == <<a, b>> \o <<c>>
             r == <<a, b, c>>
  <1>1. <<a, b>> \in Seq(S) /\ <<c>> \in Seq(S)
    OBVIOUS
  <1>2. q \in Seq(S) /\ Len(q) = 3 /\ q[1] = a /\ q[2] = b /\ q[3] = c
    BY <1>1
  <1>3. r \in Seq(S) /\ Len(r) = 3 /\ r[1] = a /\ r[2] = b /\ r[3] = c
    OBVIOUS
  <1> HIDE DEF q, r
  <1>4. \A i \in 1 .. 3 : q[i] = r[i]
    BY <1>2, <1>3
  <1>5. q = r
    BY <1>2, <1>3, <1>4
  <1> QED
    BY <1>5 DEF q, r

(* What the reader puts together is in order. *)
LEMMA MarkedFramesFit ==
  ASSUME NEW n \in Nat, received \in ReceivedType, received.output <= n
  PROVE  FramesFor(MarkedFrames(n), n) /\ FramesFor(Output(n) \o Screen(n), n) /\ FramesFor(Output(n), n)
  <1> DEFINE o == WorkerFrame("output", n)
             s == WorkerFrame("screen", n)
             m == WorkerFrame("shell", n)
  <1>1. /\ o.kind = "output" /\ s.kind = "screen" /\ m.kind = "shell"
        /\ o.upto = n /\ s.upto = n /\ m.upto = n
    BY DEF WorkerFrame
  <1>2. Output(n) = <<o>> \/ (Output(n) = <<>> /\ received.output = n)
    BY DEF Output, ReceivedType
  <1>3. Screen(n) = <<s>> \/ (Screen(n) = <<>> /\ TextIn(received.screen) = TextIn(n))
    BY DEF Screen
  <1> HIDE DEF o, s, m
  <1>4. /\ \/ MarkedFrames(n) = <<o, s, m>>
           \/ MarkedFrames(n) = <<o, m>> /\ TextIn(received.screen) = TextIn(n)
           \/ MarkedFrames(n) = <<s, m>> /\ received.output = n
           \/ MarkedFrames(n) = <<m>> /\ received.output = n /\ TextIn(received.screen) = TextIn(n)
        /\ \/ Output(n) \o Screen(n) = <<o, s>>
           \/ Output(n) \o Screen(n) = <<o>> /\ TextIn(received.screen) = TextIn(n)
           \/ Output(n) \o Screen(n) = <<s>> /\ received.output = n
           \/ Output(n) \o Screen(n) = <<>> /\ received.output = n /\ TextIn(received.screen) = TextIn(n)
    <2>1. (Output(n) \o Screen(n)) \o <<m>> = MarkedFrames(n)
      BY DEF MarkedFrames, m
    <2>2. <<o>> \o <<s>> = <<o, s>>
      BY PairJoined, Zenon
    <2>3. <<o, s>> \o <<m>> = <<o, s, m>>
      BY TripleJoined, Zenon
    <2>4. <<o>> \o <<m>> = <<o, m>> /\ <<s>> \o <<m>> = <<s, m>>
      BY PairJoined, Zenon
    <2>5. <<o>> \o <<>> = <<o>>
      OBVIOUS
    <2>6. <<>> \o <<s>> = <<s>> /\ <<>> \o <<m>> = <<m>>
      OBVIOUS
    <2>7. <<>> \o <<>> = <<>>
      OBVIOUS
    <2> QED
      BY <1>2, <1>3, <2>1, <2>2, <2>3, <2>4, <2>5, <2>6, <2>7
  <1> DEFINE text == TextIn(received.screen) = TextIn(n)
             q3 == <<o, s, m>>
             qom == <<o, m>>
             qsm == <<s, m>>
             qos == <<o, s>>
             qo == <<o>>
             qs == <<s>>
             qm == <<m>>
  <1>5. FramesFor(<<>>, n)
    BY DEF FramesFor
  <1>6. FramesFor(q3, n)
    <2>1. Len(q3) = 3 /\ q3[1] = o /\ q3[2] = s /\ q3[3] = m
      OBVIOUS
    <2> HIDE DEF q3
    <2> QED
      BY <1>1, <2>1 DEF FramesFor
  <1>7. text => FramesFor(qom, n)
    <2>1. Len(qom) = 2 /\ qom[1] = o /\ qom[2] = m
      OBVIOUS
    <2> HIDE DEF qom
    <2> QED
      BY <1>1, <2>1 DEF FramesFor
  <1>8. received.output = n => FramesFor(qsm, n)
    <2>1. Len(qsm) = 2 /\ qsm[1] = s /\ qsm[2] = m
      OBVIOUS
    <2> HIDE DEF qsm
    <2> QED
      BY <1>1, <2>1 DEF FramesFor
  <1>9. FramesFor(qos, n)
    <2>1. Len(qos) = 2 /\ qos[1] = o /\ qos[2] = s
      OBVIOUS
    <2> HIDE DEF qos
    <2> QED
      BY <1>1, <2>1 DEF FramesFor
  <1>10. FramesFor(qo, n)
    <2>1. Len(qo) = 1 /\ qo[1] = o
      OBVIOUS
    <2> HIDE DEF qo
    <2> QED
      BY <1>1, <2>1 DEF FramesFor
  <1>11. received.output = n => FramesFor(qs, n)
    <2>1. Len(qs) = 1 /\ qs[1] = s
      OBVIOUS
    <2> HIDE DEF qs
    <2> QED
      BY <1>1, <2>1 DEF FramesFor
  <1>12. received.output = n /\ text => FramesFor(qm, n)
    <2>1. Len(qm) = 1 /\ qm[1] = m
      OBVIOUS
    <2> HIDE DEF qm
    <2> QED
      BY <1>1, <2>1 DEF FramesFor
  <1> QED
    BY <1>2, <1>4, <1>5, <1>6, <1>7, <1>8, <1>9, <1>10, <1>11, <1>12

LEMMA TextStays ==
  ASSUME output \in Seq(Items), NEW x, output' = output \/ output' = Append(output, x)
  PROVE  /\ Len(output) <= Len(output')
         /\ \A n \in Nat : n <= Len(output) => {k \in 1 .. n : output'[k] = "text"} = TextIn(n)
  <1>1. Len(output) <= Len(output') /\ \A k \in 1 .. Len(output) : output'[k] = output[k]
    OBVIOUS
  <1>2. ASSUME NEW n \in Nat, n <= Len(output)
        PROVE  {k \in 1 .. n : output'[k] = "text"} = TextIn(n)
    <2>1. \A k \in 1 .. n : k \in 1 .. Len(output)
      BY <1>2
    <2> QED
      BY <1>1, <2>1 DEF TextIn
  <1> QED
    BY <1>1, <1>2

LEMMA ReaderFitsKeeps ==
  ASSUME WorkerTypes, ReaderFits, UNCHANGED <<screen, reader>>,
         NEW x, output' = output \/ output' = Append(output, x),
         received'.output = received.output, received'.screen = received.screen, received'.size = received.size,
         mode' = mode \/ mode = "none", backend' # "gone" => backend # "gone"
  PROVE  ReaderFits'
  <1>1. Len(output) <= Len(output')
        /\ \A n \in Nat : n <= Len(output) => {k \in 1 .. n : output'[k] = "text"} = TextIn(n)
    BY TextStays DEF WorkerTypes
  <1>2. /\ received.screen \in Nat /\ received.output \in Nat /\ screen.upto \in Nat /\ reader.last \in Nat
        /\ Len(output) \in Nat /\ Len(output') \in Nat
    <2>1. output' \in Seq(Items \cup {x})
      BY DEF WorkerTypes
    <2> QED
      BY <2>1 DEF WorkerTypes, ReceivedType, ScreenType, ReaderType
  <1>3. received.screen <= Len(output) /\ screen.upto <= Len(output) /\ reader.last <= Len(output')
    BY <1>1, <1>2 DEF ReaderFits
  <1>4. TextIn(received.screen)' = TextIn(received.screen) /\ TextIn(screen.upto)' = TextIn(screen.upto)
    BY <1>1, <1>2, <1>3 DEF TextIn
  <1>5. FramesFor(reader.frames, screen.upto)'
    BY <1>4 DEF ReaderFits, FramesFor
  <1>6. (reader.state = "reading" \/ (reader.state = "ended" /\ backend # "gone") => received.output = reader.last)'
    BY DEF ReaderFits
  <1>7. (mode # "exec" /\ reader.state = "reading" => TextIn(received.screen) = TextIn(screen.upto))'
    BY <1>4 DEF ReaderFits
  <1>8. (backend # "gone" => received.size = screen.size)'
    BY DEF ReaderFits
  <1> QED
    BY <1>3, <1>5, <1>6, <1>7, <1>8 DEF ReaderFits

LEMMA TailFits ==
  ASSUME WorkerTypes, ReaderFits, reader.frames # <<>>, SendsFrame(Head(reader.frames)),
         output' = output, screen' = screen, reader'.frames = Tail(reader.frames)
  PROVE  /\ FramesFor(reader.frames, screen.upto)'
         /\ received'.screen <= received'.output /\ received'.output <= screen.upto
         /\ received'.size = received.size \/ received'.size = screen.size
         /\ received'.shell # received.shell =>
              received.output = received'.shell /\ TextIn(received.screen) = TextIn(received'.shell)
  <1> DEFINE q == reader.frames
             n == screen.upto
             f == Head(q)
             t == Tail(q)
  <1>1. /\ q \in Seq(WorkerFrames) /\ received \in ReceivedType /\ n \in Nat
        /\ received.screen \in Nat /\ received.output \in Nat
    BY DEF WorkerTypes, ReaderType, ScreenType, ReceivedType
  <1>2. /\ 1 \in 1 .. Len(q) /\ q[1] = f /\ Len(t) \in Nat
        /\ \A i \in 1 .. Len(t) : i + 1 \in 1 .. Len(q) /\ t[i] = q[i + 1]
    BY <1>1
  <1>3. FramesFor(q, n)
    BY DEF ReaderFits
  <1>4. /\ \/ f.kind = "output" /\ received' = [received EXCEPT !.output = n]
           \/ f.kind = "screen" /\ received' = [received EXCEPT !.screen = n, !.size = screen.size]
           \/ f.kind = "shell" /\ received' = [received EXCEPT !.shell = n]
    BY <1>3, SendsEffect
  <1>5. /\ f.kind # "output" => received.output = n
        /\ f.kind = "shell" => TextIn(received.screen) = TextIn(n)
    BY <1>2, <1>3 DEF FramesFor
  <1>6. /\ \/ f.kind = "output" /\ received'.output = n /\ received'.screen = received.screen
              /\ received'.size = received.size /\ received'.shell = received.shell
           \/ f.kind = "screen" /\ received'.output = received.output /\ received'.screen = n
              /\ received'.size = screen.size /\ received'.shell = received.shell
           \/ f.kind = "shell" /\ received'.output = received.output /\ received'.screen = received.screen
              /\ received'.size = received.size /\ received'.shell = n
    BY <1>1, <1>4 DEF ReceivedType
  <1>7. received.screen <= received.output /\ received.output <= n
    BY DEF ReaderFits
  <1> HIDE DEF q, n, f, t
  <1>8. ASSUME NEW i \in 1 .. Len(t)
        PROVE  /\ t[i].upto = n
               /\ t[i].kind # "output" => received'.output = n \/ \E j \in 1..(i - 1) : t[j].kind = "output"
               /\ t[i].kind = "shell" => TextIn(received'.screen) = TextIn(n) \/ \E j \in 1..(i - 1) : t[j].kind = "screen"
    <2>1. i + 1 \in 1 .. Len(q) /\ t[i] = q[i + 1] /\ i \in Nat
      BY <1>2
    <2>2. t[i].upto = n
      BY <1>3, <2>1 DEF FramesFor
    <2>3. ASSUME NEW k \in {"output", "screen"}, k # f.kind, \E j \in 1 .. (i + 1) - 1 : q[j].kind = k
          PROVE  \E j \in 1..(i - 1) : t[j].kind = k
      <3>1. PICK j \in 1 .. (i + 1) - 1 : q[j].kind = k
        BY <2>3
      <3>2. j # 1
        BY <1>2, <2>3, <3>1
      <3>3. j - 1 \in 1 .. (i - 1) /\ j - 1 \in 1 .. Len(t) /\ (j - 1) + 1 = j
        BY <1>2, <2>1, <3>1, <3>2
      <3> QED
        BY <1>2, <3>1, <3>3
    <2>4. ASSUME t[i].kind # "output"
          PROVE  received'.output = n \/ \E j \in 1..(i - 1) : t[j].kind = "output"
      <3>1. received.output = n \/ \E j \in 1 .. (i + 1) - 1 : q[j].kind = "output"
        BY <1>3, <2>1, <2>4 DEF FramesFor
      <3> QED
        BY <1>6, <2>3, <3>1
    <2>5. ASSUME t[i].kind = "shell"
          PROVE  TextIn(received'.screen) = TextIn(n) \/ \E j \in 1..(i - 1) : t[j].kind = "screen"
      <3>1. TextIn(received.screen) = TextIn(n) \/ \E j \in 1 .. (i + 1) - 1 : q[j].kind = "screen"
        BY <1>3, <2>1, <2>5 DEF FramesFor
      <3> QED
        BY <1>6, <2>3, <3>1
    <2> QED
      BY <2>2, <2>4, <2>5
  <1>9. \A x : TextIn(x) = {k \in 1 .. x : output'[k] = "text"}
    BY DEF TextIn
  <1>10. (\A i \in 1 .. Len(t) :
            /\ t[i].upto = n
            /\ t[i].kind # "output" => received'.output = n \/ \E j \in 1..(i - 1) : t[j].kind = "output"
            /\ t[i].kind = "shell" =>
                 {k \in 1 .. received'.screen : output'[k] = "text"} = {k \in 1 .. n : output'[k] = "text"}
                 \/ \E j \in 1..(i - 1) : t[j].kind = "screen")
    BY <1>8, <1>9
  <1>11. received'.shell # received.shell =>
           received.output = received'.shell /\ TextIn(received.screen) = TextIn(received'.shell)
    BY <1>5, <1>6
  <1>12. received'.screen <= received'.output /\ received'.output <= n
    BY <1>1, <1>5, <1>6, <1>7
  <1> QED
    BY <1>6, <1>10, <1>11, <1>12 DEF t, n, q, FramesFor, TextIn
LEMMA ReaderFitsNext ==
  ASSUME WorkerTypes, ReaderFits, main.at = "first" => mode = "none", WorkerNext
  PROVE  ReaderFits'
  <1> USE DEF WorkerTypes
  <1>0. /\ received.screen \in Nat /\ received.output \in Nat /\ screen.upto \in Nat /\ reader.last \in Nat
        /\ Len(output) \in Nat /\ reader \in ReaderType
    BY DEF ReceivedType, ScreenType, ReaderType
  <1>1. CASE RunWorker \/ ProgramForks \/ ProgramLeaves \/ ProgramEnds
    <2>1. received'.output = received.output /\ received'.screen = received.screen /\ received'.size = received.size
      BY <1>1, RunWorkerEffect, ProgramEffect DEF ReceivedType
    <2>2. mode' = mode \/ mode = "none"
      BY <1>1, RunWorkerEffect, ProgramEffect
    <2> QED
      BY <1>1, <2>1, <2>2, RunWorkerEffect, ProgramEffect, ReaderFitsKeeps
  <1>2. CASE ProgramWrites
    <2>1. \E x : output' = Append(output, x)
      BY <1>2 DEF ProgramWrites, Program
    <2>2. UNCHANGED <<mode, screen, reader, backend, received>>
      BY <1>2 DEF ProgramWrites, Program
    <2> QED
      BY <2>1, <2>2, ReaderFitsKeeps
  <1>3. CASE ReaderTakes
    <2>1. PICK n \in reader.last + 1 .. Len(output) : reader' = [reader EXCEPT !.state = "holding", !.last = n]
      BY <1>3 DEF ReaderTakes
    <2>2. reader'.state = "holding" /\ reader'.last = n /\ reader'.frames = reader.frames
      BY <1>0, <2>1 DEF ReaderType
    <2>3. reader.frames = <<>> /\ reader.last <= n /\ n <= Len(output)
      BY <1>0, <1>3, <2>1 DEF ReaderTakes, ReaderFits
    <2>4. FramesFor(reader.frames, screen.upto)'
      BY <2>2, <2>3 DEF FramesFor
    <2>5. screen'.upto <= reader'.last /\ reader'.last <= Len(output')
      BY <1>0, <1>3, <2>2, <2>3 DEF ReaderTakes, ReaderFits
    <2> QED
      BY <1>3, <2>2, <2>4, <2>5 DEF ReaderTakes, ReaderFits
  <1>4. CASE ReaderAdvances
    <2> DEFINE n == screen.upto + 1
    <2>1. n \in Nat /\ n <= reader.last /\ received.output <= n /\ received.output <= screen.upto
          /\ reader.frames = <<>> /\ reader.state = "holding"
      BY <1>0, <1>4 DEF ReaderAdvances, ReaderFits
    <2>2. screen'.upto = n /\ screen'.size = screen.size
      BY <1>4 DEF ReaderAdvances, ScreenType
    <2>3. UNCHANGED <<output, received, backend, mode>>
      BY <1>4 DEF ReaderAdvances
    <2>4. \/ reader' = reader \/ reader' = [reader EXCEPT !.mute = TRUE]
          \/ reader' = [reader EXCEPT !.frames = MarkedFrames(n)]
          \/ reader' = [reader EXCEPT !.frames = <<>>]
      BY <1>4 DEF ReaderAdvances, AnswersQuery
    <2> HIDE DEF n
    <2>5. /\ reader'.state = "holding" /\ reader'.last = reader.last
          /\ reader'.frames = MarkedFrames(n) \/ reader'.frames = <<>>
      BY <1>0, <2>1, <2>4 DEF ReaderType
    <2>6. FramesFor(MarkedFrames(n), n) /\ FramesFor(<<>>, n)
      BY <2>1, MarkedFramesFit DEF FramesFor
    <2>7. FramesFor(reader'.frames, n)
      BY <2>5, <2>6
    <2>8. FramesFor(reader.frames, screen.upto)'
      BY <2>2, <2>3, <2>7 DEF FramesFor, TextIn
    <2>9. received'.screen <= received'.output /\ received'.output <= screen'.upto
          /\ screen'.upto <= reader'.last /\ reader'.last <= Len(output')
      BY <2>1, <2>2, <2>3, <2>5 DEF ReaderFits
    <2>10. (backend # "gone" => received.size = screen.size)'
      BY <2>2, <2>3 DEF ReaderFits
    <2> QED
      BY <2>5, <2>8, <2>9, <2>10 DEF ReaderFits
  <1>5. CASE ReaderFinishes
    <2> DEFINE n == reader.last
    <2>1. UNCHANGED <<output, received, backend, mode, screen>> /\ n \in Nat /\ screen.upto = n
          /\ received.output <= n /\ reader.frames = <<>> /\ reader.state = "holding" /\ mode # "none"
      BY <1>0, <1>5 DEF ReaderFinishes, ReaderFits, Running
    <2>2. FramesFor(Output(n) \o Screen(n), n) /\ FramesFor(Output(n), n)
      BY <2>1, MarkedFramesFit
    <2>3. Output(n) \o <<>> = Output(n)
      BY <2>1, FramesMadeByReader
    <2>4. LastFrames = (IF mode = "session" THEN Output(n) \o Screen(n) ELSE Output(n))
      BY <2>3 DEF LastFrames
    <2>5. CASE LastFrames = <<>>
      <3>1. reader'.state = "reading" /\ reader'.last = n /\ reader'.frames = <<>>
        BY <1>0, <1>5, <2>1, <2>5 DEF ReaderFinishes, ReaderType
      <3>2. Output(n) = <<>> /\ (mode = "session" => Screen(n) = <<>>)
        <4>1. Output(n) \in Seq(WorkerFrames) /\ Screen(n) \in Seq(WorkerFrames)
          BY <2>1, FramesMadeByReader
        <4>2. /\ Len(Output(n) \o Screen(n)) = Len(Output(n)) + Len(Screen(n))
              /\ Len(Output(n)) \in Nat /\ Len(Screen(n)) \in Nat
          BY <4>1
        <4>3. mode # "session" => Output(n) = <<>>
          BY <2>4, <2>5
        <4>4. mode = "session" => Len(Output(n)) = 0 /\ Len(Screen(n)) = 0
          BY <2>4, <2>5, <4>2
        <4> QED
          BY <4>1, <4>3, <4>4
      <3>3. received.output = n
        BY <1>0, <2>1, <3>2 DEF Output
      <3>4. mode # "exec" => TextIn(received.screen) = TextIn(screen.upto)
        BY <2>1, <3>2 DEF Screen
      <3>5. (mode # "exec" => TextIn(received.screen) = TextIn(screen.upto))'
        BY <2>1, <3>4 DEF TextIn
      <3>6. FramesFor(reader.frames, screen.upto)'
        BY <3>1 DEF FramesFor
      <3> QED
        BY <2>1, <3>1, <3>3, <3>5, <3>6 DEF ReaderFits
    <2>6. CASE LastFrames # <<>>
      <3>1. reader'.state = "holding" /\ reader'.last = n /\ reader'.frames = LastFrames
        BY <1>0, <1>5, <2>1, <2>6 DEF ReaderFinishes, ReaderType
      <3>2. FramesFor(reader'.frames, n)
        BY <2>2, <2>4, <3>1
      <3>3. FramesFor(reader.frames, screen.upto)'
        BY <2>1, <3>2 DEF FramesFor, TextIn
      <3> QED
        BY <2>1, <3>1, <3>3 DEF ReaderFits
    <2> QED
      BY <2>5, <2>6
  <1>6. CASE ReaderSends
    <2>1. UNCHANGED <<mode, output, screen, backend>> /\ reader.frames # <<>> /\ reader.state = "holding" /\ mode # "none"
      BY <1>6 DEF ReaderSends, ReaderFits, Running
    <2>2. CASE SendsFrame(Head(reader.frames)) /\ reader' = [reader EXCEPT !.frames = Tail(@)]
      <3>1. reader'.state = "holding" /\ reader'.last = reader.last /\ reader'.frames = Tail(reader.frames)
        BY <1>0, <2>1, <2>2 DEF ReaderType
      <3>2. /\ FramesFor(reader.frames, screen.upto)'
            /\ received'.screen <= received'.output /\ received'.output <= screen.upto
            /\ received'.size = received.size \/ received'.size = screen.size
        BY <2>1, <2>2, <3>1, TailFits
      <3> QED
        BY <2>1, <3>1, <3>2 DEF ReaderFits
    <2>3. CASE backend = "gone" /\ reader' = [reader EXCEPT !.state = "ended", !.frames = <<>>] /\ UNCHANGED received
      <3>1. reader'.state = "ended" /\ reader'.last = reader.last /\ reader'.frames = <<>>
        BY <1>0, <2>3 DEF ReaderType
      <3>2. FramesFor(reader.frames, screen.upto)'
        BY <3>1 DEF FramesFor
      <3> QED
        BY <2>1, <2>3, <3>1, <3>2 DEF ReaderFits
    <2> QED
      BY <1>6, <2>2, <2>3 DEF ReaderSends
  <1>7. CASE ReaderEnds
    <2>1. /\ UNCHANGED <<mode, output, screen, backend, received>> /\ reader.state = "reading"
          /\ reader' = [reader EXCEPT !.state = "ended"]
      BY <1>7 DEF ReaderEnds
    <2>2. reader'.state = "ended" /\ reader'.last = reader.last /\ reader'.frames = reader.frames
      BY <1>0, <2>1 DEF ReaderType
    <2>3. reader'.frames = <<>>
      BY <2>1, <2>2 DEF ReaderFits
    <2>4. FramesFor(reader.frames, screen.upto)'
      BY <2>3 DEF FramesFor
    <2> QED
      BY <2>1, <2>2, <2>3, <2>4 DEF ReaderFits
  <1>8. CASE WriterWrites \/ WatcherSees \/ Scan \/ Signal \/ DrainIsOver \/ HeartbeatIsLost \/ BackendSends
    <2>1. UNCHANGED <<mode, output, screen, reader, backend, received>>
      BY <1>8 DEF WriterWrites, WatcherSees, Scan, Signal, DrainIsOver, HeartbeatIsLost, BackendSends
    <2> QED
      BY <2>1, ReaderFitsKeeps
  <1>9. CASE ReapsShell \/ Exits
    <2>1. UNCHANGED <<mode, output, screen, reader, backend>>
      BY <1>9 DEF ReapsShell, Exits
    <2>2. received' = received \/ \E e : received' = [received EXCEPT !.end = e]
      BY <1>9 DEF ReapsShell, Exits, TellsEnd
    <2>3. received'.output = received.output /\ received'.screen = received.screen /\ received'.size = received.size
      BY <2>2 DEF ReceivedType
    <2> QED
      BY <2>1, <2>3, ReaderFitsKeeps
  <1>10. CASE TakesWrite \/ TakesEnd \/ TakesEof \/ TakesExit
    <2>1. UNCHANGED <<mode, output, screen, reader, backend, received>>
      BY <1>10 DEF TakesWrite, TakesEnd, TakesEof, TakesExit, TakesEvent
    <2> QED
      BY <2>1, ReaderFitsKeeps
  <1>11. CASE TakesFailure
    <2>1. UNCHANGED <<mode, output, screen, reader, backend>>
      BY <1>11 DEF TakesFailure, TakesEvent
    <2>2. received' = received \/ \E e : received' = [received EXCEPT !.end = e]
      BY <1>11 DEF TakesFailure
    <2>3. received'.output = received.output /\ received'.screen = received.screen /\ received'.size = received.size
      BY <2>2 DEF ReceivedType
    <2> QED
      BY <2>1, <2>3, ReaderFitsKeeps
  <1>12. CASE TakesResize
    <2>1. UNCHANGED <<mode, output, reader, backend>>
      BY <1>12 DEF TakesResize, TakesEvent
    <2>2. CASE UNCHANGED <<screen, received>>
      BY <2>1, <2>2, ReaderFitsKeeps
    <2>3. ASSUME NEW s, screen' = [screen EXCEPT !.size = s], reader.state # "holding", mode = "session",
                 \/ backend = "gone" /\ received' = received
                 \/ backend # "gone" /\ received' = [received EXCEPT !.screen = screen.upto, !.size = screen'.size]
          PROVE  ReaderFits'
      <3>1. screen'.upto = screen.upto
        BY <2>3 DEF ScreenType
      <3>2. /\ received'.output = received.output
            /\ \/ backend = "gone" /\ received' = received
               \/ backend # "gone" /\ received'.screen = screen.upto /\ received'.size = screen'.size
        BY <2>3 DEF ReceivedType
      <3>3. FramesFor(reader.frames, screen.upto)'
        BY <2>1, <2>3 DEF ReaderFits, FramesFor
      <3>4. reader.state = "reading" \/ reader.state = "ended"
        BY <1>0, <2>3 DEF ReaderType
      <3>5. received'.screen <= received'.output
        BY <1>0, <2>3, <3>2, <3>4 DEF ReaderFits
      <3>6. (mode # "exec" /\ reader.state = "reading" => TextIn(received.screen) = TextIn(screen.upto))'
        <4>1. CASE backend = "gone"
          BY <2>1, <3>1, <3>2, <4>1 DEF ReaderFits, TextIn
        <4>2. CASE backend # "gone"
          BY <3>1, <3>2, <4>2 DEF TextIn
        <4> QED
          BY <4>1, <4>2
      <3> QED
        BY <2>1, <3>1, <3>2, <3>3, <3>5, <3>6 DEF ReaderFits
    <2> QED
      BY <1>12, <2>2, <2>3 DEF TakesResize, ScreenIsFree
  <1>13. CASE BackendFails
    <2>1. UNCHANGED <<mode, output, screen, reader, received>> /\ backend # "gone"
      BY <1>13 DEF BackendFails
    <2> QED
      BY <2>1, ReaderFitsKeeps
  <1> QED
    BY <1>1, <1>2, <1>3, <1>4, <1>5, <1>6, <1>7, <1>8, <1>9, <1>10, <1>11, <1>12, <1>13 DEF WorkerNext
LEMMA EventsEffect ==
  ASSUME WorkerTypes, WorkerNext
  PROVE  /\ Observes("eof")' => Observes("eof") \/ ReaderEnds
         /\ Observes("output_failed")' => Observes("output_failed") \/ backend = "gone"
  <1> USE DEF WorkerTypes
  <1>1. CASE ReaderEnds
    <2>1. \E e \in {"eof", "read_failed"} : observed' = Append(observed, e)
      BY <1>1 DEF ReaderEnds, ReportsEvent
    <2> QED
      BY <1>1, <2>1, ObservedGrows DEF WorkerEvents
  <1>2. CASE ReaderSends
    <2>1. observed' = observed \/ (backend = "gone" /\ observed' = Append(observed, "output_failed"))
      BY <1>2 DEF ReaderSends, ReportsEvent
    <2> QED
      BY <2>1, ObservedGrows DEF WorkerEvents, Observes
  <1>3. CASE WatcherSees
    <2>1. \E e \in {"exited", "wait_failed"} : observed' = Append(observed, e)
      BY <1>3 DEF WatcherSees, ReportsEvent
    <2> QED
      BY <2>1, ObservedGrows DEF WorkerEvents
  <1>4. CASE BackendSends \/ BackendFails
    <2>1. observed' = observed \/ \E e \in {"write", "resize", "shutdown", "backend_eof"} : observed' = Append(observed, e)
      BY <1>4, WorkerAssumption DEF BackendSends, BackendFails, ReportsEvent
    <2> QED
      BY <2>1, ObservedGrows DEF WorkerEvents, Observes
  <1>5. CASE MainTakes
    <2>1. \E e : TakesEvent(e)
      BY <1>5 DEF MainTakes, TakesWrite, TakesResize, TakesEnd, TakesFailure, TakesEof, TakesExit
    <2> QED
      BY <2>1, ObservedShrinks
  <1>6. CASE observed' = observed
    BY <1>6 DEF Observes
  <1> QED
    BY <1>1, <1>2, <1>3, <1>4, <1>5, <1>6, RunWorkerEffect, ProgramEffect
       DEF WorkerNext, MainTakes, ProgramWrites, Program, ReaderTakes, ReaderAdvances, ReaderFinishes,
           WriterWrites, Scan, Signal, ReapsShell, Exits, DrainIsOver, HeartbeatIsLost

LEMMA CleanUpEffect ==
  ASSUME WorkerTypes, NEW b \in BOOLEAN, (CleanUp(b) /\ UNCHANGED arbiter) \/ CleansOnce(b)
  PROVE  /\ \/ main'.at = "scan" /\ main'.round = "ask" /\ main'.code = b
            \/ /\ arbiter.cleaned /\ main'.code = main.code /\ CleansOnce(b)
               /\ main'.at = (IF b THEN "done" ELSE "loop")
         /\ arbiter'.exited = arbiter.exited /\ arbiter'.eof = arbiter.eof /\ arbiter'.late = arbiter.late
         /\ arbiter'.cleaned = arbiter.cleaned \/ (arbiter'.cleaned /\ CleansOnce(b))
  <1>1. main \in MainType /\ arbiter \in ArbiterType
    BY DEF WorkerTypes
  <1>2. CleanUp(b) => main'.at = "scan" /\ main'.round = "ask" /\ main'.code = b
    BY <1>1 DEF CleanUp, MainType
  <1>3. arbiter' = arbiter \/ (CleansOnce(b) /\ arbiter' = [arbiter EXCEPT !.cleaned = TRUE])
    BY DEF CleansOnce
  <1>4. CleanUp(b) \/ (arbiter.cleaned /\ CleansOnce(b) /\ main' = [main EXCEPT !.at = IF b THEN "done" ELSE "loop"])
    BY DEF CleansOnce
  <1>5. CleanUp(b) \/ (arbiter.cleaned /\ CleansOnce(b) /\ main'.code = main.code /\ main'.at = (IF b THEN "done" ELSE "loop"))
    BY <1>1, <1>4 DEF MainType
  <1>6. /\ arbiter'.exited = arbiter.exited /\ arbiter'.eof = arbiter.eof /\ arbiter'.late = arbiter.late
        /\ arbiter'.cleaned = arbiter.cleaned \/ (arbiter'.cleaned /\ CleansOnce(b))
    BY <1>1, <1>3 DEF ArbiterType
  <1> QED
    BY <1>2, <1>5, <1>6

(* The main loop and its end, for every step but the first.                *)
Goes ==
  /\ mode' = mode
  /\ main'.at = "first" => main.at = "first"
  /\ main'.code => main.code \/ ExitReady \/ mode # "session"
  /\ arbiter.late => arbiter'.late
  /\ arbiter.eof => arbiter'.eof
  /\ arbiter'.eof => arbiter.eof \/ Observes("eof")
  /\ received'.end = "code" => received.end = "code" \/ ExitReady \/ (mode = "session" /\ main.code)
  /\ received.end # "none" => received'.end # "none"
  /\ backend = "gone" => backend' = "gone"
  /\ received'.hello = received.hello


LEMMA WorkerGoes ==
  ASSUME WorkerTypes, ReaderFits, WorkerNext, ~RunWorker
  PROVE  Goes
  <1> USE DEF WorkerTypes
  <1>1. CASE ProgramWrites \/ ProgramForks \/ ProgramLeaves \/ ProgramEnds
    <2>1. UNCHANGED <<mode, main, arbiter, received, backend>>
      BY <1>1, ProgramEffect DEF ProgramWrites, Program
    <2> QED
      BY <2>1 DEF Goes
  <1>2. CASE ReaderTakes \/ ReaderAdvances \/ ReaderFinishes \/ ReaderEnds
    <2>1. UNCHANGED <<mode, main, arbiter, received, backend>>
      BY <1>2 DEF ReaderTakes, ReaderAdvances, ReaderFinishes, ReaderEnds
    <2> QED
      BY <2>1 DEF Goes
  <1>3. CASE ReaderSends
    <2>1. UNCHANGED <<mode, main, arbiter, backend>> /\ reader.frames # <<>>
      BY <1>3 DEF ReaderSends
    <2>2. FramesFor(reader.frames, screen.upto)
      BY DEF ReaderFits
    <2>3. \/ received' = received
          \/ received' = [received EXCEPT !.output = screen.upto]
          \/ received' = [received EXCEPT !.screen = screen.upto, !.size = screen.size]
          \/ received' = [received EXCEPT !.shell = screen.upto]
      BY <1>3, <2>1, <2>2, SendsEffect DEF ReaderSends
    <2>4. received'.end = received.end /\ received'.hello = received.hello
      BY <2>3 DEF ReceivedType
    <2> QED
      BY <2>1, <2>4 DEF Goes
  <1>4. CASE WriterWrites \/ WatcherSees \/ BackendSends \/ BackendFails
    <2>1. UNCHANGED <<mode, main, arbiter, received>> /\ (backend = "gone" => backend' = "gone")
      BY <1>4 DEF WriterWrites, WatcherSees, BackendSends, BackendFails
    <2> QED
      BY <2>1 DEF Goes
  <1>5. CASE Scan \/ Signal
    <2>1. UNCHANGED <<mode, arbiter, received, backend>>
      BY <1>5 DEF Scan, Signal
    <2>2. main'.at # "first" /\ main'.code = main.code
      BY <1>5 DEF Scan, Signal, MainType
    <2> QED
      BY <2>1, <2>2 DEF Goes
  <1>6. CASE ReapsShell
    <2>1. UNCHANGED <<mode, arbiter, backend>>
      BY <1>6 DEF ReapsShell
    <2>2. main'.at # "first" /\ main'.code = main.code
      BY <1>6 DEF ReapsShell, MainType
    <2>3. \/ received' = received
          \/ mode = "session" /\ main.code /\ received' = [received EXCEPT !.end = "code"]
          \/ received' = [received EXCEPT !.end = "forced"]
      BY <1>6 DEF ReapsShell, TellsEnd
    <2>4. /\ received'.hello = received.hello
          /\ received'.end = "code" => received.end = "code" \/ (mode = "session" /\ main.code)
          /\ received.end # "none" => received'.end # "none"
      <3>1. CASE received' = received
        BY <3>1
      <3>2. CASE mode = "session" /\ main.code /\ received' = [received EXCEPT !.end = "code"]
        BY <3>2 DEF ReceivedType
      <3>3. CASE received' = [received EXCEPT !.end = "forced"]
        BY <3>3 DEF ReceivedType
      <3> QED
        BY <2>3, <3>1, <3>2, <3>3
    <2> QED
      BY <2>1, <2>2, <2>4 DEF Goes
  <1>7. CASE Exits
    <2>1. UNCHANGED <<mode, arbiter, backend>> /\ ExitReady
      BY <1>7 DEF Exits
    <2>2. main'.at # "first"
      BY <1>7 DEF Exits, CleanUp, MainType
    <2>3. received' = received \/ (received.end = "none" /\ received' = [received EXCEPT !.end = "code"])
      BY <1>7 DEF Exits, TellsEnd
    <2>4. received'.hello = received.hello /\ (received'.end = received.end \/ received'.end = "code")
      BY <2>3 DEF ReceivedType
    <2> QED
      BY <2>1, <2>2, <2>4 DEF Goes
  <1>8. CASE DrainIsOver
    <2>1. UNCHANGED <<mode, main, received, backend>>
      BY <1>8 DEF DrainIsOver
    <2>2. arbiter'.late /\ arbiter'.eof = arbiter.eof
      BY <1>8 DEF DrainIsOver, ArbiterType
    <2> QED
      BY <2>1, <2>2 DEF Goes
  <1>9. CASE HeartbeatIsLost
    <2>1. UNCHANGED <<mode, received, backend>> /\ ((CleanUp(FALSE) /\ UNCHANGED arbiter) \/ CleansOnce(FALSE))
      BY <1>9 DEF HeartbeatIsLost, StopsAll
    <2> QED
      BY <2>1, CleanUpEffect DEF Goes
  <1>10. CASE TakesWrite \/ TakesResize
    <2>1. UNCHANGED <<mode, arbiter, backend>>
      BY <1>10 DEF TakesWrite, TakesResize, TakesEvent
    <2>2. main' = main \/ CleanUp(FALSE)
      BY <1>10 DEF TakesWrite, TakesResize
    <2>3. main' = main \/ (main'.at # "first" /\ main'.code = FALSE)
      BY <2>2 DEF CleanUp, MainType
    <2>4. received' = received \/ received' = [received EXCEPT !.screen = screen.upto, !.size = screen'.size]
      BY <1>10 DEF TakesWrite, TakesResize
    <2>5. received'.end = received.end /\ received'.hello = received.hello
      BY <2>4 DEF ReceivedType
    <2> QED
      BY <2>1, <2>3, <2>5 DEF Goes
  <1>11. CASE TakesEnd
    <2>1. UNCHANGED <<mode, received, backend>> /\ ((CleanUp(FALSE) /\ UNCHANGED arbiter) \/ CleansOnce(FALSE))
      BY <1>11 DEF TakesEnd, TakesEvent, StopsAll
    <2> QED
      BY <2>1, CleanUpEffect DEF Goes
  <1>12. CASE TakesFailure
    <2>1. UNCHANGED <<mode, backend>>
      BY <1>12 DEF TakesFailure, TakesEvent
    <2>2. (mode = "session" /\ CleanUp(FALSE) /\ UNCHANGED arbiter) \/ (mode # "session" /\ CleansOnce(TRUE))
      BY <1>12 DEF TakesFailure
    <2>3. /\ main'.at # "first" /\ (main'.code => main.code \/ mode # "session")
          /\ arbiter'.eof = arbiter.eof /\ arbiter'.late = arbiter.late
      <3>1. CASE mode = "session"
        BY <2>2, <3>1, CleanUpEffect DEF CleansOnce
      <3>2. CASE mode # "session"
        BY <2>2, <3>2, CleanUpEffect
      <3> QED
        BY <3>1, <3>2
    <2>4. received' = received \/ received' = [received EXCEPT !.end = "failed"] \/ received' = [received EXCEPT !.end = @]
      BY <1>12 DEF TakesFailure
    <2>5. received'.hello = received.hello /\ (received'.end = received.end \/ received'.end = "failed")
      BY <2>4 DEF ReceivedType
    <2> QED
      BY <2>1, <2>3, <2>5 DEF Goes
  <1>13. CASE TakesEof
    <2>1. UNCHANGED <<mode, main, received, backend>> /\ TakesEvent("eof")
      BY <1>13 DEF TakesEof, TakesEvent
    <2>2. Observes("eof")
      BY <2>1, ObservedShrinks
    <2>3. arbiter'.eof /\ arbiter'.late = arbiter.late
      BY <1>13 DEF TakesEof, ArbiterType
    <2> QED
      BY <2>1, <2>2, <2>3 DEF Goes
  <1>14. CASE TakesExit
    <2>1. UNCHANGED <<mode, received, backend>>
      BY <1>14 DEF TakesExit, TakesEvent
    <2>2. main' = main \/ CleanUp(FALSE)
      BY <1>14 DEF TakesExit
    <2>3. main' = main \/ (main'.at # "first" /\ main'.code = FALSE)
      BY <2>2 DEF CleanUp, MainType
    <2>4. arbiter'.eof = arbiter.eof /\ arbiter'.late = arbiter.late
      BY <1>14 DEF TakesExit, ArbiterType
    <2> QED
      BY <2>1, <2>3, <2>4 DEF Goes
  <1> QED
    BY <1>1, <1>2, <1>3, <1>4, <1>5, <1>6, <1>7, <1>8, <1>9, <1>10, <1>11, <1>12, <1>13, <1>14 DEF WorkerNext
LEMMA FirstFitsNext ==
  ASSUME WorkerTypes, FirstFits, ReaderFits, WorkerNext
  PROVE  FirstFits'
  <1> USE DEF WorkerTypes
  <1>1. CASE RunWorker
    <2>1. mode = "none" /\ main'.at # "first" /\ main'.code = main.code
          /\ UNCHANGED <<observed, arbiter, reader>>
      BY <1>1, RunWorkerEffect DEF FirstFits, MainType
    <2>2. mode' = "none" => UNCHANGED <<procs, received>>
      BY <1>1, RunWorkerEffect
    <2> QED
      BY <2>1, <2>2 DEF FirstFits
  <1>2. CASE ~RunWorker
    <2>1. Goes
      BY <1>2, WorkerGoes
    <2>2. (main.at = "first" => mode = "none")'
      BY <2>1 DEF Goes, FirstFits
    <2>3. CASE mode' = "none"
      <3>1. mode = "none" /\ ~Running
        BY <2>1, <2>3 DEF Goes, Running
      <3>2. Scan \/ Signal \/ ReapsShell
        BY <1>2, <3>1, ProgramEffect
           DEF WorkerNext, ProgramWrites, Program, ReaderTakes, ReaderAdvances, ReaderFinishes, ReaderSends, ReaderEnds,
               WriterWrites, WatcherSees, Exits, DrainIsOver, HeartbeatIsLost, TakesWrite, TakesResize, TakesEnd,
               TakesFailure, TakesEof, TakesExit, TakesEvent, BackendSends, BackendFails
      <3>3. UNCHANGED <<observed, arbiter, reader>> /\ procs' \subseteq procs
        BY <3>2 DEF Scan, Signal, ReapsShell
      <3>4. main'.code = main.code
        BY <3>2 DEF Scan, Signal, ReapsShell, MainType
      <3> QED
        BY <2>1, <2>2, <3>1, <3>3, <3>4 DEF FirstFits, Goes
    <2> QED
      BY <2>2, <2>3 DEF FirstFits
  <1> QED
    BY <1>1, <1>2

LEMMA CodeFitsNext ==
  ASSUME WorkerTypes, FirstFits, ReaderFits, CodeFits, WorkerNext
  PROVE  CodeFits'
  <1> USE DEF WorkerTypes
  <1>1. CASE RunWorker
    <2>1. mode = "none" /\ observed = <<>> /\ ~arbiter.eof /\ ~main.code /\ reader.state = "reading" /\ main.at = "first"
      BY <1>1, RunWorkerEffect DEF FirstFits
    <2>2. UNCHANGED <<observed, arbiter, reader>>
      BY <1>1, RunWorkerEffect
    <2>3. main'.at # "first" /\ main'.code = main.code
      BY <1>1, RunWorkerEffect DEF MainType
    <2>4. received'.end = "code" => received.end = "code"
      <3>1. CASE received' = received
        BY <3>1
      <3>2. ASSUME NEW m, NEW started \in BOOLEAN,
                   received' = [received EXCEPT !.hello = started \/ m = "exec",
                                   !.end = IF m = "exec" /\ ~started THEN "failed" ELSE @]
            PROVE  received'.end = "code" => received.end = "code"
        BY <3>2 DEF ReceivedType
      <3> QED
        BY <1>1, <3>1, <3>2, RunWorkerEffect
    <2>5. ~Observes("eof")'
      BY <2>1, <2>2 DEF Observes
    <2> QED
      BY <2>1, <2>2, <2>3, <2>4, <2>5 DEF CodeFits
  <1>2. CASE ~RunWorker
    <2>1. Goes
      BY <1>2, WorkerGoes
    <2>3. (received.end = "code" \/ (mode = "session" /\ main.code) => arbiter.late \/ arbiter.eof)'
      BY <2>1 DEF Goes, CodeFits, ExitReady
    <2>5. ("read" \notin WorkerFaults /\ (Observes("eof") \/ arbiter.eof) =>
             reader.state = "ended" /\ procs = {} /\ received.output = Len(output))'
      <3> SUFFICES ASSUME "read" \notin WorkerFaults, Observes("eof")' \/ arbiter'.eof
                   PROVE  reader'.state = "ended" /\ procs' = {} /\ received'.output = Len(output')
        OBVIOUS
      <3>1. CASE ReaderEnds
        <4>1. /\ procs = {} /\ reader.last = Len(output) /\ reader.state = "reading"
              /\ UNCHANGED <<procs, output, received>> /\ reader' = [reader EXCEPT !.state = "ended"]
          BY <3>1 DEF ReaderEnds
        <4>2. reader'.state = "ended" /\ received.output = reader.last
          BY <4>1 DEF ReaderFits, ReaderType
        <4> QED
          BY <4>1, <4>2
      <3>2. CASE ~ReaderEnds
        <4>1. reader.state = "ended" /\ procs = {} /\ received.output = Len(output) /\ reader.frames = <<>>
          BY <2>1, <3>2, EventsEffect DEF Goes, CodeFits, ReaderFits
        <4>2. ~(ReaderTakes \/ ReaderAdvances \/ ReaderFinishes \/ ReaderSends)
          BY <4>1 DEF ReaderTakes, ReaderAdvances, ReaderFinishes, ReaderSends
        <4>3. ~(ProgramWrites \/ ProgramForks \/ ProgramLeaves \/ ProgramEnds)
          BY <4>1 DEF ProgramWrites, ProgramForks, ProgramLeaves, ProgramEnds, Program
        <4>4. reader' = reader /\ output' = output
          BY <1>2, <3>2, <4>2, <4>3
             DEF WorkerNext, WriterWrites, WatcherSees, Scan, Signal, ReapsShell, Exits, DrainIsOver, HeartbeatIsLost,
                 TakesWrite, TakesResize, TakesEnd, TakesFailure, TakesEof, TakesExit, TakesEvent, BackendSends, BackendFails
        <4>5. procs' \subseteq procs
          BY <1>2, <3>2, <4>2, <4>3
             DEF WorkerNext, WriterWrites, WatcherSees, Scan, Signal, ReapsShell, Exits, DrainIsOver, HeartbeatIsLost,
                 TakesWrite, TakesResize, TakesEnd, TakesFailure, TakesEof, TakesExit, TakesEvent, BackendSends, BackendFails
        <4>6. \/ received' = received
              \/ \E e : received' = [received EXCEPT !.end = e]
              \/ received' = [received EXCEPT !.screen = screen.upto, !.size = screen'.size]
          BY <1>2, <3>2, <4>2, <4>3
             DEF WorkerNext, WriterWrites, WatcherSees, Scan, Signal, ReapsShell, Exits, DrainIsOver, HeartbeatIsLost, TellsEnd,
                 TakesWrite, TakesResize, TakesEnd, TakesFailure, TakesEof, TakesExit, TakesEvent, BackendSends, BackendFails
        <4>7. received'.output = received.output
          BY <4>6 DEF ReceivedType
        <4> QED
          BY <4>1, <4>4, <4>5, <4>7
      <3> QED
        BY <3>1, <3>2
    <2> QED
      BY <2>3, <2>5 DEF CodeFits
  <1> QED
    BY <1>1, <1>2
LEMMA GroupFitsNext ==
  ASSUME ~ForksBehind, WorkerTypes, GroupFits, WorkerNext, ~RunWorker
  PROVE  GroupFits'
  <1> USE DEF WorkerTypes
  <1>1. CASE ProgramForks \/ ProgramLeaves \/ ProgramEnds
    <2>1. /\ UNCHANGED <<mode, main, arbiter>> /\ Running
          /\ \/ "leader" \in procs /\ ~ForksUnseen /\ procs' = procs \cup {"job"}
             \/ procs' \subseteq procs \cup {"stray"}
      BY <1>1, ProgramEffect DEF ForksBehind
    <2> QED
      BY <2>1 DEF GroupFits, ForksUnseen, Running, Strays
  <1>2. CASE UNCHANGED <<mode, procs, main, arbiter>>
    BY <1>2 DEF GroupFits
  <1>3. CASE Scan
    <2>1. UNCHANGED <<mode, procs, arbiter>> /\ main.at = "scan"
      BY <1>3 DEF Scan
    <2>2. \/ procs \subseteq Strays /\ main' = [main EXCEPT !.at = "reap"]
          \/ main' = [main EXCEPT !.at = "signal", !.members = procs \ Strays]
      BY <1>3 DEF Scan, Members, Strays
    <2>3. \/ procs \subseteq Strays /\ main'.at = "reap"
          \/ main'.at = "signal" /\ main'.members = procs \ Strays
      BY <2>2 DEF MainType
    <2> QED
      BY <2>1, <2>3 DEF GroupFits
  <1>4. CASE Signal
    <2>1. /\ UNCHANGED <<mode, arbiter>> /\ procs' \subseteq procs /\ main.at = "signal"
          /\ main.round = "KILL" => procs' = procs \ main.members
      BY <1>4 DEF Signal
    <2>2. main'.at = IF main.round = "KILL" THEN "reap" ELSE "scan"
      BY <1>4 DEF Signal, MainType
    <2> QED
      BY <2>1, <2>2 DEF GroupFits, Strays
  <1>5. CASE ReapsShell
    <2>1. UNCHANGED <<mode, arbiter>> /\ procs' \subseteq procs /\ main.at = "reap"
      BY <1>5 DEF ReapsShell
    <2>2. main'.at \in {"done", "loop"}
      BY <1>5 DEF ReapsShell, MainType
    <2> QED
      BY <2>1, <2>2 DEF GroupFits
  <1>6. CASE Exits
    <2>1. UNCHANGED <<mode, arbiter, procs>> /\ main.at = "loop" /\ arbiter.exited /\ mode \in {"session", "exec"}
      BY <1>6 DEF Exits, ExitReady, Running
    <2>2. main'.at = IF mode = "session" THEN "scan" ELSE "done"
      BY <1>6 DEF Exits, CleanUp, MainType
    <2> QED
      BY <2>1, <2>2 DEF GroupFits
  <1>7. CASE DrainIsOver
    <2>1. UNCHANGED <<mode, main, procs>> /\ arbiter' = [arbiter EXCEPT !.late = TRUE]
      BY <1>7 DEF DrainIsOver
    <2>2. arbiter'.exited = arbiter.exited /\ arbiter'.cleaned = arbiter.cleaned
      BY <2>1 DEF ArbiterType
    <2> QED
      BY <2>1, <2>2 DEF GroupFits
  <1>8. CASE HeartbeatIsLost \/ TakesEnd \/ TakesFailure
    <2>1. UNCHANGED <<mode, procs>> /\ main.at = "loop" /\ mode \in {"session", "exec"}
      BY <1>8 DEF HeartbeatIsLost, TakesEnd, TakesFailure, TakesEvent, Running
    <2>2. \E b \in BOOLEAN : (mode = "session" /\ CleanUp(b) /\ UNCHANGED arbiter) \/ (mode # "session" /\ CleansOnce(b))
      BY <1>8 DEF HeartbeatIsLost, TakesEnd, TakesFailure, StopsAll
    <2>3. PICK b \in BOOLEAN : (mode = "session" /\ CleanUp(b) /\ UNCHANGED arbiter) \/ (mode # "session" /\ CleansOnce(b))
      BY <2>2
    <2>4. CASE mode = "session"
      <3>1. main'.at = "scan" /\ arbiter' = arbiter
        BY <2>3, <2>4 DEF CleanUp, MainType
      <3> QED
        BY <2>1, <2>4, <3>1 DEF GroupFits
    <2>5. CASE mode = "exec"
      <3>1. CleansOnce(b)
        BY <2>3, <2>5
      <3>2. arbiter'.cleaned
        BY <3>1 DEF CleansOnce, ArbiterType
      <3>3. main'.at = "scan" \/ (arbiter.cleaned /\ main'.at \in {"done", "loop"})
        BY <3>1, CleanUpEffect
      <3> QED
        BY <2>1, <2>5, <3>2, <3>3 DEF GroupFits
    <2> QED
      BY <2>1, <2>4, <2>5
  <1>9. CASE TakesWrite \/ TakesResize
    <2>1. UNCHANGED <<mode, procs, arbiter>> /\ (main' = main \/ CleanUp(FALSE))
      BY <1>9 DEF TakesWrite, TakesResize, TakesEvent
    <2>2. main' = main \/ main'.at = "scan"
      BY <2>1 DEF CleanUp, MainType
    <2> QED
      BY <2>1, <2>2 DEF GroupFits
  <1>10. CASE TakesEof
    <2>1. UNCHANGED <<mode, main, procs>> /\ arbiter' = [arbiter EXCEPT !.eof = TRUE]
      BY <1>10 DEF TakesEof, TakesEvent
    <2>2. arbiter'.exited = arbiter.exited /\ arbiter'.cleaned = arbiter.cleaned
      BY <2>1 DEF ArbiterType
    <2> QED
      BY <2>1, <2>2 DEF GroupFits
  <1>11. CASE TakesExit
    <2>1. UNCHANGED <<mode, procs>> /\ main.at = "loop" /\ mode \in {"session", "exec"}
      BY <1>11 DEF TakesExit, TakesEvent, Running
    <2>2. mode = "exec" => arbiter'.cleaned
      BY <1>11 DEF TakesExit, ArbiterType
    <2>3. \/ main' = main /\ (mode = "session" \/ arbiter.cleaned)
          \/ CleanUp(FALSE)
      BY <1>11, <2>1 DEF TakesExit
    <2>4. \/ main' = main /\ (mode = "session" \/ arbiter.cleaned)
          \/ main'.at = "scan"
      BY <2>3 DEF CleanUp, MainType
    <2> QED
      BY <2>1, <2>2, <2>4 DEF GroupFits
  <1> QED
    BY <1>1, <1>2, <1>3, <1>4, <1>5, <1>6, <1>7, <1>8, <1>9, <1>10, <1>11
       DEF WorkerNext, ProgramWrites, Program, ReaderTakes, ReaderAdvances, ReaderFinishes, ReaderSends, ReaderEnds,
           WriterWrites, WatcherSees, BackendSends, BackendFails

LEMMA ToldFitsNext ==
  ASSUME WorkerTypes, ReaderFits, ToldFits, WorkerNext, ~RunWorker
  PROVE  ToldFits'
  <1> USE DEF WorkerTypes
  <1>1. Goes
    BY WorkerGoes
  <1>2. Observes("output_failed")' => backend' = "gone"
    BY <1>1, EventsEffect DEF ToldFits, Goes
  <1> DEFINE told == received'.end # "none" \/ backend' = "gone"
  <1>3. CASE /\ mode = "exec" /\ main'.code => main.code
             /\ main'.at = "done" => main.at = "done"
    BY <1>1, <1>2, <1>3 DEF ToldFits, Goes
  <1>4. CASE told
    BY <1>1, <1>2, <1>4 DEF ToldFits, Goes
  <1>5. CASE ProgramWrites \/ ProgramForks \/ ProgramLeaves \/ ProgramEnds
    <2>1. main' = main
      BY <1>5, ProgramEffect DEF ProgramWrites, Program
    <2> QED
      BY <2>1, <1>3
  <1>6. CASE Scan \/ Signal
    <2>1. main'.code = main.code /\ main'.at # "done"
      BY <1>6 DEF Scan, Signal, MainType
    <2> QED
      BY <1>3, <2>1
  <1>7. CASE ReapsShell
    <2>1. main'.code = main.code
      BY <1>7 DEF ReapsShell, MainType
    <2>2. CASE mode = "session"
      <3>1. received'.end # "none" \/ backend = "gone"
        BY <1>7, <2>2, TellsEndEffect DEF ReapsShell
      <3> QED
        BY <1>1, <1>4, <3>1 DEF Goes
    <2>3. CASE mode # "session" /\ ~main.code
      <3>1. main'.at = "loop"
        BY <1>7, <2>3 DEF ReapsShell, MainType
      <3> QED
        BY <1>3, <2>1, <3>1
    <2>4. CASE mode # "session" /\ main.code
      <3>1. received.end # "none" \/ backend = "gone" \/ mode = "none"
        BY <2>4 DEF ToldFits
      <3> QED
        BY <1>1, <1>2, <1>4, <3>1 DEF Goes, ToldFits
    <2> QED
      BY <2>2, <2>3, <2>4
  <1>8. CASE Exits
    <2>1. CASE mode = "session"
      <3>1. main'.at = "scan"
        BY <1>8, <2>1 DEF Exits, CleanUp, MainType
      <3> QED
        BY <1>3, <2>1, <3>1
    <2>2. CASE mode # "session"
      <3>1. received'.end # "none" \/ backend = "gone"
        BY <1>8, <2>2, TellsEndEffect DEF Exits
      <3> QED
        BY <1>1, <1>4, <3>1 DEF Goes
    <2> QED
      BY <2>1, <2>2
  <1>9. CASE HeartbeatIsLost \/ TakesEnd
    <2>1. (CleanUp(FALSE) /\ UNCHANGED arbiter) \/ CleansOnce(FALSE)
      BY <1>9 DEF HeartbeatIsLost, TakesEnd, StopsAll
    <2>2. main'.at # "done" /\ (main'.code => main.code)
      BY <2>1, CleanUpEffect
    <2> QED
      BY <1>3, <2>2
  <1>10. CASE TakesWrite \/ TakesResize \/ TakesExit
    <2>1. main' = main \/ CleanUp(FALSE)
      BY <1>10 DEF TakesWrite, TakesResize, TakesExit
    <2>2. main' = main \/ (main'.at # "done" /\ ~main'.code)
      BY <2>1 DEF CleanUp, MainType
    <2> QED
      BY <1>3, <2>2
  <1>11. CASE TakesFailure
    <2>1. CASE mode = "session"
      <3>1. main'.at = "scan"
        BY <1>11, <2>1 DEF TakesFailure, CleanUp, MainType
      <3> QED
        BY <1>3, <2>1, <3>1
    <2>2. CASE TakesEvent("output_failed")
      <3>1. backend = "gone"
        BY <2>2, ObservedShrinks DEF ToldFits
      <3> QED
        BY <1>1, <1>4, <3>1 DEF Goes
    <2>3. CASE mode # "session" /\ ~TakesEvent("output_failed")
      <3>1. /\ received' = [received EXCEPT !.end = IF backend # "gone" /\ mode = "exec" THEN "failed" ELSE @]
            /\ Running
        BY <1>11, <2>3 DEF TakesFailure, TakesEvent
      <3>2. mode = "exec"
        BY <2>3, <3>1 DEF Running
      <3>3. backend # "gone" => received' = [received EXCEPT !.end = "failed"]
        BY <3>1, <3>2
      <3>4. backend # "gone" => received'.end = "failed"
        BY <3>3 DEF ReceivedType
      <3> QED
        BY <1>1, <1>4, <3>4 DEF Goes
    <2> QED
      BY <2>1, <2>2, <2>3
  <1>12. CASE UNCHANGED main
    BY <1>3, <1>12
  <1> QED
    BY <1>5, <1>6, <1>7, <1>8, <1>9, <1>10, <1>11, <1>12
       DEF WorkerNext, ReaderTakes, ReaderAdvances, ReaderFinishes, ReaderSends, ReaderEnds,
           WriterWrites, WatcherSees, DrainIsOver, TakesEof, BackendSends, BackendFails
LEMMA FirstFrameFits ==
  ASSUME WorkerTypes, FirstFits, RunWorker
  PROVE  GroupFits' /\ ToldFits'
  <1> USE DEF WorkerTypes
  <1>1. /\ mode = "none" /\ observed = <<>> /\ procs = {} /\ ~main.code /\ ~received.hello
        /\ ~arbiter.eof /\ ~arbiter.exited /\ ~arbiter.cleaned
        /\ UNCHANGED <<observed, arbiter, backend>>
    BY RunWorkerEffect DEF FirstFits
  <1>2. ~Observes("output_failed")'
    BY <1>1 DEF Observes
  <1>3. CASE main' = [main EXCEPT !.at = "done"] /\ UNCHANGED <<mode, procs, received>>
    <2>1. main'.at = "done" /\ ~main'.code
      BY <1>1, <1>3 DEF MainType
    <2> QED
      BY <1>1, <1>2, <1>3, <2>1 DEF GroupFits, ToldFits
  <1>4. ASSUME NEW m \in {"session", "exec"}, NEW started \in BOOLEAN,
               mode' = m, procs' = (IF started THEN {"leader"} ELSE {}),
               main' = [main EXCEPT !.at = IF started THEN "loop" ELSE "done"],
               received' = [received EXCEPT !.hello = started \/ m = "exec",
                               !.end = IF m = "exec" /\ ~started THEN "failed" ELSE @]
        PROVE  GroupFits' /\ ToldFits'
    <2>1. main'.at = (IF started THEN "loop" ELSE "done") /\ ~main'.code
      BY <1>1, <1>4 DEF MainType
    <2>2. CASE started
      BY <1>1, <1>2, <1>4, <2>1, <2>2 DEF GroupFits, ToldFits
    <2>3. CASE ~started
      <3>1. received'.hello = (m = "exec") /\ (m = "exec" => received'.end = "failed")
        BY <1>4, <2>3 DEF ReceivedType
      <3> QED
        BY <1>1, <1>2, <1>4, <2>1, <2>3, <3>1 DEF GroupFits, ToldFits
    <2> QED
      BY <2>2, <2>3
  <1> QED
    BY <1>3, <1>4, RunWorkerEffect

ReaderInv == WorkerTypes /\ FirstFits /\ ReaderFits
ShellInv == ReaderInv /\ CodeFits /\ ToldFits
GroupInv == unseen \/ GroupFits

LEMMA ShellInvInit == WorkerInit => ShellInv /\ GroupFits
  <1> SUFFICES ASSUME WorkerInit PROVE ShellInv /\ GroupFits
    OBVIOUS
  <1>1. ~Observes("eof") /\ ~Observes("output_failed")
    BY DEF WorkerInit, Observes
  <1>2. FirstFits
    BY DEF WorkerInit, IdleMain, FirstFits
  <1>3. CodeFits
    BY <1>1 DEF WorkerInit, IdleMain, CodeFits
  <1>4. GroupFits /\ ToldFits
    BY <1>1 DEF WorkerInit, IdleMain, GroupFits, ToldFits
  <1> QED
    BY <1>2, <1>3, <1>4, WorkerTypesInit, ReaderFitsInit DEF ShellInv, ReaderInv

LEMMA ReaderInvNext == ReaderInv /\ [WorkerNext]_workerVars => ReaderInv'
  <1> SUFFICES ASSUME WorkerTypes, FirstFits, ReaderFits, [WorkerNext]_workerVars
               PROVE  WorkerTypes' /\ FirstFits' /\ ReaderFits'
    BY DEF ReaderInv
  <1>1. CASE WorkerNext
    <2>1. main.at = "first" => mode = "none"
      BY DEF FirstFits
    <2> QED
      BY <1>1, <2>1, WorkerTypesNext, ReaderFitsNext, FirstFitsNext
  <1>2. CASE UNCHANGED workerVars
    <2>1. WorkerTypes'
      BY <1>2 DEF WorkerTypes, workerVars
    <2>2. FirstFits'
      BY <1>2 DEF FirstFits, workerVars
    <2>3. ReaderFits'
      BY <1>2, ReaderFitsKeeps DEF workerVars
    <2> QED
      BY <2>1, <2>2, <2>3
  <1> QED
    BY <1>1, <1>2

LEMMA ShellInvNext == ShellInv /\ [WorkerNext]_workerVars => ShellInv'
  <1> SUFFICES ASSUME ShellInv, [WorkerNext]_workerVars PROVE ShellInv'
    OBVIOUS
  <1>1. ReaderInv'
    BY ReaderInvNext DEF ShellInv
  <1>2. CASE WorkerNext
    <2>1. WorkerTypes /\ FirstFits /\ ReaderFits /\ CodeFits /\ ToldFits
      BY DEF ShellInv, ReaderInv
    <2>2. CodeFits'
      BY <1>2, <2>1, CodeFitsNext
    <2>3. ToldFits'
      BY <1>2, <2>1, FirstFrameFits, ToldFitsNext
    <2> QED
      BY <1>1, <2>2, <2>3 DEF ShellInv
  <1>3. CASE UNCHANGED workerVars
    <2>1. CodeFits' /\ ToldFits'
      BY <1>3 DEF ShellInv, CodeFits, ToldFits, Observes, workerVars
    <2> QED
      BY <1>1, <2>1 DEF ShellInv
  <1> QED
    BY <1>2, <1>3

LEMMA GroupInvNext ==
  ShellInv /\ GroupInv /\ [WorkerNext]_workerVars /\ [ForkStep]_<<workerVars, unseen>> => GroupInv'
  <1> SUFFICES ASSUME ShellInv, GroupInv, [WorkerNext]_workerVars, [ForkStep]_<<workerVars, unseen>>
               PROVE  GroupInv'
    OBVIOUS
  <1>1. unseen => unseen'
    BY DEF ForkStep
  <1>2. CASE UNCHANGED workerVars
    BY <1>1, <1>2 DEF GroupInv, GroupFits, workerVars
  <1>3. CASE ForksBehind
    <2>1. procs' # procs
      BY <1>3 DEF ForksBehind
    <2> QED
      BY <1>3, <2>1 DEF ForkStep, GroupInv, workerVars
  <1>4. CASE WorkerNext /\ ~ForksBehind /\ GroupFits
    <2>1. WorkerTypes /\ FirstFits
      BY DEF ShellInv, ReaderInv
    <2> QED
      BY <1>4, <2>1, FirstFrameFits, GroupFitsNext DEF GroupInv
  <1> QED
    BY <1>1, <1>2, <1>3, <1>4 DEF GroupInv

(* A worker that said hello has told its end to a backend that listens.     *)
EndIsTold == main.at = "done" /\ received.hello /\ backend # "gone" => received.end # "none"

LEMMA ShellInvTells == ShellInv => ScreenIsTold /\ ExitIsLast /\ EndIsTold /\ (GroupInv => EndIsClean \/ unseen)
  <1> SUFFICES ASSUME ShellInv
               PROVE  ScreenIsTold /\ ExitIsLast /\ EndIsTold /\ (GroupInv => EndIsClean \/ unseen)
    OBVIOUS
  <1>1. ScreenIsTold
    BY DEF ShellInv, ReaderInv, ReaderFits, ScreenIsTold
  <1>2. ExitIsLast
    BY DEF ShellInv, CodeFits, ExitIsLast
  <1>3. EndIsTold
    BY DEF ShellInv, ToldFits, EndIsTold
  <1>4. GroupInv => EndIsClean \/ unseen
    BY DEF ShellInv, GroupInv, GroupFits, ToldFits, EndIsClean, Strays
  <1> QED
    BY <1>1, <1>2, <1>3, <1>4

(* Only the reader tells a marker of the shell.                             *)
LEMMA MarkersKeepTheirPlace ==
  ReaderInv /\ [WorkerNext]_workerVars =>
    [received'.shell # received.shell =>
       received.output = received'.shell /\ TextIn(received.screen) = TextIn(received'.shell)]_workerVars
  <1> SUFFICES ASSUME ReaderInv, WorkerNext, received'.shell # received.shell
               PROVE  received.output = received'.shell /\ TextIn(received.screen) = TextIn(received'.shell)
    OBVIOUS
  <1> USE DEF ReaderInv, WorkerTypes
  <1>1. CASE ReaderSends
    <2>1. UNCHANGED <<output, screen>> /\ reader.frames # <<>> /\ received' # received
      BY <1>1 DEF ReaderSends
    <2>2. SendsFrame(Head(reader.frames)) /\ reader' = [reader EXCEPT !.frames = Tail(@)]
      BY <1>1, <2>1 DEF ReaderSends
    <2>3. reader'.frames = Tail(reader.frames)
      BY <2>2 DEF ReaderType
    <2> QED
      BY <2>1, <2>2, <2>3, TailFits
  <1>2. CASE RunWorker
    <2>1. ASSUME NEW m, NEW started \in BOOLEAN,
                 received' = [received EXCEPT !.hello = started \/ m = "exec",
                                 !.end = IF m = "exec" /\ ~started THEN "failed" ELSE @]
          PROVE  FALSE
      BY <2>1 DEF ReceivedType
    <2> QED
      BY <1>2, <2>1, RunWorkerEffect
  <1>3. CASE ReapsShell \/ Exits \/ TakesFailure
    <2>1. received' = received \/ \E e : received' = [received EXCEPT !.end = e]
      BY <1>3 DEF ReapsShell, Exits, TellsEnd, TakesFailure
    <2> QED
      BY <2>1 DEF ReceivedType
  <1>4. CASE TakesResize
    <2>1. received' = received \/ received' = [received EXCEPT !.screen = screen.upto, !.size = screen'.size]
      BY <1>4 DEF TakesResize
    <2> QED
      BY <2>1 DEF ReceivedType
  <1> QED
    BY <1>1, <1>2, <1>3, <1>4, ProgramEffect
       DEF WorkerNext, ProgramWrites, Program, ReaderTakes, ReaderAdvances, ReaderFinishes, ReaderEnds,
           WriterWrites, WatcherSees, Scan, Signal, DrainIsOver, HeartbeatIsLost, TakesWrite, TakesEnd,
           TakesEof, TakesExit, BackendSends, BackendFails

(***************************************************************************)
(* A marker of the shell reaches the backend after the output before it and *)
(* with the screen that this output left, whatever the threads of the       *)
(* worker do in between (the reader thread).                                *)
(***************************************************************************)
THEOREM MarkersAreInOrder == WorkerSpec => EventsKeepTheirPlace
  <1>1. WorkerInit => ReaderInv
    BY ShellInvInit DEF ShellInv, ReaderInv
  <1>2. ReaderInv /\ [WorkerNext]_workerVars => ReaderInv'
    BY ReaderInvNext
  <1>3. ReaderInv /\ [WorkerNext]_workerVars =>
          [received'.shell # received.shell =>
             received.output = received'.shell /\ TextIn(received.screen) = TextIn(received'.shell)]_workerVars
    BY MarkersKeepTheirPlace
  <1> QED
    BY <1>1, <1>2, <1>3, PTL DEF WorkerSpec, EventsKeepTheirPlace

(***************************************************************************)
(* However a worker ends, no screen shows what was not received, the exit   *)
(* of the shell is told after all its output and the end is told; nothing   *)
(* of its group is left unless a process forked behind the last scan (the   *)
(* main loop of the worker and its clean-up).                               *)
(***************************************************************************)
THEOREM WorkerIsSound ==
  WorkerSpec /\ ForkWatch => [](ScreenIsTold /\ ExitIsLast /\ EndIsTold /\ (EndIsClean \/ unseen))
  <1>1. WorkerInit => ShellInv /\ GroupInv
    BY ShellInvInit DEF GroupInv
  <1>2. ShellInv /\ GroupInv /\ [WorkerNext]_workerVars /\ [ForkStep]_<<workerVars, unseen>> =>
          ShellInv' /\ GroupInv'
    BY ShellInvNext, GroupInvNext
  <1>3. ShellInv /\ GroupInv => ScreenIsTold /\ ExitIsLast /\ EndIsTold /\ (EndIsClean \/ unseen)
    BY ShellInvTells
  <1> QED
    BY <1>1, <1>2, <1>3, PTL DEF WorkerSpec, ForkWatch

(***************************************************************************)
(* What is typed into a terminal reaches the shell once, a command is the   *)
(* Agent's or the user's, and the screen has told all there was before the  *)
(* end, after which nothing of the terminal is left: in every state before  *)
(* a confirmation is given up, inputs cross or a fork escapes the clean-up. *)
(***************************************************************************)
THEOREM ShellIsSoundAlways ==
  InputSpec /\ TypingWatch /\ WorkerSpec /\ ForkWatch =>
    [](late = {} /\ ~crossed /\ ~unseen => ShellIsSound)
  <1>1. /\ \A w \in WriteCalls \ late : applied[w] <= 1
        /\ CommandIsAttributed \/ crossed
        /\ ScreenIsTold /\ ExitIsLast /\ EndIsTold /\ (EndIsClean \/ unseen)
        => (late = {} /\ ~crossed /\ ~unseen => ShellIsSound)
    BY DEF ShellIsSound, AppliedOnce
  <1> QED
    BY <1>1, InputsGoOnce, TypingIsTold, WorkerIsSound, PTL
=============================================================================
