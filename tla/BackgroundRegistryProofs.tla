------------------------ MODULE BackgroundRegistryProofs ------------------------
(***************************************************************************)
(* Every registered call ends once, nothing is written after close(), no   *)
(* conclusion is lost, an accepted stop reaches its work, and nothing is   *)
(* delivered while the Task is being stopped.                              *)
(*                                                                         *)
(* EndsOnce is not inductive: a step that ends a call must know that the   *)
(* call had no end yet. Fates adds where a call without an end can be: not *)
(* registered yet, an entry, or taken for delivery and not put. Close adds *)
(* that the count close() waits for is the number of deliveries in flight. *)
(***************************************************************************)
EXTENDS BackgroundRegistryProps, FiniteSetTheorems, TLAPS

NoEnd(c) == /\ puts[c] = 0 /\ c \notin cards
            /\ c \notin dropped /\ c \notin settled /\ c \notin discarded

Types == /\ entry \in [Calls -> Modes]
         /\ hand \in [Calls -> Hands]
         /\ puts \in [Calls -> Nat]
         /\ delivering \in Nat
         /\ tool \in [Calls -> {"off", "running", "check", "launching", "waiting", "awaiting",
                                "settling", "completing", "returned"}]

(* A call that has no end yet is in one place, a call with one in none.    *)
FateOf(c) ==
  /\ tool[c] \in {"off", "running"} => NoEnd(c) /\ entry[c] = "none" /\ hand[c] = "none"
  /\ entry[c] # "none" => NoEnd(c) /\ hand[c] = "none"
  /\ hand[c] \in {"tell", "put"} => NoEnd(c)
  /\ puts[c] <= 1 /\ (c \in cards => puts[c] = 0)
  /\ Delivered(c) => c \notin dropped /\ c \notin settled /\ c \notin discarded
  /\ c \in dropped => c \notin settled /\ c \notin discarded
  /\ c \in settled => c \notin discarded

Fates == \A c \in Calls : FateOf(c)

Flying == {c \in Calls : hand[c] # "none"}

Counted ==
  /\ delivering = Cardinality(Flying)
  /\ close # "open" => \A c \in Calls : entry[c] = "none"
  /\ close \in {"telling", "closed"} => \A c \in Calls : hand[c] = "none"

IInv == Types /\ Fates /\ Counted

LEMMA InitFates == Init => IInv
<1> SUFFICES ASSUME Init PROVE IInv
  OBVIOUS
<1>1. Types
  BY DEF Init, Types, Modes, Hands
<1>2. Fates
  BY DEF Init, Fates, FateOf, NoEnd, Delivered
<1>3. Counted
  <2>1. Flying = {}
    BY DEF Init, Flying
  <2> QED
    BY <2>1, FS_EmptySet DEF Init, Counted
<1> QED
  BY <1>1, <1>2, <1>3 DEF IInv

-----------------------------------------------------------------------------
(* What a step can do to the fate of a call.                               *)
fates == <<entry, hand, puts, cards, dropped, settled, discarded, delivering>>

(* The tool of a call that was registered never is before that again.      *)
ToolGoesForward ==
  /\ tool' \in [Calls -> {"off", "running", "check", "launching", "waiting", "awaiting",
                         "settling", "completing", "returned"}]
  /\ \A c \in Calls : tool'[c] \in {"off", "running"} => tool[c] \in {"off", "running"}

LEMMA Untouched ==
  ASSUME IInv, UNCHANGED <<fates, close>>, ToolGoesForward
  PROVE  IInv'
<1>1. Types'
  BY DEF IInv, Types, fates, ToolGoesForward
<1>2. Fates'
  BY DEF IInv, Fates, FateOf, fates, ToolGoesForward, NoEnd, Delivered
<1>3. Counted'
  <2>1. Flying' = Flying
    BY DEF Flying, fates
  <2> QED
    BY <2>1 DEF IInv, Counted, fates
<1> QED
  BY <1>1, <1>2, <1>3 DEF IInv

LEMMA FlyingFinite == IsFiniteSet(Flying)
BY RegistryAssumption, FS_Subset DEF Flying

(* Taking a call for delivery.                                             *)
LEMMA Taken ==
  ASSUME IInv, NEW c \in Calls, NEW how \in {"tell", "put"}, entry[c] # "none", Take(c, how),
         UNCHANGED <<puts, cards, dropped, settled, discarded, close>>, ToolGoesForward
  PROVE  IInv'
<1>1. Types'
  <2>1. entry' \in [Calls -> Modes]
    BY DEF IInv, Types, Take, Modes
  <2>2. hand' \in [Calls -> Hands]
    BY DEF IInv, Types, Take, Hands
  <2>3. delivering' \in Nat
    BY DEF IInv, Types, Take
  <2> QED
    BY <2>1, <2>2, <2>3 DEF IInv, Types, ToolGoesForward
<1>2. Fates'
  BY DEF IInv, Types, Fates, FateOf, Take, NoEnd, Delivered, ToolGoesForward
<1>3. Counted'
  <2>1. close = "open" /\ hand[c] = "none" /\ hand \in [Calls -> Hands]
    BY DEF IInv, Types, Fates, FateOf, Counted
  <2>2. Flying' = Flying \cup {c} /\ c \notin Flying
    BY <2>1 DEF Flying, Take
  <2>3. Cardinality(Flying') = Cardinality(Flying) + 1
    BY <2>2, FlyingFinite, FS_AddElement
  <2> QED
    BY <2>1, <2>3 DEF IInv, Counted, Take
<1> QED
  BY <1>1, <1>2, <1>3 DEF IInv

(* Ending the entries of S: dropped with Drop, or one settled or discarded. *)
LEMMA Ended ==
  ASSUME IInv, NEW S, S \subseteq Entries,
         entry' = [c \in Calls |-> IF c \in S THEN "none" ELSE entry[c]],
         \/ dropped' = dropped \cup S /\ UNCHANGED <<settled, discarded>>
         \/ settled' = settled \cup S /\ UNCHANGED <<dropped, discarded>>
         \/ discarded' = discarded \cup S /\ UNCHANGED <<dropped, settled>>,
         UNCHANGED <<hand, puts, cards, delivering, close>>, ToolGoesForward
  PROVE  IInv'
<1>1. Types'
  BY DEF IInv, Types, Modes, ToolGoesForward
<1>2. Fates'
  <2> SUFFICES ASSUME NEW c \in Calls
               PROVE  FateOf(c)'
    BY DEF Fates
  <2>1. CASE c \in S
    BY <2>1 DEF IInv, Types, Fates, FateOf, NoEnd, Delivered, Entries, ToolGoesForward
  <2>2. CASE c \notin S
    BY <2>2 DEF IInv, Types, Fates, FateOf, NoEnd, Delivered, Entries, ToolGoesForward
  <2> QED
    BY <2>1, <2>2
<1>3. Counted'
  <2>1. Flying' = Flying
    BY DEF Flying
  <2> QED
    BY <2>1 DEF IInv, Counted
<1> QED
  BY <1>1, <1>2, <1>3 DEF IInv

(* A stop of a registered call by the user.                                *)
LEMMA CancelsEntry ==
  ASSUME IInv, NEW c \in Calls, entry[c] # "none", CancelEntry(c), UNCHANGED close,
         ToolGoesForward
  PROVE  IInv'
<1>1. UNCHANGED <<puts, cards, settled, discarded>>
  BY DEF CancelEntry
<1>2. CASE UNCHANGED <<entry, sendVars, dropped>>
  BY <1>1, <1>2, Untouched DEF fates, sendVars
<1>3. CASE Take(c, "tell") /\ UNCHANGED dropped
  BY <1>1, <1>3, Taken
<1>4. CASE /\ entry' = [entry EXCEPT ![c] = "none"]
           /\ dropped' = dropped \cup {c}
           /\ UNCHANGED sendVars
  <2>1. entry' = [d \in Calls |-> IF d \in {c} THEN "none" ELSE entry[d]]
    BY <1>4 DEF IInv, Types
  <2>2. {c} \subseteq Entries
    BY DEF Entries
  <2>3. UNCHANGED <<hand, delivering>>
    BY <1>4 DEF sendVars
  <2> QED
    BY <1>1, <1>4, <2>1, <2>2, <2>3, Ended
<1> QED
  BY <1>2, <1>3, <1>4 DEF CancelEntry

LEMMA Completes ==
  ASSUME IInv, NEW c \in Calls, Complete(c), ToolGoesForward,
         UNCHANGED <<close, puts, cards, dropped, settled, discarded>>
  PROVE  IInv'
<1>1. CASE entry[c] # "none" /\ Take(c, "put")
  BY <1>1, Taken
<1>2. CASE UNCHANGED <<regVars, sendVars>>
  BY <1>2, Untouched DEF fates, regVars, sendVars
<1> QED
  BY <1>1, <1>2 DEF Complete

-----------------------------------------------------------------------------
(* The steps of the tool thread of a call.                                 *)

LEMMA ToolSteps ==
  ASSUME IInv, NEW c \in Calls, ToolStarts(c) \/ ToolStep(c) \/ ToolDiscards(c)
  PROVE  IInv'
<1> USE DEF ToolReturns, ToolGoesOn
<1>0. tool \in [Calls -> {"off", "running", "check", "launching", "waiting", "awaiting",
                         "settling", "completing", "returned"}]
  BY DEF IInv, Types
<1>1. CASE ToolStarts(c)
  <2>1. UNCHANGED <<fates, close>>
    BY <1>1 DEF ToolStarts, fates, regVars, sendVars, endVars, toolFrame
  <2>2. ToolGoesForward
    BY <1>0, <1>1 DEF ToolStarts, ToolGoesForward
  <2> QED
    BY <2>1, <2>2, Untouched
<1>2. CASE ToolTakes(c)
  <2>1. UNCHANGED <<fates, close>>
    BY <1>2 DEF ToolTakes, fates, regVars, sendVars, endVars, toolFrame
  <2>2. ToolGoesForward
    BY <1>0, <1>2 DEF ToolTakes, ToolGoesForward
  <2> QED
    BY <2>1, <2>2, Untouched
<1>3. CASE ToolAborts(c)
  <2>1. UNCHANGED <<fates, close>>
    BY <1>3 DEF ToolAborts, fates, regVars, sendVars, endVars, toolFrame
  <2>2. ToolGoesForward
    BY <1>0, <1>3 DEF ToolAborts, ToolGoesForward
  <2> QED
    BY <2>1, <2>2, Untouched
<1>4. CASE ToolDetaches(c)
  <2>1. UNCHANGED <<fates, close>>
    BY <1>4 DEF ToolDetaches, fates, regVars, sendVars, endVars, toolFrame
  <2>2. ToolGoesForward
    BY <1>0, <1>4 DEF ToolDetaches, ToolGoesForward
  <2> QED
    BY <2>1, <2>2, Untouched
<1>5. CASE ToolLaunches(c)
  <2>1. UNCHANGED <<fates, close>>
    BY <1>5 DEF ToolLaunches, fates, regVars, sendVars, endVars, toolFrame
  <2>2. ToolGoesForward
    BY <1>0, <1>5 DEF ToolLaunches, ToolGoesForward
  <2> QED
    BY <2>1, <2>2, Untouched
<1>6. CASE Register(c)
  <2>1. tool' = [tool EXCEPT ![c] = "check"] /\ tool[c] = "running"
    BY <1>6 DEF Register
  <2>2. NoEnd(c) /\ entry[c] = "none" /\ hand[c] = "none" /\ FateOf(c)
    BY <2>1 DEF IInv, Fates, FateOf
  <2>3. UNCHANGED <<hand, delivering, puts, cards, settled, discarded, close>>
    BY <1>6 DEF Register, sendVars
  <2>4. CASE Closed
    <3>1. UNCHANGED entry /\ dropped' = dropped \cup {c}
      BY <1>6, <2>4 DEF Register
    <3>2. Types'
      BY <1>0, <2>1, <2>3, <3>1 DEF IInv, Types
    <3>3. Fates'
      BY <1>0, <2>1, <2>2, <2>3, <3>1 DEF IInv, Fates, FateOf, NoEnd, Delivered
    <3>4. Flying' = Flying
      BY <2>3 DEF Flying
    <3> QED
      BY <2>3, <3>1, <3>2, <3>3, <3>4 DEF IInv, Counted
  <2>5. CASE ~Closed
    <3>1. /\ entry' = [entry EXCEPT ![c] = IF Kind[c] = "terminal" THEN "foreground"
                                                                 ELSE "background"]
          /\ UNCHANGED dropped
      BY <1>6, <2>5 DEF Register
    <3>2. Types'
      BY <1>0, <2>1, <2>3, <3>1 DEF IInv, Types, Modes
    <3>3. Fates'
      BY <1>0, <2>1, <2>2, <2>3, <3>1 DEF IInv, Types, Fates, FateOf, NoEnd, Delivered
    <3>4. Flying' = Flying
      BY <2>3 DEF Flying
    <3> QED
      BY <2>3, <2>5, <3>2, <3>3, <3>4 DEF IInv, Counted, Closed
  <2> QED
    BY <2>4, <2>5
<1>7. CASE ToolChecks(c)
  <2>1. ToolGoesForward /\ UNCHANGED close
    BY <1>0, <1>7 DEF ToolChecks, ToolGoesForward
  <2>2. CASE c \in marked /\ entry[c] # "none"
    BY <1>7, <2>1, <2>2, CancelsEntry DEF ToolChecks
  <2>3. CASE ~(c \in marked /\ entry[c] # "none")
    <3>1. UNCHANGED <<fates, close>>
      BY <1>7, <2>3 DEF ToolChecks, fates, regVars, sendVars, endVars
    <3> QED
      BY <2>1, <3>1, Untouched
  <2> QED
    BY <2>2, <2>3
<1>8. CASE ToolSettles(c)
  <2>1. tool' = [tool EXCEPT ![c] = "completing"] \/ tool' = [tool EXCEPT ![c] = "returned"]
    BY <1>8 DEF ToolSettles
  <2>2. ToolGoesForward
    BY <1>0, <2>1 DEF ToolGoesForward
  <2>3. UNCHANGED <<hand, delivering, puts, cards, dropped, discarded, close>>
    BY <1>8 DEF ToolSettles, sendVars
  <2>4. CASE entry[c] = "foreground"
    <3>1. entry' = [entry EXCEPT ![c] = "none"] /\ settled' = settled \cup {c}
      BY <1>8, <2>4 DEF ToolSettles
    <3>2. entry' = [d \in Calls |-> IF d \in {c} THEN "none" ELSE entry[d]]
      BY <3>1 DEF IInv, Types
    <3>3. {c} \subseteq Entries
      BY <2>4 DEF Entries
    <3> QED
      BY <2>2, <2>3, <3>1, <3>2, <3>3, Ended
  <2>5. CASE entry[c] # "foreground"
    <3>1. UNCHANGED <<entry, settled>>
      BY <1>8, <2>5 DEF ToolSettles
    <3> QED
      BY <2>2, <2>3, <3>1, Untouched DEF fates
  <2> QED
    BY <2>4, <2>5
<1>9. CASE ToolCompletes(c)
  <2>1. ToolGoesForward
    BY <1>0, <1>9 DEF ToolCompletes, ToolGoesForward
  <2>2. UNCHANGED <<close, puts, cards, dropped, settled, discarded>>
    BY <1>9 DEF ToolCompletes, toolFrame, endVars
  <2> QED
    BY <1>9, <2>1, <2>2, Completes DEF ToolCompletes
<1>10. CASE ToolDiscards(c)
  <2>1. ToolGoesForward
    BY <1>0, <1>10 DEF ToolDiscards, ToolGoesForward
  <2>2. UNCHANGED <<hand, delivering, puts, cards, dropped, settled, close>>
    BY <1>10 DEF ToolDiscards, sendVars
  <2>3. /\ entry' = [entry EXCEPT ![c] = "none"]
        /\ discarded' = IF entry[c] = "none" THEN discarded ELSE discarded \cup {c}
    BY <1>10 DEF ToolDiscards
  <2>4. CASE entry[c] = "none"
    <3>1. UNCHANGED <<entry, discarded>>
      BY <2>3, <2>4 DEF IInv, Types
    <3> QED
      BY <2>1, <2>2, <3>1, Untouched DEF fates
  <2>5. CASE entry[c] # "none"
    <3>1. discarded' = discarded \cup {c}
      BY <2>3, <2>5
    <3>2. entry' = [d \in Calls |-> IF d \in {c} THEN "none" ELSE entry[d]]
      BY <2>3 DEF IInv, Types
    <3>3. {c} \subseteq Entries
      BY <2>5 DEF Entries
    <3> QED
      BY <2>1, <2>2, <3>1, <3>2, <3>3, Ended
  <2> QED
    BY <2>4, <2>5
<1> QED
  BY <1>1, <1>2, <1>3, <1>4, <1>5, <1>6, <1>7, <1>8, <1>9, <1>10 DEF ToolStep

-----------------------------------------------------------------------------
(* The deliveries in flight.                                               *)
LEMMA SendSteps ==
  ASSUME IInv, NEW c \in Calls, SendStep(c)
  PROVE  IInv'
<1>0. tool' = tool => ToolGoesForward
  BY DEF IInv, Types, ToolGoesForward
<1>1. CASE Tells(c)
  <2>1. UNCHANGED <<fates, close, tool>>
    BY <1>1 DEF Tells, fates, regVars, sendVars, toolVars, endVars
  <2> QED
    BY <1>0, <2>1, Untouched
<1>2. CASE DeliverTells(c)
  <2>1. /\ hand[c] = "tell" /\ hand' = [hand EXCEPT ![c] = "put"]
        /\ UNCHANGED <<entry, puts, cards, dropped, settled, discarded, delivering, close, tool>>
    BY <1>2 DEF DeliverTells, jobFrame, regVars, toolVars, endVars
  <2>2. Types'
    BY <2>1 DEF IInv, Types, Hands
  <2>3. Fates'
    BY <2>1 DEF IInv, Types, Fates, FateOf, NoEnd, Delivered
  <2>4. Flying' = Flying
    BY <2>1 DEF IInv, Types, Flying
  <2>5. Counted'
    BY <2>1, <2>4 DEF IInv, Types, Counted
  <2> QED
    BY <2>2, <2>3, <2>5 DEF IInv
<1>3. CASE DeliverPuts(c)
  <2>1. /\ hand[c] = "put" /\ hand' = [hand EXCEPT ![c] = "release"]
        /\ UNCHANGED <<entry, dropped, settled, discarded, delivering, close, tool>>
    BY <1>3 DEF DeliverPuts, jobFrame, regVars, toolVars
  <2>2. \/ cards' = cards \cup {c} /\ UNCHANGED puts
        \/ puts' = [puts EXCEPT ![c] = puts[c] + 1] /\ UNCHANGED cards
    BY <1>3 DEF DeliverPuts
  <2>3. NoEnd(c) /\ entry[c] = "none" /\ tool[c] \notin {"off", "running"}
    BY <2>1 DEF IInv, Fates, FateOf
  <2>4. Types'
    <3>1. hand' \in [Calls -> Hands] /\ puts' \in [Calls -> Nat]
      BY <2>1, <2>2 DEF IInv, Types, Hands
    <3> QED
      BY <2>1, <3>1 DEF IInv, Types
  <2>5. Fates'
    <3> SUFFICES ASSUME NEW d \in Calls
                 PROVE  FateOf(d)'
      BY DEF Fates
    <3>1. FateOf(d)
      BY DEF IInv, Fates
    <3>2. CASE d = c
      BY <2>1, <2>2, <2>3, <3>1, <3>2 DEF IInv, Types, FateOf, NoEnd, Delivered
    <3>3. CASE d # c
      BY <2>1, <2>2, <3>1, <3>3 DEF IInv, Types, FateOf, NoEnd, Delivered
    <3> QED
      BY <3>2, <3>3
  <2>6. Flying' = Flying
    BY <2>1 DEF IInv, Types, Flying
  <2>7. Counted'
    BY <2>1, <2>6 DEF IInv, Types, Counted
  <2> QED
    BY <2>4, <2>5, <2>7 DEF IInv
<1>4. CASE DeliverReleases(c)
  <2>1. /\ hand[c] = "release" /\ hand' = [hand EXCEPT ![c] = "none"]
        /\ delivering' = delivering - 1
        /\ UNCHANGED <<entry, puts, cards, dropped, settled, discarded, close, tool>>
    BY <1>4 DEF DeliverReleases, jobFrame, regVars, toolVars, endVars
  <2>2. Flying' = Flying \ {c} /\ c \in Flying
    BY <2>1 DEF IInv, Types, Flying
  <2>3. Cardinality(Flying') = Cardinality(Flying) - 1
    BY <2>2, FlyingFinite, FS_RemoveElement
  <2>4. delivering' = Cardinality(Flying') /\ delivering' \in Nat
    <3>1. IsFiniteSet(Flying')
      BY <2>2, FlyingFinite, FS_RemoveElement
    <3>2. Cardinality(Flying') \in Nat
      BY <3>1, FS_CardinalityType
    <3> QED
      BY <2>1, <2>3, <3>2 DEF IInv, Counted
  <2>5. Types'
    BY <2>1, <2>4 DEF IInv, Types, Hands
  <2>6. Fates'
    BY <2>1 DEF IInv, Types, Fates, FateOf, NoEnd, Delivered
  <2>7. Counted'
    BY <2>1, <2>4 DEF IInv, Types, Counted
  <2> QED
    BY <2>5, <2>6, <2>7 DEF IInv
<1> QED
  BY <1>1, <1>2, <1>3, <1>4 DEF SendStep

-----------------------------------------------------------------------------
(* The jobs, the user and the Runs.                                        *)
LEMMA JobSteps ==
  ASSUME IInv, NEW c \in Calls,
         JobStep(c) \/ CommitStart(c) \/ ChildStarts(c) \/ ChildRests(c)
  PROVE  IInv'
<1>0. tool' = tool => ToolGoesForward
  BY DEF IInv, Types, ToolGoesForward
<1>1. CASE JobConcludes(c)
  <2>1. UNCHANGED <<fates, close, tool>>
    BY <1>1 DEF JobConcludes, fates, jobFrame, regVars, sendVars, toolVars, endVars
  <2> QED
    BY <1>0, <2>1, Untouched
<1>2. CASE CommitStart(c)
  <2>1. UNCHANGED <<fates, close, tool>>
    BY <1>2 DEF CommitStart, fates, jobFrame, regVars, sendVars, toolVars, endVars
  <2> QED
    BY <1>0, <2>1, Untouched
<1>3. CASE ChildStarts(c)
  <2>1. UNCHANGED <<fates, close, tool>>
    BY <1>3 DEF ChildStarts, fates, jobFrame, regVars, sendVars, toolVars, endVars
  <2> QED
    BY <1>0, <2>1, Untouched
<1>4. CASE ChildRests(c)
  <2>1. UNCHANGED <<fates, close, tool>>
    BY <1>4 DEF ChildRests, fates, jobFrame, regVars, sendVars, toolVars, endVars
  <2> QED
    BY <1>0, <2>1, Untouched
<1>5. CASE JobReports(c)
  <2>1. UNCHANGED <<close, tool, puts, cards, dropped, settled, discarded>>
    BY <1>5 DEF JobReports, toolVars, endVars
  <2> QED
    BY <1>0, <1>5, <2>1, Completes DEF JobReports
<1> QED
  BY <1>1, <1>2, <1>3, <1>4, <1>5 DEF JobStep

(* Drop ends the entries it takes.                                         *)
LEMMA Drops ==
  ASSUME IInv, NEW S, S \subseteq Entries, NEW reason, Drop(S, reason),
         UNCHANGED <<hand, delivering, close, tool>>
  PROVE  IInv'
<1>1. ToolGoesForward
  BY DEF IInv, Types, ToolGoesForward
<1> QED
  BY <1>1, Ended DEF Drop

LEMMA UserSteps ==
  ASSUME IInv, NEW c \in Calls, UserCancels(c) \/ UserDetaches(c) \/ UserEdits(c)
  PROVE  IInv'
<1>0. tool' = tool => ToolGoesForward
  BY DEF IInv, Types, ToolGoesForward
<1>1. CASE UserCancels(c)
  <2>1. UNCHANGED <<close, tool>>
    BY <1>1 DEF UserCancels
  <2>2. CASE entry[c] = "none"
    <3>1. UNCHANGED fates
      BY <1>1, <2>2 DEF UserCancels, fates, regVars, sendVars, endVars
    <3> QED
      BY <1>0, <2>1, <3>1, Untouched
  <2>3. CASE entry[c] # "none"
    BY <1>0, <1>1, <2>1, <2>3, CancelsEntry DEF UserCancels
  <2> QED
    BY <2>2, <2>3
<1>2. CASE UserDetaches(c)
  <2>1. /\ entry[c] = "foreground" /\ entry' = [entry EXCEPT ![c] = "background"]
        /\ UNCHANGED <<hand, puts, cards, dropped, settled, discarded, delivering, close, tool>>
    BY <1>2 DEF UserDetaches, sendVars, endVars
  <2>2. Types'
    BY <2>1 DEF IInv, Types, Modes
  <2>3. Fates'
    BY <2>1 DEF IInv, Types, Fates, FateOf, NoEnd, Delivered
  <2>4. Flying' = Flying
    BY <2>1 DEF Flying
  <2>5. Counted'
    BY <2>1, <2>4 DEF IInv, Counted
  <2> QED
    BY <2>2, <2>3, <2>5 DEF IInv
<1>3. CASE UserEdits(c)
  <2>1. UNCHANGED <<hand, delivering, close, tool>> /\ Drop(Entries \cap {c}, "withdraw")
    BY <1>3 DEF UserEdits, sendVars, toolVars
  <2> QED
    BY <2>1, Drops
<1> QED
  BY <1>1, <1>2, <1>3

LEMMA RunSteps ==
  ASSUME IInv,
         RunStarts \/ Stop \/ RunSettles \/ RunCrashes \/ SuspendedDrops \/ ExecStep
  PROVE  IInv'
<1>0. tool' = tool => ToolGoesForward
  BY DEF IInv, Types, ToolGoesForward
<1>1. Uncommitted \subseteq Entries /\ Entries \subseteq Entries
  BY DEF Uncommitted, Entries
<1>2. UNCHANGED <<hand, delivering, close, tool>>
  BY DEF RunStarts, Stop, RunSettles, RunCrashes, SuspendedDrops, ExecStep, ExecDrops,
         ExecReleases, SuspendedCancels, CancelSpreads, runFrame, workFrame, sendVars
<1>3. CASE UNCHANGED <<regVars, endVars>>
  BY <1>0, <1>2, <1>3, Untouched DEF fates, regVars, endVars
<1>4. CASE Drop(Uncommitted, "withdraw")
  BY <1>1, <1>2, <1>4, Drops
<1>5. CASE Drop(Entries, "parent")
  BY <1>1, <1>2, <1>5, Drops
<1> QED
  BY <1>3, <1>4, <1>5 DEF RunStarts, Stop, RunSettles, RunCrashes, SuspendedDrops, ExecStep,
         ExecDrops, ExecReleases, SuspendedCancels, CancelSpreads, DropTask

(* close().                                                                *)
LEMMA CloseSteps ==
  ASSUME IInv, CloseBegins \/ CloseStep
  PROVE  IInv'
<1>0. /\ UNCHANGED <<hand, puts, cards, delivering, settled, discarded, tool>>
  BY DEF CloseBegins, CloseStep, CloseWaited, CloseReturns, closeFrame, sendVars, toolVars
<1>1. Flying' = Flying
  BY <1>0 DEF Flying
<1>2. CASE CloseBegins
  <2>1. /\ entry' = [c \in Calls |-> "none"]
        /\ dropped' = dropped \cup Entries
        /\ close' = "waiting"
    BY <1>2 DEF CloseBegins
  <2>2. Types'
    BY <1>0, <2>1 DEF IInv, Types, Modes
  <2>3. Fates'
    BY <1>0, <2>1 DEF IInv, Types, Fates, FateOf, NoEnd, Delivered, Entries
  <2>4. Counted'
    BY <1>0, <1>1, <2>1 DEF IInv, Counted
  <2> QED
    BY <2>2, <2>3, <2>4 DEF IInv
<1>3. CASE CloseStep
  <2>1. UNCHANGED <<entry, dropped>>
    BY <1>3 DEF CloseStep, CloseWaited, CloseReturns
  <2>2. Types' /\ Fates'
    BY <1>0, <2>1 DEF IInv, Types, Fates, FateOf, NoEnd, Delivered
  <2>3. CASE CloseWaited
    <3>1. delivering = 0 /\ close = "waiting"
      BY <2>3 DEF CloseWaited
    <3>2. Flying = {}
      BY <3>1, FlyingFinite, FS_EmptySet DEF IInv, Counted
    <3>3. \A c \in Calls : hand[c] = "none"
      BY <3>2 DEF Flying
    <3> QED
      BY <1>0, <1>1, <2>1, <2>2, <3>1, <3>3 DEF IInv, Counted
  <2>4. CASE CloseReturns
    BY <1>0, <1>1, <2>1, <2>2, <2>4 DEF IInv, Counted, CloseReturns
  <2> QED
    BY <1>3, <2>3, <2>4 DEF CloseStep
<1> QED
  BY <1>2, <1>3

-----------------------------------------------------------------------------
LEMMA NextFates == IInv /\ [Next]_vars => IInv'
<1> SUFFICES ASSUME IInv, [Next]_vars
             PROVE  IInv'
  OBVIOUS
<1>1. CASE UNCHANGED vars
  <2>1. UNCHANGED <<fates, close, tool>>
    BY <1>1 DEF vars, fates, regVars, sendVars, toolVars, endVars
  <2>2. ToolGoesForward
    BY <2>1 DEF IInv, Types, ToolGoesForward
  <2> QED
    BY <2>1, <2>2, Untouched
<1>2. CASE Next
  BY <1>2, ToolSteps, SendSteps, JobSteps, UserSteps, RunSteps, CloseSteps
     DEF Next, Outside
<1> QED
  BY <1>1, <1>2

LEMMA InvAlways == Spec => []IInv
BY InitFates, NextFates, PTL DEF Spec

(* Every registered call ends once, whatever completes, is detached,       *)
(* stopped, dropped and closed at the same time.                           *)
THEOREM EndsOnceAlways == Spec => []EndsOnce
<1>1. IInv => EndsOnce
  <2> SUFFICES ASSUME IInv, NEW c \in Calls
               PROVE  /\ puts[c] <= 1 /\ (c \in cards => puts[c] = 0)
                      /\ \A e, f \in EndsOf(c) : e = f
                      /\ entry[c] # "none" => EndsOf(c) = {}
    BY DEF EndsOnce
  <2>1. FateOf(c)
    BY DEF IInv, Fates
  <2>2. puts[c] <= 1 /\ (c \in cards => puts[c] = 0)
    BY <2>1 DEF FateOf
  <2>3. \A e, f \in EndsOf(c) : e = f
    BY <2>1 DEF FateOf, EndsOf
  <2>4. entry[c] # "none" => EndsOf(c) = {}
    BY <2>1 DEF FateOf, EndsOf, NoEnd, Delivered
  <2> QED
    BY <2>2, <2>3, <2>4
<1> QED
  BY <1>1, InvAlways, PTL

(* No conclusion is written any more once close() returned.                *)
THEOREM ClosedForGood == Spec => NothingWrittenAfterClose
<1>1. IInv /\ [Next]_vars => [close = "closed" => UNCHANGED <<puts, cards>>]_vars
  <2> SUFFICES ASSUME IInv, Next, close = "closed"
               PROVE  UNCHANGED <<puts, cards>>
    OBVIOUS
  <2>1. \A c \in Calls : hand[c] = "none" /\ entry[c] = "none"
    BY DEF IInv, Counted
  <2>2. \A c \in Calls : ~DeliverPuts(c)
    BY <2>1 DEF DeliverPuts
  <2>3. CASE \E c \in Calls : ToolStep(c)
    BY <2>1, <2>3 DEF ToolStep, Register, ToolChecks, ToolTakes, ToolAborts, ToolDetaches,
       ToolSettles, ToolCompletes, ToolLaunches, toolFrame, endVars, CancelEntry
  <2>4. CASE \E c \in Calls : JobStep(c)
    BY <2>4 DEF JobStep, JobConcludes, JobReports, endVars
  <2>5. CASE \E c \in Calls : SendStep(c)
    BY <2>2, <2>5 DEF SendStep, DeliverTells, DeliverReleases, Tells, endVars
  <2>6. CASE ExecStep
    BY <2>6 DEF ExecStep, ExecDrops, DropTask, Drop, ExecReleases, SuspendedCancels,
       CancelSpreads, endVars
  <2>7. CASE CloseStep
    BY <2>7 DEF CloseStep, CloseWaited, CloseReturns, closeFrame
  <2>8. CASE Outside
    BY <2>1, <2>8 DEF Outside, ToolStarts, ToolDiscards, CommitStart, UserCancels, CancelEntry,
       UserDetaches, UserEdits, ChildStarts, ChildRests, RunStarts, Stop, RunSettles, RunCrashes,
       SuspendedDrops, CloseBegins, DropTask, Drop, toolFrame, jobFrame, closeFrame, endVars
  <2> QED
    BY <2>3, <2>4, <2>5, <2>6, <2>7, <2>8 DEF Next
<1> QED
  BY <1>1, InvAlways, PTL DEF Spec, NothingWrittenAfterClose

-----------------------------------------------------------------------------
(* Nothing is lost. A call whose tool got past register is in the registry, *)
(* is being delivered, or has ended; what complete() leaves in the registry *)
(* while the Task is being stopped stays only as long as the signal does;   *)
(* and what was dropped was told, is owed a call, or is held by close().    *)
PlaceOf(c) == tool[c] \notin {"off", "running"} => ~NoEnd(c) \/ entry[c] # "none" \/ hand[c] \in {"tell", "put"}

LeftOf(c) == job[c] = "reported" /\ entry[c] # "none" => signal \/ c \in abandoned

OwedOf(c) == c \in dropped => \/ c \in told \cup held
                              \/ \E reason \in Reasons : <<c, reason>> \in owed

Executions ==
  /\ exec = "off" => ~signal
  /\ exec \in {"drop", "dropped"} => signal
  /\ exec # "driving" => \A c \in Calls : tool[c] \in {"off", "returned"}
  /\ exec = "dropped" => \A c \in Calls : entry[c] = "none"

Lasting ==
  /\ job \in [Calls -> {"none", "running", "done", "reported"}]
  /\ exec \in {"off", "driving", "drop", "dropped"}
  /\ close # "waiting" => held = {}
  /\ Executions
  /\ \A c \in Calls : PlaceOf(c) /\ LeftOf(c) /\ OwedOf(c)

LInv == IInv /\ Lasting

LEMMA InitLasting == Init => Lasting
BY DEF Init, Lasting, Executions, PlaceOf, LeftOf, OwedOf

(* The steps that are all about the tool thread of one call.                *)
LEMMA ToolLasting ==
  ASSUME LInv, NEW c \in Calls, ToolStarts(c) \/ ToolStep(c) \/ ToolDiscards(c)
  PROVE  Lasting'
<1> USE DEF ToolReturns, ToolGoesOn
<1>0. /\ tool \in [Calls -> {"off", "running", "check", "launching", "waiting", "awaiting",
                             "settling", "completing", "returned"}]
      /\ entry \in [Calls -> Modes] /\ hand \in [Calls -> Hands] /\ puts \in [Calls -> Nat]
      /\ job \in [Calls -> {"none", "running", "done", "reported"}]
  BY DEF LInv, IInv, Types, Lasting
<1>1. UNCHANGED <<exec, signal, abandoned, close, held>>
  BY DEF ToolStarts, ToolStep, ToolDiscards, Register, ToolChecks, ToolTakes, ToolAborts,
         ToolDetaches, ToolSettles, ToolCompletes, ToolLaunches, toolFrame, runVars
<1>2. exec = "driving"
  BY DEF LInv, Lasting, Executions, ToolStarts, ToolStep, ToolDiscards, Register, ToolChecks,
         ToolTakes, ToolAborts, ToolDetaches, ToolSettles, ToolCompletes, ToolLaunches
<1>3. job' \in [Calls -> {"none", "running", "done", "reported"}]
  BY <1>0 DEF ToolStarts, ToolStep, ToolDiscards, Register, ToolChecks, ToolTakes, ToolAborts,
         ToolDetaches, ToolSettles, ToolCompletes, ToolLaunches, jobVars
<1>4. Executions'
  BY <1>1, <1>2 DEF LInv, Lasting, Executions
<1>5. ASSUME NEW d \in Calls
      PROVE  (PlaceOf(d) /\ LeftOf(d) /\ OwedOf(d))'
  <2> USE <1>0, <1>1 DEF PlaceOf, LeftOf, OwedOf, NoEnd, regVars, sendVars, toolVars, jobVars, endVars
  <2>0. PlaceOf(d) /\ LeftOf(d) /\ OwedOf(d) /\ FateOf(d) /\ PlaceOf(c) /\ LeftOf(c) /\ OwedOf(c) /\ FateOf(c)
    BY DEF LInv, Lasting, IInv, Fates
  <2>1. CASE ToolStarts(c)
    BY <2>0, <2>1 DEF ToolStarts, toolFrame
  <2>2. CASE ToolTakes(c) \/ ToolAborts(c) \/ ToolLaunches(c)
    BY <2>0, <2>2 DEF ToolTakes, ToolAborts, ToolLaunches, toolFrame, Tell
  <2>3. CASE ToolDetaches(c)
    BY <2>0, <2>3 DEF ToolDetaches, toolFrame
  <2>4. CASE Register(c)
    BY <2>0, <2>4 DEF Register, Tell, FateOf, Modes
  <2>5. CASE ToolChecks(c)
    <3>1. CASE c \in marked /\ entry[c] # "none"
      BY <2>0, <2>5, <3>1 DEF ToolChecks, CancelEntry, Take, FateOf, Reasons
    <3>2. CASE ~(c \in marked /\ entry[c] # "none")
      BY <2>0, <2>5, <3>2 DEF ToolChecks
    <3> QED
      BY <3>1, <3>2
  <2>6. CASE ToolSettles(c)
    BY <2>0, <2>6 DEF ToolSettles, FateOf, Modes
  <2>7. CASE ToolCompletes(c)
    <3>1. CASE entry[c] # "none" /\ ~Closed /\ ~signal
      BY <2>0, <2>7, <3>1 DEF ToolCompletes, Complete, Take, toolFrame
    <3>2. CASE entry[c] = "none" \/ Closed
      BY <2>0, <2>7, <3>2 DEF ToolCompletes, Complete, Take, toolFrame, LInv, IInv, Counted, Closed
    <3>3. CASE signal
      BY <2>0, <2>7, <3>3 DEF ToolCompletes, Complete, Take, toolFrame
    <3> QED
      BY <3>1, <3>2, <3>3
  <2>8. CASE ToolDiscards(c)
    BY <2>0, <2>8 DEF ToolDiscards
  <2> QED
    BY <2>1, <2>2, <2>3, <2>4, <2>5, <2>6, <2>7, <2>8 DEF ToolStep
<1> QED
  BY <1>1, <1>3, <1>4, <1>5 DEF LInv, Lasting

LEMMA SendLasting ==
  ASSUME LInv, NEW c \in Calls,
         SendStep(c) \/ JobStep(c) \/ CommitStart(c) \/ ChildStarts(c) \/ ChildRests(c)
  PROVE  Lasting'
<1>0. /\ entry \in [Calls -> Modes] /\ hand \in [Calls -> Hands] /\ puts \in [Calls -> Nat]
      /\ job \in [Calls -> {"none", "running", "done", "reported"}]
  BY DEF LInv, IInv, Types, Lasting
<1>1. UNCHANGED <<exec, signal, abandoned, close, held, tool, dropped>>
  BY DEF SendStep, JobStep, CommitStart, ChildStarts, ChildRests, Tells, DeliverTells, DeliverPuts,
         DeliverReleases, JobConcludes, JobReports, jobFrame, toolVars, runVars, endVars
<1>2. job' \in [Calls -> {"none", "running", "done", "reported"}]
  BY <1>0 DEF SendStep, JobStep, CommitStart, ChildStarts, ChildRests, Tells, DeliverTells,
         DeliverPuts, DeliverReleases, JobConcludes, JobReports, jobVars
<1>3. ASSUME NEW d \in Calls
      PROVE  (PlaceOf(d) /\ LeftOf(d) /\ OwedOf(d))' /\ (entry[d] = "none" => entry'[d] = "none")
  <2> USE <1>0, <1>1 DEF PlaceOf, LeftOf, OwedOf, NoEnd, regVars, sendVars, jobVars, endVars
  <2>0. PlaceOf(d) /\ LeftOf(d) /\ OwedOf(d) /\ FateOf(d) /\ FateOf(c)
    BY DEF LInv, Lasting, IInv, Fates
  <2>1. CASE Tells(c)
    BY <2>0, <2>1 DEF Tells, Tell
  <2>2. CASE DeliverTells(c)
    BY <2>0, <2>2 DEF DeliverTells, jobFrame, Tell
  <2>3. CASE DeliverPuts(c)
    <3>1. /\ hand[c] = "put" /\ hand' = [hand EXCEPT ![c] = "release"]
          /\ \/ cards' = cards \cup {c} /\ UNCHANGED puts
             \/ puts' = [puts EXCEPT ![c] = @ + 1] /\ UNCHANGED cards
          /\ UNCHANGED <<entry, owed, job, told, settled, discarded>>
      BY <2>3 DEF DeliverPuts, jobFrame
    <3> QED
      BY <2>0, <3>1
  <2>4. CASE DeliverReleases(c)
    BY <2>0, <2>4 DEF DeliverReleases, jobFrame
  <2>5. CASE JobConcludes(c)
    BY <2>0, <2>5 DEF JobConcludes, jobFrame
  <2>6. CASE JobReports(c)
    <3>1. CASE entry[c] # "none" /\ ~Closed /\ ~signal
      BY <2>0, <2>6, <3>1 DEF JobReports, Complete, Take
    <3>2. CASE entry[c] = "none" \/ Closed
      BY <2>0, <2>6, <3>2 DEF JobReports, Complete, Take, LInv, IInv, Counted, Closed
    <3>3. CASE signal
      BY <2>0, <2>6, <3>3 DEF JobReports, Complete, Take
    <3> QED
      BY <3>1, <3>2, <3>3
  <2>7. CASE CommitStart(c)
    BY <2>0, <2>7 DEF CommitStart
  <2>8. CASE ChildStarts(c) \/ ChildRests(c)
    BY <2>0, <2>8 DEF ChildStarts, ChildRests, jobFrame
  <2> QED
    BY <2>1, <2>2, <2>3, <2>4, <2>5, <2>6, <2>7, <2>8 DEF SendStep, JobStep
<1> QED
  BY <1>1, <1>2, <1>3 DEF LInv, Lasting, Executions


LEMMA UserLasting ==
  ASSUME LInv, NEW c \in Calls, UserCancels(c) \/ UserDetaches(c) \/ UserEdits(c)
  PROVE  Lasting'
<1>0. /\ entry \in [Calls -> Modes] /\ hand \in [Calls -> Hands] /\ puts \in [Calls -> Nat]
      /\ job \in [Calls -> {"none", "running", "done", "reported"}]
  BY DEF LInv, IInv, Types, Lasting
<1>1. UNCHANGED <<exec, signal, abandoned, close, held, tool, job>>
  BY DEF UserCancels, UserDetaches, UserEdits, toolVars, jobVars, runVars
<1>2. ASSUME NEW d \in Calls
      PROVE  (PlaceOf(d) /\ LeftOf(d) /\ OwedOf(d))' /\ (entry[d] = "none" => entry'[d] = "none")
  <2> USE <1>0, <1>1 DEF PlaceOf, LeftOf, OwedOf, NoEnd, regVars, sendVars, jobVars, endVars
  <2>0. PlaceOf(d) /\ LeftOf(d) /\ OwedOf(d) /\ FateOf(d) /\ FateOf(c)
    BY DEF LInv, Lasting, IInv, Fates
  <2>1. CASE UserCancels(c)
    <3>1. CASE entry[c] = "none"
      BY <2>0, <2>1, <3>1 DEF UserCancels
    <3>2. CASE entry[c] # "none"
      BY <2>0, <2>1, <3>2 DEF UserCancels, CancelEntry, Take, FateOf, Reasons
    <3> QED
      BY <3>1, <3>2
  <2>2. CASE UserDetaches(c)
    BY <2>0, <2>2 DEF UserDetaches
  <2>3. CASE UserEdits(c)
    BY <2>0, <2>3 DEF UserEdits, Drop, Owe, Entries, Reasons, FateOf
  <2> QED
    BY <2>1, <2>2, <2>3
<1> QED
  BY <1>1, <1>2 DEF LInv, Lasting, Executions

(* What Drop takes out is ended and owed a call.                            *)
LEMMA DropLasts ==
  ASSUME LInv, NEW S, NEW reason \in Reasons, Drop(S, reason), UNCHANGED <<hand, tool, job, told, held>>,
         NEW d \in Calls
  PROVE  PlaceOf(d)' /\ OwedOf(d)' /\ (entry[d] = "none" => entry'[d] = "none")
         /\ (d \in S => entry'[d] = "none") /\ (d \notin S => entry'[d] = entry[d])
<1>1. PlaceOf(d) /\ OwedOf(d)
  BY DEF LInv, Lasting
<1> QED
  BY <1>1 DEF PlaceOf, OwedOf, NoEnd, Drop, Owe

LEMMA RunLasting ==
  ASSUME LInv,
         RunStarts \/ Stop \/ RunSettles \/ RunCrashes \/ SuspendedDrops \/ ExecStep
  PROVE  Lasting'
<1>0. UNCHANGED <<hand, tool, job, told, held, close>>
  BY DEF RunStarts, Stop, RunSettles, RunCrashes, SuspendedDrops, ExecStep, ExecDrops,
         ExecReleases, SuspendedCancels, CancelSpreads, runFrame, workFrame, sendVars
<1>1. /\ \A c \in Calls : PlaceOf(c) /\ LeftOf(c) /\ OwedOf(c)
      /\ Executions /\ exec \in {"off", "driving", "drop", "dropped"}
  BY DEF LInv, Lasting
<1>2. ASSUME exec' \in {"off", "driving", "drop", "dropped"}, Executions',
             \A c \in Calls : (PlaceOf(c) /\ LeftOf(c) /\ OwedOf(c))'
      PROVE  Lasting'
  BY <1>0, <1>2 DEF LInv, Lasting
<1>3. ASSUME UNCHANGED <<regVars, endVars, owed>>, NEW c \in Calls
      PROVE  PlaceOf(c)' /\ OwedOf(c)' /\ entry' = entry
  BY <1>0, <1>1, <1>3 DEF PlaceOf, OwedOf, NoEnd, regVars, endVars
<1>4. CASE RunStarts
  <2>1. exec' = "driving" /\ exec = "off" /\ UNCHANGED <<signal, abandoned, regVars, endVars, owed>>
    BY <1>4 DEF RunStarts, runFrame
  <2> QED
    BY <1>0, <1>1, <1>2, <1>3, <2>1 DEF Executions, LeftOf
<1>5. CASE Stop
  <2>1. exec # "off" /\ signal' /\ UNCHANGED <<exec, abandoned, regVars, endVars, owed>>
    BY <1>5 DEF Stop, runFrame
  <2> QED
    BY <1>0, <1>1, <1>2, <1>3, <2>1 DEF Executions, LeftOf
<1>6. CASE RunSettles
  <2>1. /\ exec = "driving" /\ ToolsReturned /\ exec' = (IF signal THEN "drop" ELSE "off") /\ signal' = signal
        /\ UNCHANGED <<regVars, endVars, owed>> \/ Drop(Uncommitted, "withdraw")
        /\ UNCHANGED abandoned
    BY <1>6 DEF RunSettles, runFrame
  <2>2. ASSUME NEW c \in Calls
        PROVE  PlaceOf(c)' /\ OwedOf(c)' /\ (entry[c] = "none" => entry'[c] = "none")
    BY <1>0, <1>3, <2>1, DropLasts DEF Reasons
  <2> QED
    BY <1>0, <1>1, <1>2, <2>1, <2>2 DEF Executions, LeftOf, ToolsReturned
<1>7. CASE SuspendedDrops
  <2>1. Drop(Entries, "parent") /\ UNCHANGED <<exec, signal, abandoned>>
    BY <1>7 DEF SuspendedDrops, DropTask, runFrame
  <2>2. ASSUME NEW c \in Calls
        PROVE  PlaceOf(c)' /\ OwedOf(c)' /\ (entry[c] = "none" => entry'[c] = "none")
    BY <1>0, <2>1, DropLasts DEF Reasons
  <2> QED
    BY <1>0, <1>1, <1>2, <2>1, <2>2 DEF Executions, LeftOf
<1>8. CASE ExecDrops
  <2>1. Drop(Entries, "parent") /\ exec = "drop" /\ exec' = "dropped" /\ UNCHANGED <<signal, abandoned>>
    BY <1>8 DEF ExecDrops, DropTask, runFrame
  <2>2. ASSUME NEW c \in Calls
        PROVE  PlaceOf(c)' /\ OwedOf(c)' /\ entry'[c] = "none"
    BY <1>0, <2>1, DropLasts DEF Reasons, Entries
  <2> QED
    BY <1>0, <1>1, <1>2, <2>1, <2>2 DEF Executions, LeftOf
<1>9. CASE ExecReleases
  <2>1. exec = "dropped" /\ exec' = "off" /\ signal' = FALSE
        /\ UNCHANGED <<abandoned, regVars, endVars, owed>>
    BY <1>9 DEF ExecReleases, runFrame
  <2> QED
    BY <1>0, <1>1, <1>2, <1>3, <2>1 DEF Executions, LeftOf
<1>10. CASE SuspendedCancels \/ CancelSpreads
  <2>1. UNCHANGED <<exec, signal, abandoned, regVars, endVars, owed>>
    BY <1>10 DEF SuspendedCancels, CancelSpreads, runFrame
  <2> QED
    BY <1>0, <1>1, <1>2, <1>3, <2>1 DEF Executions, LeftOf
<1>11. CASE RunCrashes
  <2>1. /\ exec = "driving" /\ ToolsReturned /\ exec' = "off" /\ ~signal'
        /\ Drop(Uncommitted, "withdraw")
        /\ abandoned' = abandoned \cup {c \in Entries : job[c] = "reported"}
    BY <1>11 DEF RunCrashes
  <2>2. ASSUME NEW c \in Calls
        PROVE  PlaceOf(c)' /\ OwedOf(c)' /\ (entry[c] = "none" => entry'[c] = "none")
    BY <1>0, <2>1, DropLasts DEF Reasons
  <2>3. ASSUME NEW c \in Calls
        PROVE  LeftOf(c)'
    BY <1>0, <2>1, <2>2 DEF LeftOf, Entries
  <2> QED
    BY <1>0, <1>1, <1>2, <2>1, <2>2, <2>3 DEF Executions, ToolsReturned
<1> QED
  BY <1>4, <1>5, <1>6, <1>7, <1>8, <1>9, <1>10, <1>11 DEF ExecStep

LEMMA CloseLasting ==
  ASSUME LInv, CloseBegins \/ CloseStep
  PROVE  Lasting'
<1>0. UNCHANGED <<hand, tool, job, told, exec, signal, abandoned, puts, cards, settled, discarded>>
  BY DEF CloseBegins, CloseStep, CloseWaited, CloseReturns, closeFrame, sendVars, toolVars, jobVars,
         runVars
<1>1. ASSUME NEW d \in Calls
      PROVE  (PlaceOf(d) /\ LeftOf(d) /\ OwedOf(d))' /\ (entry[d] = "none" => entry'[d] = "none")
  <2>0. PlaceOf(d) /\ LeftOf(d) /\ OwedOf(d) /\ (close # "waiting" => held = {})
    BY DEF LInv, Lasting
  <2>1. CASE CloseBegins
    BY <1>0, <2>0, <2>1 DEF CloseBegins, Entries, PlaceOf, LeftOf, OwedOf, NoEnd
  <2>2. CASE CloseWaited
    BY <1>0, <2>0, <2>2 DEF CloseWaited, Owe, Reasons, PlaceOf, LeftOf, OwedOf, NoEnd
  <2>3. CASE CloseReturns
    BY <1>0, <2>0, <2>3 DEF CloseReturns, PlaceOf, LeftOf, OwedOf, NoEnd
  <2> QED
    BY <2>1, <2>2, <2>3 DEF CloseStep
<1>2. close' # "waiting" => held' = {}
  BY DEF LInv, Lasting, CloseBegins, CloseStep, CloseWaited, CloseReturns
<1> QED
  BY <1>0, <1>1, <1>2 DEF LInv, Lasting, Executions

LEMMA NextLasting == LInv /\ [Next]_vars => Lasting'
<1> SUFFICES ASSUME LInv, [Next]_vars
             PROVE  Lasting'
  OBVIOUS
<1>1. CASE UNCHANGED vars
  BY <1>1 DEF LInv, Lasting, Executions, PlaceOf, LeftOf, OwedOf, NoEnd, vars, regVars, sendVars,
     toolVars, jobVars, runVars, endVars
<1>2. CASE Next
  BY <1>2, ToolLasting, SendLasting, UserLasting, RunLasting, CloseLasting DEF Next, Outside
<1> QED
  BY <1>1, <1>2

LEMMA LastingAlways == Spec => []LInv
<1>1. Init => LInv
  BY InitFates, InitLasting DEF LInv
<1>2. LInv /\ [Next]_vars => LInv'
  BY NextFates, NextLasting DEF LInv
<1> QED
  BY <1>1, <1>2, PTL DEF Spec

-----------------------------------------------------------------------------
(* A Team whose tool got past register was let go, is held by close(), is   *)
(* owed a stop that lets it go, or waits in the registry for the receipt of *)
(* the Run that is driven: the execution that ends that Run withdraws it.   *)
LetGo(c) == \/ c \in started \cup held
            \/ \E reason \in Reasons \ {"user"} : <<c, reason>> \in owed
AwaitsReceipt(c) == c \in staged /\ entry[c] # "none" /\ owner[c] = run /\ exec = "driving"

TeamOf(c) == Kind[c] = "team" =>
  /\ tool[c] \in {"off", "running", "check", "returned"}
  /\ job[c] \in {"done", "reported"} => c \in started
  /\ tool[c] \in {"check", "returned"} => LetGo(c) \/ AwaitsReceipt(c)

TInv == owner \in [Calls -> 0..MaxRun] /\ run \in 0..MaxRun /\ \A c \in Calls : TeamOf(c)

LEMMA InitTeams == Init => TInv
BY RegistryAssumption DEF Init, TInv, TeamOf

LEMMA TeamsGoOn ==
  ASSUME LInv, TInv, Next
  PROVE  TInv'
<1>0. /\ tool \in [Calls -> {"off", "running", "check", "launching", "waiting", "awaiting",
                             "settling", "completing", "returned"}]
      /\ entry \in [Calls -> Modes] /\ job \in [Calls -> {"none", "running", "done", "reported"}]
      /\ owner \in [Calls -> 0..MaxRun] /\ run \in 0..MaxRun /\ Executions
      /\ (close # "waiting" => held = {})
  BY DEF LInv, IInv, Types, Lasting, TInv
<1>1. owner' \in [Calls -> 0..MaxRun] /\ run' \in 0..MaxRun
  <2>1. ASSUME NEW c \in Calls, ToolStep(c) \/ ToolStarts(c) \/ ToolDiscards(c)
        PROVE  (owner' = owner \/ owner' = [owner EXCEPT ![c] = run]) /\ run' = run
    BY <2>1 DEF ToolStep, ToolStarts, ToolDiscards, Register, ToolChecks, ToolTakes, ToolAborts, ToolDetaches,
       ToolSettles, ToolCompletes, ToolLaunches, CancelEntry, Complete, toolFrame, runVars, regVars
  <2>2. ASSUME NEW c \in Calls, JobStep(c) \/ SendStep(c) \/ CommitStart(c) \/ ChildStarts(c) \/ ChildRests(c)
                                \/ UserCancels(c) \/ UserDetaches(c) \/ UserEdits(c)
        PROVE  owner' = owner /\ run' = run
    BY <2>2 DEF JobStep, JobConcludes, JobReports, SendStep, Tells, DeliverTells, DeliverPuts, DeliverReleases,
       CommitStart, ChildStarts, ChildRests, UserCancels, UserDetaches, UserEdits, CancelEntry, Complete, Drop,
       jobFrame, runVars, regVars
  <2>3. CASE ExecStep \/ CloseStep \/ Stop \/ RunSettles \/ RunCrashes \/ SuspendedDrops \/ CloseBegins
    BY <1>0, <2>3 DEF ExecStep, ExecDrops, ExecReleases, SuspendedCancels, CancelSpreads, CloseStep, CloseWaited,
       CloseReturns, Stop, RunSettles, RunCrashes, SuspendedDrops, CloseBegins, DropTask, Drop, closeFrame, runVars,
       regVars
  <2>4. CASE RunStarts
    BY <1>0, <2>4, RegistryAssumption DEF RunStarts, regVars
  <2> QED
    BY <1>0, <2>1, <2>2, <2>3, <2>4 DEF Next, Outside
<1> SUFFICES ASSUME NEW d \in Calls, Kind[d] = "team"
             PROVE  TeamOf(d)'
  BY <1>1 DEF TInv, TeamOf
<1>2. /\ tool[d] \in {"off", "running", "check", "returned"}
      /\ job[d] \in {"done", "reported"} => d \in started
      /\ tool[d] \in {"check", "returned"} => LetGo(d) \/ AwaitsReceipt(d)
      /\ tool[d] \in {"running", "check"} => exec = "driving"
  BY <1>0 DEF TInv, TeamOf, Executions
(* Nothing happens to d, or it is let go, or it stays let go.               *)
<1>3. ASSUME tool'[d] = tool[d], job'[d] = job[d] \/ (job[d] = "done" /\ job'[d] = "reported"),
             started \subseteq started',
             LetGo(d) => LetGo(d)', AwaitsReceipt(d) => LetGo(d)' \/ AwaitsReceipt(d)'
      PROVE  TeamOf(d)'
  BY <1>2, <1>3 DEF TeamOf
<1>4. ASSUME NEW c \in Calls, ToolStep(c) \/ ToolStarts(c) \/ ToolDiscards(c)
      PROVE  TeamOf(d)'
  <2>0. UNCHANGED <<run, exec, held>> /\ owed \subseteq owed' /\ started \subseteq started'
    BY <1>4 DEF ToolStep, ToolStarts, ToolDiscards, Register, ToolChecks, ToolTakes, ToolAborts, ToolDetaches,
       ToolSettles, ToolCompletes, ToolLaunches, CancelEntry, Complete, toolFrame, runVars, regVars, jobVars
  <2>1. LetGo(d) => LetGo(d)'
    BY <2>0 DEF LetGo
  <2>2. CASE c # d
    <3>1. /\ tool'[d] = tool[d] /\ job'[d] = job[d] /\ entry'[d] = entry[d] /\ owner'[d] = owner[d]
          /\ (d \in staged => d \in staged')
      BY <1>0, <1>4, <2>2 DEF ToolStep, ToolStarts, ToolDiscards, Register, ToolChecks, ToolTakes, ToolAborts,
         ToolDetaches, ToolSettles, ToolCompletes, ToolLaunches, ToolReturns, ToolGoesOn, CancelEntry, Complete,
         Take, toolFrame, regVars, toolVars, jobVars
    <3> QED
      BY <1>3, <2>0, <2>1, <3>1 DEF AwaitsReceipt
  <2>3. CASE c = d /\ ToolStarts(d)
    BY <1>0, <1>2, <2>0, <2>3 DEF TeamOf, ToolStarts, jobVars
  <2>4. CASE c = d /\ Register(d)
    <3>1. tool[d] = "running" /\ exec = "driving" /\ tool'[d] = "check" /\ job'[d] = "running" /\ owner'[d] = run
      BY <1>0, <1>2, <2>4 DEF Register
    <3>2. CASE Closed
      BY <2>4, <3>1, <3>2 DEF Register, TeamOf, LetGo
    <3>3. CASE ~Closed
      <4>1. d \in staged' /\ entry'[d] = "background"
        BY <1>0, <2>4, <3>3 DEF Register
      <4> QED
        BY <2>0, <3>1, <4>1 DEF TeamOf, AwaitsReceipt
    <3> QED
      BY <3>2, <3>3
  <2>5. CASE c = d /\ ToolChecks(d)
    <3>1. tool[d] = "check" /\ tool'[d] = "returned" /\ job' = job
      BY <1>0, <2>5 DEF ToolChecks, ToolGoesOn, ToolReturns, jobVars
    <3>2. UNCHANGED <<entry, staged, owner>>
      BY <2>5 DEF ToolChecks, CancelEntry, regVars
    <3> QED
      BY <1>2, <2>0, <2>1, <3>1, <3>2 DEF TeamOf, AwaitsReceipt
  <2>6. CASE c = d /\ ~(ToolStarts(d) \/ Register(d) \/ ToolChecks(d))
    BY <1>2, <1>4, <2>6 DEF ToolStep, ToolDiscards, ToolTakes, ToolAborts, ToolDetaches, ToolSettles, ToolCompletes,
       ToolLaunches
  <2> QED
    BY <2>2, <2>3, <2>4, <2>5, <2>6, <1>4
<1>5. ASSUME NEW c \in Calls, JobStep(c)
      PROVE  TeamOf(d)'
  <2>0. UNCHANGED <<tool, run, exec, held, owed, started, owner, staged>>
    BY <1>5 DEF JobStep, JobConcludes, JobReports, Complete, jobFrame, regVars, toolVars, runVars
  <2>1. LetGo(d)' <=> LetGo(d)
    BY <2>0 DEF LetGo
  <2>2. c # d => entry'[d] = entry[d] /\ job'[d] = job[d]
    BY <1>0, <1>5 DEF JobStep, JobConcludes, JobReports, Complete, Take, jobFrame, regVars
  <2>3. CASE c = d /\ JobConcludes(d)
    BY <1>0, <1>2, <2>0, <2>1, <2>3 DEF JobConcludes, jobFrame, regVars, TeamOf, AwaitsReceipt
  <2>4. CASE c = d /\ JobReports(d)
    BY <1>2, <2>0, <2>1, <2>4 DEF JobReports, TeamOf, LetGo
  <2>5. CASE c # d
    BY <1>3, <2>0, <2>1, <2>2, <2>5 DEF AwaitsReceipt
  <2> QED
    BY <1>5, <2>3, <2>4, <2>5 DEF JobStep
<1>6. ASSUME NEW c \in Calls, SendStep(c) \/ CommitStart(c) \/ ChildStarts(c) \/ ChildRests(c)
      PROVE  TeamOf(d)'
  <2>0. UNCHANGED <<tool, run, exec, held, job, owner, entry>>
    BY <1>6 DEF SendStep, Tells, DeliverTells, DeliverPuts, DeliverReleases, CommitStart, ChildStarts, ChildRests,
       jobFrame, regVars, toolVars, runVars, jobVars
  <2>1. started \subseteq started' /\ (LetGo(d) => LetGo(d)')
    <3>1. CASE Tells(c)
      BY <3>1, <2>0 DEF Tells, LetGo
    <3>2. CASE ~Tells(c)
      BY <1>6, <2>0, <3>2 DEF SendStep, DeliverTells, DeliverPuts, DeliverReleases, CommitStart, ChildStarts,
         ChildRests, jobFrame, LetGo, jobVars
    <3> QED
      BY <3>1, <3>2
  <2>2. d \in staged => d \in staged' \/ d \in started'
    BY <1>6 DEF SendStep, Tells, DeliverTells, DeliverPuts, DeliverReleases, CommitStart, ChildStarts, ChildRests,
       jobFrame, regVars
  <2> QED
    BY <1>3, <2>0, <2>1, <2>2 DEF LetGo, AwaitsReceipt
<1>7. ASSUME NEW c \in Calls, UserCancels(c) \/ UserDetaches(c) \/ UserEdits(c)
      PROVE  TeamOf(d)'
  <2>0. UNCHANGED <<tool, run, exec, held, job, owner, staged, started>> /\ owed \subseteq owed'
    BY <1>7 DEF UserCancels, UserDetaches, UserEdits, CancelEntry, Drop, regVars, toolVars, runVars, jobVars
  <2>1. LetGo(d) => LetGo(d)'
    BY <2>0 DEF LetGo
  <2>2. AwaitsReceipt(d) => entry'[d] # "none"
    <3>1. CASE UserCancels(c)
      BY <1>0, <3>1 DEF UserCancels, CancelEntry, Take, regVars, AwaitsReceipt
    <3>2. CASE UserDetaches(c)
      BY <1>0, <3>2 DEF UserDetaches, AwaitsReceipt
    <3>3. CASE UserEdits(c)
      BY <3>3 DEF UserEdits, AwaitsReceipt
    <3> QED
      BY <1>7, <3>1, <3>2, <3>3
  <2> QED
    BY <1>3, <2>0, <2>1, <2>2 DEF AwaitsReceipt
<1>8. CASE RunStarts \/ Stop \/ SuspendedDrops \/ RunSettles \/ RunCrashes \/ ExecStep
  <2>0. UNCHANGED <<tool, held, job, owner, staged, started>> /\ owed \subseteq owed'
    BY <1>8 DEF RunStarts, Stop, SuspendedDrops, RunSettles, RunCrashes, ExecStep, ExecDrops, ExecReleases,
       SuspendedCancels, CancelSpreads, DropTask, Drop, runFrame, workFrame, regVars
  <2>1. LetGo(d) => LetGo(d)'
    BY <2>0 DEF LetGo
  <2>2. AwaitsReceipt(d) => LetGo(d)' \/ AwaitsReceipt(d)'
    <3>1. CASE RunSettles \/ RunCrashes
      <4>1. AwaitsReceipt(d) => d \in Uncommitted
        BY DEF AwaitsReceipt, Uncommitted, Entries
      <4>2. Uncommitted = {} \/ Drop(Uncommitted, "withdraw")
        BY <3>1 DEF RunSettles, RunCrashes
      <4>3. d \in Uncommitted => <<d, "withdraw">> \in owed'
        BY <4>2 DEF Drop, Owe
      <4> QED
        BY <4>1, <4>3 DEF LetGo, Reasons
    <3>2. CASE ~(RunSettles \/ RunCrashes)
      BY <1>0, <1>8, <2>0, <3>2 DEF RunStarts, Stop, SuspendedDrops, ExecStep, ExecDrops, ExecReleases,
         SuspendedCancels, CancelSpreads, runFrame, workFrame, regVars, AwaitsReceipt
    <3> QED
      BY <3>1, <3>2
  <2> QED
    BY <1>3, <2>0, <2>1, <2>2
<1>9. CASE CloseBegins \/ CloseStep
  <2>0. UNCHANGED <<tool, run, exec, job, owner, staged, started>>
    BY <1>9 DEF CloseBegins, CloseStep, CloseWaited, CloseReturns, closeFrame, toolVars, runVars, jobVars
  <2>1. LetGo(d) => LetGo(d)'
    <3>1. CASE CloseBegins
      BY <1>0, <2>0, <3>1 DEF CloseBegins, LetGo
    <3>2. CASE CloseWaited
      BY <2>0, <3>2 DEF CloseWaited, Owe, LetGo, Reasons
    <3>3. CASE CloseReturns
      BY <2>0, <3>3 DEF CloseReturns, LetGo
    <3> QED
      BY <1>9, <3>1, <3>2, <3>3 DEF CloseStep
  <2>2. AwaitsReceipt(d) => LetGo(d)' \/ AwaitsReceipt(d)'
    BY <1>9, <2>0 DEF CloseBegins, CloseStep, CloseWaited, CloseReturns, Entries, AwaitsReceipt, LetGo
  <2> QED
    BY <1>3, <2>0, <2>1, <2>2
<1> QED
  BY <1>4, <1>5, <1>6, <1>7, <1>8, <1>9 DEF Next, Outside

LEMMA TeamsAlways == Spec => []TInv
<1>1. LInv /\ TInv /\ [Next]_vars => TInv'
  <2>1. CASE UNCHANGED vars
    BY <2>1 DEF TInv, TeamOf, LetGo, AwaitsReceipt, vars, regVars, toolVars, runVars, jobVars
  <2> QED
    BY <2>1, TeamsGoOn
<1> QED
  BY <1>1, InitTeams, LastingAlways, PTL DEF Spec

(* No conclusion is lost and no entry is left behind, for any set of calls, *)
(* but what complete() left to a drop that a crashed execution skipped; and *)
(* no Team waits for the receipt of a Run that is over.                     *)
THEOREM NothingLostAlways == Spec => []NothingLost
<1>0. LInv /\ TInv => StagedTeamIsLetGo
  BY DEF TInv, TeamOf, LetGo, AwaitsReceipt, StagedTeamIsLetGo
<1>1. LInv /\ TInv => NothingLost
  <2> SUFFICES ASSUME LInv, NEW c \in Calls \ abandoned, Quiet(c)
               PROVE  entry[c] = "none" /\ EndsOf(c) # {} /\ (c \in dropped => c \in told)
    BY <1>0 DEF NothingLost
  <2>1. PlaceOf(c) /\ LeftOf(c) /\ OwedOf(c) /\ Executions /\ (close # "waiting" => held = {})
    BY DEF LInv, Lasting
  <2>2. entry[c] = "none"
    BY <2>1 DEF Quiet, LeftOf, Executions
  <2>3. ~NoEnd(c)
    BY <2>1, <2>2 DEF Quiet, PlaceOf
  <2>4. EndsOf(c) # {}
    BY <2>3 DEF NoEnd, EndsOf, Delivered, LInv, IInv, Types
  <2>5. c \in dropped => c \in told
    BY <2>1 DEF Quiet, OwedOf
  <2> QED
    BY <2>2, <2>4, <2>5
<1> QED
  BY <1>1, LastingAlways, TeamsAlways, PTL

(* A conclusion that arrives while the Task is being stopped is left to the *)
(* drop: only a call its user stopped is taken for delivery then.           *)
THEOREM NoResultWhileStoppingAlways == Spec => NoResultWhileStopping
<1> DEFINE Stopping(c) == /\ hand[c] = "none" /\ hand'[c] # "none"
                          /\ signal \/ exec \in {"drop", "dropped"}
<1>1. LInv /\ [Next]_vars => [\A c \in Calls : Stopping(c) => c \in hinted']_vars
  <2> SUFFICES ASSUME LInv, Next, NEW d \in Calls, Stopping(d)
               PROVE  d \in hinted'
    OBVIOUS
  <2>0. signal /\ hand \in [Calls -> Hands] /\ hand' # hand
    BY DEF LInv, Lasting, Executions, IInv, Types
  <2>1. ASSUME NEW c \in Calls, ToolStep(c)
        PROVE  d \in hinted'
    BY <2>0, <2>1 DEF ToolStep, Register, ToolChecks, ToolTakes, ToolAborts, ToolDetaches,
       ToolSettles, ToolCompletes, ToolLaunches, toolFrame, sendVars, CancelEntry, Take, Complete
  <2>2. ASSUME NEW c \in Calls, JobStep(c)
        PROVE  d \in hinted'
    BY <2>0, <2>2 DEF JobStep, JobConcludes, JobReports, Complete, sendVars
  <2>3. ASSUME NEW c \in Calls, SendStep(c)
        PROVE  d \in hinted'
    BY <2>0, <2>3 DEF SendStep, Tells, DeliverTells, DeliverPuts, DeliverReleases, sendVars
  <2>4. CASE ExecStep
    BY <2>0, <2>4 DEF ExecStep, ExecDrops, ExecReleases, SuspendedCancels, CancelSpreads, runFrame, workFrame, sendVars
  <2>5. CASE CloseStep
    BY <2>0, <2>5 DEF CloseStep, CloseWaited, CloseReturns, closeFrame, sendVars
  <2>6. CASE Outside
    BY <2>0, <2>6 DEF Outside, ToolStarts, ToolDiscards, CommitStart, UserCancels, CancelEntry, Take,
       UserDetaches, UserEdits, ChildStarts, ChildRests, RunStarts, Stop, RunSettles, RunCrashes,
       SuspendedDrops, CloseBegins, toolFrame, runFrame, workFrame, closeFrame, sendVars
  <2> QED
    BY <2>1, <2>2, <2>3, <2>4, <2>5, <2>6 DEF Next
<1> QED
  BY <1>1, LastingAlways, PTL DEF Spec, NoResultWhileStopping

-----------------------------------------------------------------------------
(* A stop that was accepted before the call was registered stays marked     *)
(* until register looked for it; a call that register looks at is in the    *)
(* registry, or was dropped or stopped already.                             *)
StopOf(c) ==
  /\ c \in accepted => /\ tool[c] # "off"
                       /\ tool[c] \in {"running", "check"} => c \in marked
                       /\ tool[c] \notin {"running", "check"} => c \in asked \cup dropped \cup told
  /\ tool[c] = "check" => entry[c] # "none" \/ c \in asked \cup dropped
  /\ c \in handedOver => tool[c] = "returned"

SInv == Types /\ accepted \subseteq Calls /\ \A c \in Calls : StopOf(c)

LEMMA StopSteps == IInv /\ SInv /\ [Next]_vars => accepted' \subseteq Calls /\ (\A c \in Calls : StopOf(c))'
<1> SUFFICES ASSUME IInv, SInv, [Next]_vars
             PROVE  accepted' \subseteq Calls /\ \A d \in Calls : StopOf(d)'
  OBVIOUS
<1>a. accepted' \subseteq Calls
  BY DEF SInv, Next, Outside, vars, ToolStep, JobStep, SendStep, ExecStep, CloseStep, Register,
     ToolChecks, ToolTakes, ToolAborts, ToolDetaches, ToolSettles, ToolCompletes, ToolLaunches,
     JobConcludes, JobReports, DeliverTells, DeliverPuts, DeliverReleases, Tells, ExecDrops,
     ExecReleases, SuspendedCancels, CancelSpreads, CloseWaited, CloseReturns, ToolStarts,
     ToolDiscards, CommitStart, UserCancels, UserDetaches, UserEdits, ChildStarts, ChildRests,
     RunStarts, Stop, RunSettles, RunCrashes, SuspendedDrops, CloseBegins, toolFrame, jobFrame,
     runFrame, workFrame, closeFrame
<1> SUFFICES ASSUME NEW d \in Calls
             PROVE  StopOf(d)'
  BY <1>a
<1>0. /\ tool \in [Calls -> {"off", "running", "check", "launching", "waiting", "awaiting",
                             "settling", "completing", "returned"}]
      /\ entry \in [Calls -> Modes] /\ StopOf(d)
  BY DEF IInv, Types, SInv
<1> USE <1>0 DEF StopOf, regVars, sendVars, toolVars, jobVars, endVars
<1>1. CASE UNCHANGED vars
  BY <1>1 DEF vars
<1>2. ASSUME NEW c \in Calls, ToolStep(c) \/ ToolStarts(c) \/ ToolDiscards(c)
      PROVE  StopOf(d)'
  <2> USE DEF ToolReturns, ToolGoesOn
  <2>1. CASE ToolStarts(c) \/ ToolTakes(c) \/ ToolDetaches(c) \/ ToolLaunches(c)
    BY <2>1 DEF ToolStarts, ToolTakes, ToolDetaches, ToolLaunches, toolFrame
  <2>2. CASE ToolAborts(c) \/ Register(c)
    BY <2>2 DEF ToolAborts, Register, Tell, toolFrame
  <2>3. CASE ToolChecks(c)
    <3>1. CASE c \in marked /\ entry[c] # "none"
      <4>1. asked' = asked \cup {c} /\ dropped \subseteq dropped' /\ UNCHANGED <<accepted, told, handedOver>>
        BY <2>3, <3>1 DEF ToolChecks, CancelEntry
      <4>2. entry' = entry \/ entry' = [entry EXCEPT ![c] = "none"]
        BY <2>3, <3>1 DEF ToolChecks, CancelEntry, Take
      <4>3. tool[c] = "check" /\ \E w \in {"waiting", "launching", "returned"} : tool' = [tool EXCEPT ![c] = w]
        BY <2>3 DEF ToolChecks
      <4>4. marked \ {c} \subseteq marked'
        BY <2>3 DEF ToolChecks
      <4> QED
        BY <4>1, <4>2, <4>3, <4>4
    <3>2. CASE ~(c \in marked /\ entry[c] # "none")
      BY <2>3, <3>2 DEF ToolChecks
    <3> QED
      BY <3>1, <3>2
  <2>4. CASE ToolSettles(c)
    BY <2>4 DEF ToolSettles
  <2>5. CASE ToolCompletes(c)
    BY <2>5 DEF ToolCompletes, Complete, Take, toolFrame
  <2>6. CASE ToolDiscards(c)
    BY <2>6 DEF ToolDiscards
  <2> QED
    BY <1>2, <2>1, <2>2, <2>3, <2>4, <2>5, <2>6 DEF ToolStep
<1>3. ASSUME NEW c \in Calls, SendStep(c) \/ JobStep(c) \/ CommitStart(c) \/ ChildStarts(c) \/ ChildRests(c)
      PROVE  StopOf(d)'
  <2>1. CASE JobReports(c)
    BY <2>1 DEF JobReports, Complete, Take
  <2>2. CASE ~JobReports(c)
    BY <1>3, <2>2 DEF SendStep, JobStep, CommitStart, ChildStarts, ChildRests, Tells, Tell,
       DeliverTells, DeliverPuts, DeliverReleases, JobConcludes, jobFrame
  <2> QED
    BY <2>1, <2>2
<1>4. ASSUME NEW c \in Calls, UserCancels(c) \/ UserDetaches(c) \/ UserEdits(c)
      PROVE  StopOf(d)'
  <2>1. CASE UserCancels(c)
    BY <2>1 DEF UserCancels, CancelEntry, Take
  <2>2. CASE UserDetaches(c) \/ UserEdits(c)
    BY <2>2 DEF UserDetaches, UserEdits, Drop, Entries
  <2> QED
    BY <1>4, <2>1, <2>2
<1>5. CASE RunStarts \/ Stop \/ SuspendedDrops \/ ExecStep
  BY <1>5 DEF RunStarts, Stop, SuspendedDrops, ExecStep, ExecDrops, ExecReleases, SuspendedCancels,
     CancelSpreads, DropTask, Drop, Entries, runFrame, workFrame
<1>6. CASE RunSettles \/ RunCrashes
  BY <1>6 DEF RunSettles, RunCrashes, ToolsReturned, Drop, Entries, runFrame, workFrame
<1>7. CASE CloseBegins \/ CloseStep
  BY <1>7 DEF CloseBegins, CloseStep, CloseWaited, CloseReturns, closeFrame, Entries
<1> QED
  BY <1>1, <1>2, <1>3, <1>4, <1>5, <1>6, <1>7 DEF Next, Outside

(* A stop of one call the user was told is accepted reaches its work, even  *)
(* when it came before the call was registered.                             *)
THEOREM AcceptedStopAlways == Spec => []AcceptedStopReachesJob
<1>1. Init => SInv
  BY InitFates DEF IInv, SInv, StopOf, Init
<1>2. IInv /\ SInv /\ [Next]_vars => SInv'
  BY NextFates, StopSteps DEF IInv, SInv
<1>3. SInv => AcceptedStopReachesJob
  BY DEF SInv, StopOf, AcceptedStopReachesJob
<1> QED
  BY <1>1, <1>2, <1>3, InvAlways, PTL DEF Spec

=============================================================================
