---------------------------- MODULE TerminalStream ----------------------------
(***************************************************************************)
(* The output channel of one terminal session: a window of output frames   *)
(* (TerminalStreamBuffer), the bounded subscription of a connection        *)
(* (TerminalStreamSubscription), the websocket that serves it              *)
(* (terminal_stream_api.py), and the client of the desktop that resumes    *)
(* from the last frame it has shown (terminal-connection.ts). A frame is   *)
(* its number; of the other events only the end and the overflow matter.   *)
(***************************************************************************)
EXTENDS Integers, Sequences

CONSTANTS WindowSize,   \* MAX_RING_BUFFER_BYTES, in frames
          QueueSize,    \* MAX_STREAM_QUEUE_FRAMES
          MaxOutput,    \* bound: frames of output
          MaxBreaks     \* bound: connections that break

ASSUME TerminalStreamAssumption ==
  /\ {WindowSize, QueueSize} \subseteq Nat \ {0} /\ {MaxOutput, MaxBreaks} \subseteq Nat

VARIABLES
  window,    \* the numbers of the frames that are kept
  nextSeq,
  finished,  \* the session has ended
  socket,    \* what serves the client: "none", "opening", "serving"
  replay,    \* frames of the attachment that are not sent yet
  queue,     \* the queue of the subscription
  registered, overflowed,
  view,      \* "closed", "connecting", "connected", "ended"
  from, last,\* what the client shows: all frames of from..last; nothing if last is 0
  breaks

channelVars == <<window, nextSeq, finished, socket, replay, queue, registered, overflowed,
                 view, from, last, breaks>>

Exit == -1
Overflow == -2
Resync == -3
Numbers == 1..MaxOutput
Events == Numbers \cup {Exit, Overflow}

ChannelTypeOK ==
  /\ window \in Seq(Numbers) /\ Len(window) <= WindowSize
  /\ nextSeq \in 1..(MaxOutput + 1) /\ finished \in BOOLEAN
  /\ socket \in {"none", "opening", "serving"}
  /\ replay \in Seq(Events \cup {Resync}) /\ queue \in Seq(Events) /\ Len(queue) <= QueueSize + 1
  /\ {registered, overflowed} \subseteq BOOLEAN
  /\ view \in {"closed", "connecting", "connected", "ended"}
  /\ from \in 0..MaxOutput /\ last \in 0..MaxOutput /\ breaks \in 0..MaxBreaks

ChannelInit ==
  /\ window = <<>> /\ nextSeq = 1 /\ finished = FALSE
  /\ socket = "none" /\ replay = <<>> /\ queue = <<>>
  /\ registered = FALSE /\ overflowed = FALSE
  /\ view = "closed" /\ from = 0 /\ last = 0 /\ breaks = 0

-----------------------------------------------------------------------------
(* The session, under its lock.                                             *)

(* Mutant of Published: events are queued after the overflow as well.       *)
PublishedOn(event) ==
  IF ~registered THEN UNCHANGED <<queue, overflowed>>
  ELSE /\ queue' = Append(queue, IF Len(queue) < QueueSize THEN event ELSE Overflow)
       /\ overflowed' = (Len(queue) >= QueueSize)

(* TerminalStreamSubscription.publish: the first event that does not fit    *)
(* becomes the overflow, and nothing comes after it.                        *)
Published(event) ==
  IF ~registered \/ overflowed THEN UNCHANGED <<queue, overflowed>>
  ELSE /\ queue' = Append(queue, IF Len(queue) < QueueSize THEN event ELSE Overflow)
       /\ overflowed' = (Len(queue) >= QueueSize)

(* append: the window forgets the oldest frames.                            *)
Outputs ==
  /\ ~finished /\ nextSeq <= MaxOutput
  /\ nextSeq' = nextSeq + 1
  /\ window' = IF Len(window) < WindowSize THEN Append(window, nextSeq)
               ELSE Append(Tail(window), nextSeq)
  /\ Published(nextSeq)
  /\ UNCHANGED <<finished, socket, replay, registered, view, from, last, breaks>>

Finishes ==
  /\ ~finished /\ finished' = TRUE
  /\ Published(Exit) /\ registered' = FALSE
  /\ UNCHANGED <<window, nextSeq, socket, replay, view, from, last, breaks>>

FirstAvailable == IF window = <<>> THEN nextSeq ELSE Head(window)

(* Mutant of EndReplayed: who comes after the end is not told of it.        *)
EndReplayedNever == <<>>

EndReplayed == IF finished THEN <<Exit>> ELSE <<>>

(* The window is in order: what the client lacks is the end of it.          *)
FirstLacking == CHOOSE k \in 1..(Len(window) + 1) : \A i \in DOMAIN window : window[i] > last <=> i >= k
Lacking == SubSeq(window, FirstLacking, Len(window))

(* attach: what the client lacks is replayed, and what comes later is       *)
(* queued, unless the window no longer reaches back to what it has.         *)
Attaches ==
  /\ socket = "opening"
  /\ socket' = "serving" /\ queue' = <<>> /\ overflowed' = FALSE
  /\ IF last # 0 /\ last < FirstAvailable - 1
     THEN replay' = <<Resync>> /\ registered' = FALSE
     ELSE /\ replay' = Lacking \o EndReplayed
          /\ registered' = ~finished
  /\ UNCHANGED <<window, nextSeq, finished, view, from, last, breaks>>

-----------------------------------------------------------------------------
(* The client.                                                              *)

Detached == /\ socket' = "none" /\ replay' = <<>> /\ queue' = <<>>
            /\ registered' = FALSE /\ overflowed' = FALSE

(* The user opens the terminal, running or over.                            *)
Opens ==
  /\ view = "closed" /\ view' = "connecting"
  /\ UNCHANGED <<window, nextSeq, finished, socket, replay, queue, registered, overflowed, from, last, breaks>>

Connects ==
  /\ view \notin {"closed", "ended"} /\ socket = "none"
  /\ socket' = "opening"
  /\ UNCHANGED <<window, nextSeq, finished, replay, queue, registered, overflowed, view, from, last, breaks>>

(* resyncFrom: the screen is cleared.                                       *)
Resyncs == Detached /\ last' = 0 /\ from' = 0 /\ view' = "connecting"

ShowsOutput(n) ==
  CASE n <= last -> UNCHANGED <<socket, registered, overflowed, view, from, last>>
    [] n > last /\ last # 0 /\ n # last + 1 -> Resyncs
    [] OTHER -> /\ last' = n /\ from' = IF last = 0 THEN n ELSE from
                /\ view' = "connected"
                /\ UNCHANGED <<socket, registered, overflowed>>

(* handleMessage, of what the websocket sends next: the replay, and then    *)
(* what pump takes from the queue.                                          *)
Handles(event, restReplay, restQueue) ==
  CASE event = Exit -> Detached /\ view' = "ended" /\ UNCHANGED <<from, last>>
    [] event \in {Resync, Overflow} -> Resyncs
    [] OTHER -> /\ ShowsOutput(event)
                /\ socket' = "serving" => replay' = restReplay /\ queue' = restQueue

Receives ==
  /\ socket = "serving"
  /\ \/ replay # <<>> /\ Handles(Head(replay), Tail(replay), queue)
     \/ replay = <<>> /\ queue # <<>> /\ Handles(Head(queue), <<>>, Tail(queue))
  /\ UNCHANGED <<window, nextSeq, finished, breaks>>

(* The connection is lost with all that was under way.                      *)
Breaks ==
  /\ socket # "none" /\ breaks < MaxBreaks /\ breaks' = breaks + 1
  /\ Detached
  /\ UNCHANGED <<window, nextSeq, finished, view, from, last>>

ChannelNext == Outputs \/ Finishes \/ Attaches \/ Opens \/ Connects \/ Receives \/ Breaks

ChannelSpec == ChannelInit /\ [][ChannelNext]_channelVars

(* The client tries again, and the loop serves; the session ends some day.  *)
ChannelFairness ==
  /\ WF_channelVars(Connects) /\ WF_channelVars(Attaches) /\ WF_channelVars(Receives)

-----------------------------------------------------------------------------
(* A client that was told of the end shows every frame of the output, up to *)
(* the last one, from where the window began when it last cleared its       *)
(* screen: breaks, a slow network and an overflow tear no hole that stays.  *)
EndedViewIsWhole == view = "ended" => last = nextSeq - 1

(* Once the session is over, the client comes to its end, however often it  *)
(* was cut off.                                                             *)
ViewEnds == (finished /\ view # "closed") ~> view = "ended"
=============================================================================
