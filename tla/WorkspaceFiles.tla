---------------------------- MODULE WorkspaceFiles ----------------------------
(***************************************************************************)
(* The file browser's view of a workspace (service/workspace_files and     *)
(* workspace_files_api.py): directory pages cut from cached snapshots, the *)
(* paths the user hides, and the subscription that tells a window to read  *)
(* again. Several windows read, the disk and the hidden paths change while *)
(* they do. A directory's version is the number of its contents so far.    *)
(***************************************************************************)
EXTENDS Integers, FiniteSets, Sequences

CONSTANTS Dirs, Windows,
          Names,          \* a finite set of numbers: their order is that of natural_key
          SnapshotLimit,  \* the 16 snapshots that are kept
          PageSize,
          MaxTouches,     \* bound: changes of the disk
          MaxUpsets,      \* bound: changes of the hidden paths, cancelled requests, snapshots too old
          MaxSnapshots    \* bound: snapshots that are ever made

ASSUME WorkspaceFilesAssumption ==
  /\ IsFiniteSet(Dirs) /\ IsFiniteSet(Windows) /\ IsFiniteSet(Names) /\ Names \subseteq Nat \ {0}
  /\ {SnapshotLimit, PageSize} \subseteq Nat \ {0}
  /\ {MaxTouches, MaxUpsets, MaxSnapshots} \subseteq Nat

VARIABLES
  past,     \* per directory, what it held at each of its versions
  hidden,   \* ignored_paths: <<d, n>> is an entry, <<d, 0>> the directory itself
  unswept,  \* the hidden paths are written, the snapshots not yet invalidated
  snaps,    \* _snapshots: a set, whose order is that of the tokens
  made, upsets,  \* counters of the bounds
  browser,   \* what each window asked for and shows
  sub       \* its subscription

filesVars == <<past, hidden, unswept, snaps, made, upsets, browser, sub>>

Rules == SUBSET (Dirs \X (Names \cup {0}))
Latest(d) == Len(past[d])
OnDisk(d) == past[d][Latest(d)]

BlankView(d) == [at |-> "closed", dir |-> d, version |-> 0, rules |-> {}, found |-> {}, token |-> 0,
                 offset |-> 0, shown |-> <<>>]

FilesTypeOK ==
  /\ past \in [Dirs -> Seq(SUBSET Names)] /\ \A d \in Dirs : Latest(d) \in 1..(MaxTouches + 1)
  /\ hidden \in Rules /\ unswept \in BOOLEAN
  /\ \A s \in snaps :
       /\ s.token \in 1..made /\ s.dir \in Dirs /\ s.version \in 1..Latest(s.dir)
       /\ s.rules \in Rules /\ s.entries \in Seq(Names) /\ s.old \in BOOLEAN
  /\ Cardinality(snaps) <= SnapshotLimit /\ made \in 0..MaxSnapshots /\ upsets \in 0..MaxUpsets
  /\ \A w \in Windows :
       /\ browser[w].at \in {"closed", "idle", "scanning", "scanned", "paging", "more", "whole"}
       /\ browser[w].dir \in Dirs /\ browser[w].shown \in Seq(Names) /\ browser[w].offset \in Nat
  /\ sub \in [Windows -> [changed : BOOLEAN, stale : BOOLEAN]]

FilesInit ==
  /\ past \in [Dirs -> {<<{}>>, <<Names>>}] /\ hidden = {} /\ unswept = FALSE
  /\ snaps = {} /\ made = 0 /\ upsets = 0
  /\ \E where \in [Windows -> Dirs] : browser = [w \in Windows |-> BlankView(where[w])]
  /\ sub = [w \in Windows |-> [changed |-> FALSE, stale |-> TRUE]]

-----------------------------------------------------------------------------
(* Reading a directory: the hidden paths and the version, the scan, the     *)
(* check that the version is still the same, the snapshot, the page.        *)

Restarted(w) == [browser EXCEPT ![w] = [BlankView(browser[w].dir) EXCEPT !.at = "idle"]]

(* The user opens a directory: the window watches it and reads it.          *)
OpenDirectory(w) ==
  /\ browser[w].at = "closed" /\ browser' = Restarted(w)
  /\ UNCHANGED <<past, hidden, unswept, snaps, made, upsets, sub>>

Upset == upsets < MaxUpsets /\ upsets' = upsets + 1

(* A request that is refused, cancelled or found out of date: the window     *)
(* starts again from the first page.                                         *)
Again(w) == /\ browser' = Restarted(w)
            /\ sub' = [sub EXCEPT ![w].stale = TRUE]

BeginRead(w) ==
  /\ browser[w].at = "idle" /\ sub[w].stale /\ made < MaxSnapshots
  /\ browser' = [browser EXCEPT ![w].at = "scanning", ![w].version = Latest(browser[w].dir), ![w].rules = hidden]
  /\ sub' = [sub EXCEPT ![w].stale = FALSE]
  /\ UNCHANGED <<past, hidden, unswept, snaps, made, upsets>>

(* What a scan of d shows under the hidden paths it began with.              *)
Visible(d, names, rules) == IF <<d, 0>> \in rules THEN {} ELSE {n \in names : <<d, n>> \notin rules}

(* The scan meets the entries one after the other: here in two halves.       *)
LowNames == {n \in Names : Cardinality({m \in Names : m < n}) * 2 < Cardinality(Names)}
ScanFirst(w) ==
  /\ browser[w].at = "scanning"
  /\ browser' = [browser EXCEPT ![w].at = "scanned",
                  ![w].found = Visible(browser[w].dir, OnDisk(browser[w].dir) \cap LowNames, browser[w].rules)]
  /\ UNCHANGED <<past, hidden, unswept, snaps, made, upsets, sub>>

CancelRead(w) ==
  /\ browser[w].at \in {"scanning", "scanned"}
  /\ Upset /\ Again(w) /\ UNCHANGED <<past, hidden, unswept, snaps, made>>

ByMember(names) == CHOOSE s \in [1..Cardinality(names) -> names] :
                     \A i, j \in DOMAIN s : i < j => s[i] < s[j]

(* The newest SnapshotLimit snapshots that are not too old.                  *)
Trimmed(all) ==
  LET young == {s \in all : ~s.old}
  IN  {s \in young : Cardinality({t \in young : t.token > s.token}) < SnapshotLimit}

(* Mutant of IsUnchanged: the scan is believed whatever happened meanwhile.  *)
IsUnchangedAlways(d, version) == TRUE
IsUnchanged(d, version) == Latest(d) = version

Store(w) ==
  LET d == browser[w].dir
      found == browser[w].found \cup Visible(d, OnDisk(d) \ LowNames, browser[w].rules)
  IN  /\ browser[w].at = "scanned" /\ made < MaxSnapshots
      /\ \/ /\ IsUnchanged(d, browser[w].version)
            /\ made' = made + 1
            /\ snaps' = Trimmed(snaps \cup {[token |-> made + 1, dir |-> d, version |-> browser[w].version,
                                              rules |-> browser[w].rules, entries |-> ByMember(found),
                                              old |-> FALSE]})
            /\ browser' = [browser EXCEPT ![w].at = "paging", ![w].found = {}, ![w].token = made + 1]
            /\ UNCHANGED sub
         \/ /\ ~IsUnchanged(d, browser[w].version)
            /\ Again(w) /\ UNCHANGED <<snaps, made>>
      /\ UNCHANGED <<past, hidden, unswept, upsets>>

Snapshots(token) == {s \in snaps : s.token = token}

(* A cursor is followed: its snapshot, the version and the hidden paths.     *)
Answers(w) ==
  \E s \in Snapshots(browser[w].token) : s.rules = hidden /\ s.version = Latest(browser[w].dir) /\ ~s.old

Follow(w) ==
  /\ browser[w].at = "more"
  /\ \/ Answers(w) /\ browser' = [browser EXCEPT ![w].at = "paging"] /\ UNCHANGED sub
     \/ ~Answers(w) /\ Again(w)
  /\ UNCHANGED <<past, hidden, unswept, snaps, made, upsets>>

(* A snapshot that was dropped meanwhile is closed and holds nothing.        *)
Cut(token, offset) ==
  IF Snapshots(token) = {} THEN <<>>
  ELSE LET all == (CHOOSE s \in Snapshots(token) : TRUE).entries
       IN  SubSeq(all, offset + 1, IF offset + PageSize < Len(all) THEN offset + PageSize ELSE Len(all))
Total(token) == IF Snapshots(token) = {} THEN 0 ELSE Len((CHOOSE s \in Snapshots(token) : TRUE).entries)

IsHeld(token) == Snapshots(token) # {}

Page(w) ==
  LET token == browser[w].token
      end == browser[w].offset + PageSize
  IN  /\ browser[w].at = "paging"
      /\ \/ /\ IsHeld(token)
            /\ browser' = [browser EXCEPT ![w].shown = @ \o Cut(token, browser[w].offset),
                                          ![w].offset = IF end < Total(token) THEN end ELSE 0,
                                          ![w].token = IF end < Total(token) THEN token ELSE 0,
                                          ![w].at = IF end < Total(token) THEN "more" ELSE "whole"]
            /\ UNCHANGED sub
         \/ ~IsHeld(token) /\ Again(w)
      /\ UNCHANGED <<past, hidden, unswept, snaps, made, upsets>>

(* The window asks again once it has been told that something changed.       *)
Refresh(w) ==
  /\ browser[w].at \in {"more", "whole"} /\ sub[w].stale
  /\ browser' = Restarted(w)
  /\ UNCHANGED <<past, hidden, unswept, snaps, made, upsets, sub>>

(* The snapshots made so far are older than 120 seconds.                     *)
Age ==
  /\ snaps # {} /\ Upset
  /\ snaps' = {[s EXCEPT !.old = TRUE] : s \in snaps}
  /\ UNCHANGED <<past, hidden, unswept, made, browser, sub>>

(* Requests for other directories push the oldest snapshot out.              *)
Crowd ==
  /\ \E s \in snaps : (\A t \in snaps : s.token <= t.token) /\ snaps' = snaps \ {s}
  /\ Upset
  /\ UNCHANGED <<past, hidden, unswept, made, browser, sub>>

-----------------------------------------------------------------------------
(* The disk, the hidden paths and the subscriptions.                         *)

(* WorkspaceFileWatcher.changed: those that watch the directory are told,    *)
(* unless the system lost the event or there is no watch.                    *)
WakesView(d, lost) == [w \in Windows |-> IF browser[w].dir = d /\ browser[w].at # "closed" /\ ~lost
                                         THEN [sub[w] EXCEPT !.changed = TRUE] ELSE sub[w]]

Touch(d, n, lost) ==
  /\ Latest(d) <= MaxTouches
  /\ past' = [past EXCEPT ![d] = Append(@, IF n \in OnDisk(d) THEN OnDisk(d) \ {n} ELSE OnDisk(d) \cup {n})]
  /\ sub' = WakesView(d, lost)
  /\ UNCHANGED <<hidden, unswept, snaps, made, upsets, browser>>

(* BrowserVisibilityStore.change, then the snapshots are invalidated.        *)
ChangeRules(paths, ignored) ==
  LET updated == IF ignored THEN hidden \cup paths ELSE hidden \ paths
  IN  /\ ~unswept /\ updated # hidden /\ Upset
      /\ hidden' = updated /\ unswept' = TRUE
      /\ sub' = [w \in Windows |-> [sub[w] EXCEPT !.changed = browser[w].at # "closed"]]
      /\ UNCHANGED <<past, snaps, made, browser>>

Invalidate ==
  /\ unswept /\ unswept' = FALSE /\ snaps' = {}
  /\ UNCHANGED <<past, hidden, made, upsets, browser, sub>>

(* The stream of a subscription: a change is told at once, and every two     *)
(* seconds the watch is looked at; without news the window is told to        *)
(* compare after 15 seconds, or at once when there is no watch.              *)
TellsChange(w) ==
  /\ sub[w].changed
  /\ sub' = [sub EXCEPT ![w].changed = FALSE, ![w].stale = TRUE]
  /\ UNCHANGED <<past, hidden, unswept, snaps, made, upsets, browser>>

IsOutdated(w) == browser[w].at \in {"more", "whole"}
                 /\ (browser[w].version # Latest(browser[w].dir) \/ browser[w].rules # hidden)

Reconciles(w) == IsOutdated(w)

(* Telling a window that shows the latest anyway changes nothing and is      *)
(* left out.                                                                 *)
Ticks(w) ==
  /\ ~sub[w].changed /\ ~sub[w].stale /\ Reconciles(w)
  /\ sub' = [sub EXCEPT ![w].stale = TRUE]
  /\ UNCHANGED <<past, hidden, unswept, snaps, made, upsets, browser>>

FilesNext ==
  \/ \E w \in Windows : OpenDirectory(w) \/ BeginRead(w) \/ ScanFirst(w) \/ CancelRead(w) \/ Store(w) \/ Follow(w) \/ Page(w)
                        \/ Refresh(w) \/ TellsChange(w) \/ Ticks(w)
  \/ \E d \in Dirs, n \in Names, lost \in BOOLEAN : Touch(d, n, lost)
  \/ \E paths \in {{<<d, n>>} : d \in Dirs, n \in Names \cup {0}}, ignored \in BOOLEAN : ChangeRules(paths, ignored)
  \/ Invalidate \/ Age \/ Crowd

FilesSpec == FilesInit /\ [][FilesNext]_filesVars

FilesFairness ==
  /\ WF_filesVars(Invalidate)
  /\ \A w \in Windows :
       /\ WF_filesVars(BeginRead(w)) /\ WF_filesVars(ScanFirst(w)) /\ WF_filesVars(Store(w))
       /\ WF_filesVars(Page(w)) /\ WF_filesVars(Refresh(w))
       /\ WF_filesVars(TellsChange(w)) /\ WF_filesVars(Ticks(w))

-----------------------------------------------------------------------------
(* A window that followed the cursors to the end shows every entry of the    *)
(* directory once, in order, as the directory was at the version the first   *)
(* page was read from, under the paths hidden then: pages of two scans are   *)
(* never joined, whatever is evicted, invalidated or changed between two     *)
(* requests.                                                                 *)
PagesAreOneScan ==
  \A w \in Windows : browser[w].at = "whole" =>
    browser[w].shown = ByMember(Visible(browser[w].dir, past[browser[w].dir][browser[w].version], browser[w].rules))

(* Every window comes to show what is on disk under the paths that are       *)
(* hidden: an event the system lost is made up for by the periodic           *)
(* comparison, a request that failed by the next one.                        *)
ViewIsFresh ==
  \A w \in Windows :
    browser[w].at # "closed" ~> [](browser[w].at \in {"more", "whole"} /\ ~IsOutdated(w))
=============================================================================
