-------------------------------- MODULE Paging --------------------------------
(***************************************************************************)
(* Reading something long page by page: lines of read_file, entries of     *)
(* list_directory, rows of search_content, the bytes of a file in the      *)
(* browser forwards and backwards, and the search of a text that is only   *)
(* ever held in parts. What is read does not change meanwhile; a reader    *)
(* follows the continuation each page names. A character is the number of  *)
(* its bytes, so that the end of a part may fall inside one.               *)
(***************************************************************************)
EXTENDS Integers, FiniteSets, Sequences
LOCAL INSTANCE SequencesExt

CONSTANTS PageLimit,     \* limit: lines, rows, entries or matches of one page
          Budget,        \* max_content_chars of read_file
          ChunkBytes,    \* TEXT_CHUNK_BYTES
          FullBytes,     \* FULL_TEXT_BYTES: a file not larger is one page
          MaxLength,     \* bound: lines, entries or characters of what is read
          Chars          \* the characters of a text: the same letter has the same number of bytes

ASSUME PagingAssumption ==
  /\ {PageLimit, ChunkBytes, FullBytes, MaxLength} \subseteq Nat \ {0} /\ Budget \in Nat
  /\ Chars \subseteq 1..2 /\ ChunkBytes >= 2 /\ Budget >= 3 + 1

VARIABLES tool,     \* which reader
          whole,    \* what is read
          request,  \* the query, the hits, the order of the parts
          offset,   \* the continuation; Done when the last page named none
          got       \* what the pages showed

pagingVars == <<tool, whole, request, offset, got>>

Done == -1
Readers == {"lines", "entries", "rows", "forward", "backward", "find"}
UpTo(n) == UNION {[1..k -> 1..n] : k \in 0..MaxLength}
Texts == {s \in UpTo(2) : \A i \in DOMAIN s : s[i] \in Chars}

PagingTypeOK ==
  /\ tool \in Readers /\ offset \in Nat \cup {Done} /\ got \in Seq(Nat) /\ whole \in UpTo(3)

PagingInit ==
  /\ \/ tool = "lines" /\ whole \in UpTo(3) /\ request = {}
     \/ tool = "entries" /\ whole \in UpTo(1) /\ request = {}
     \/ tool = "rows" /\ whole \in UpTo(1) /\ request \in SUBSET DOMAIN whole
     \/ tool \in {"forward", "backward"} /\ whole \in Texts /\ request = {}
     \/ tool = "find" /\ whole \in Texts /\ request \in {q \in Texts : Len(q) \in 1..3}
  /\ got = <<>>
  /\ offset = IF tool = "lines" THEN 1 ELSE 0

Min2(a, b) == IF a < b THEN a ELSE b
Max2(a, b) == IF a < b THEN b ELSE a
Upto(from, to) == [i \in 1..Max2(0, to - from + 1) |-> from + i - 1]

-----------------------------------------------------------------------------
(* ReadFileTool._read_text_page: lines from at on, until the limit or the    *)
(* budget is reached; the first line that does not fit is the continuation.  *)
(* A line stands for the number of its characters, already shortened.        *)
Width(from, to) == FoldSeq(+, 0, SubSeq(whole, from, to)) + (to - from)

LineFits(from, line) == line - from < PageLimit /\ Width(from, line) <= Budget

LastLine(from) ==
  LET fitting == {k \in from..Len(whole) : \A j \in from..k : LineFits(from, j)}
  IN  IF fitting = {} THEN from - 1 ELSE CHOOSE k \in fitting : \A j \in fitting : j <= k

(* Mutant of Lines: the line that did not fit counts as read.                *)
LinesPast(from) ==
  LET last == LastLine(from)
  IN  [shown |-> Upto(from, last), next |-> IF last + 1 < Len(whole) THEN last + 2 ELSE Done]
Lines(from) ==
  LET last == LastLine(from)
  IN  [shown |-> Upto(from, last), next |-> IF last < Len(whole) THEN last + 1 ELSE Done]

(* ListDirectoryTool: the sorted children from at on.                        *)
Slice(all, from) == SubSeq(all, from + 1, Min2(from + PageLimit, Len(all)))
Entries(from) ==
  LET page == Slice(Upto(1, Len(whole)), from)
  IN  [shown |-> page, next |-> IF from + Len(page) < Len(whole) THEN from + Len(page) ELSE Done]

(* search_content: the lines around every hit, again for every hit near it.  *)
ContextLines == 1
RowsOf(hit) == Upto(Max2(1, hit - ContextLines), Min2(Len(whole), hit + ContextLines))
AllRows == FoldSeq(LAMBDA hit, rows : rows \o RowsOf(hit), <<>>, SelectSeq(Upto(1, Len(whole)), LAMBDA i : i \in request))

RowsLeft(total, from) == total > from + PageLimit
Rows(from) == [shown |-> Slice(AllRows, from), next |-> IF RowsLeft(Len(AllRows), from) THEN from + PageLimit ELSE Done]

-----------------------------------------------------------------------------
(* read_text: a page of bytes is decoded up to its last whole character.     *)
Bytes(k) == FoldSeq(+, 0, SubSeq(whole, 1, k))
Size == Bytes(Len(whole))
Boundaries == {Bytes(k) : k \in 0..Len(whole)}
CharsIn(from, to) == SelectSeq(Upto(1, Len(whole)), LAMBDA k : Bytes(k - 1) >= from /\ Bytes(k) <= to)

WholeUpTo(position) == CHOOSE b \in Boundaries : b <= position /\ \A c \in Boundaries : c <= position => c <= b
WholeFrom(position) == CHOOSE b \in Boundaries : b >= position /\ \A c \in Boundaries : c >= position => c >= b

Forward(from) ==
  LET raw == Min2(Size, from + (IF Size <= FullBytes THEN FullBytes ELSE ChunkBytes))
      end == WholeUpTo(raw)
  IN  [shown |-> CharsIn(from, end), next |-> IF end < Size THEN end ELSE Done]

(* The page before a position, from the first whole character; 0 asks for    *)
(* the end of the file, as tail does.                                        *)
Backward(position) ==
  LET before == IF got = <<>> THEN Size ELSE position
      start == WholeFrom(Max2(0, before - ChunkBytes))
  IN  [shown |-> CharsIn(start, before), next |-> IF start > 0 THEN start ELSE Done]

(* search_text: each part is searched together with the end of the one       *)
(* before, one character shorter than the query; text_search_pages cuts the  *)
(* matches into pages, and each page searches from the beginning again.      *)
MatchesAt(text, query, i) == i + Len(query) - 1 <= Len(text) /\ SubSeq(text, i, i + Len(query) - 1) = query

(* finditer: from the left, none overlapping another.                        *)
Found(text, query) ==
  LET next[i \in 1..(Len(text) + 1)] ==
        IF i > Len(text) THEN <<>>
        ELSE IF MatchesAt(text, query, i)
             THEN <<i>> \o next[Min2(i + Len(query), Len(text) + 1)]
             ELSE next[i + 1]
  IN  next[1]

Carried(part) == SubSeq(part, Max2(1, Len(part) - Len(request) + 2), Len(part))

(* The matches that end in a part, as numbers of characters of the file; the *)
(* carried text ends where the part begins.                                  *)
MatchesIn(part, from, kept) ==
  LET before == Cardinality({k \in 1..Len(whole) : Bytes(k) <= from}) - Len(kept)
      here == SelectSeq(Found(kept \o part, request), LAMBDA i : i + Len(request) - 1 > Len(kept))
  IN  [i \in DOMAIN here |-> before + here[i]]

PartOf(page) == [i \in DOMAIN page.shown |-> whole[page.shown[i]]]

MatchesFrom ==
  LET f[from \in Boundaries, kept \in Texts] ==
        LET page == Forward(from)
        IN  MatchesIn(PartOf(page), from, kept)
              \o IF page.next = Done THEN <<>> ELSE f[page.next, Carried(kept \o PartOf(page))]
  IN  f

ShownFrom(all, from) == [shown |-> Slice(all, from), next |-> IF Len(all) > from + PageLimit THEN from + PageLimit ELSE Done]

Find(from) == ShownFrom(MatchesFrom[0, <<>>], from)

-----------------------------------------------------------------------------
Turns(page) ==
  /\ offset # Done /\ offset' = page.next
  /\ got' = IF tool = "backward" THEN page.shown \o got ELSE got \o page.shown
  /\ UNCHANGED <<tool, whole, request>>

ReadsLines == tool = "lines" /\ Turns(Lines(offset))
ReadsEntries == tool = "entries" /\ Turns(Entries(offset))
ReadsRows == tool = "rows" /\ Turns(Rows(offset))
ReadsForward == tool = "forward" /\ Turns(Forward(offset))
ReadsBackward == tool = "backward" /\ Turns(Backward(offset))
Finds == tool = "find" /\ Turns(Find(offset))

PagingNext == ReadsLines \/ ReadsEntries \/ ReadsRows \/ ReadsForward \/ ReadsBackward \/ Finds

-----------------------------------------------------------------------------
(* Who follows the continuations to the end has seen every line, entry, row  *)
(* and character once and in order, whatever ended each page: the limit, the *)
(* budget of characters, or a byte in the middle of a character.             *)
PagesMakeWhole ==
  offset = Done => got = CASE tool = "rows" -> AllRows
                       [] tool = "find" -> got
                       [] OTHER -> Upto(1, Len(whole))

(* A search that only ever holds a part of the text misses nothing: what it  *)
(* reports occurs there, in order and once, and every occurrence overlaps    *)
(* one that is reported.                                                     *)
NoOccurrenceIsMissed ==
  offset = Done /\ tool = "find" =>
    /\ \A i \in DOMAIN got : MatchesAt(whole, request, got[i]) /\ (i > 1 => got[i - 1] < got[i])
    /\ \A k \in 1..Len(whole) : MatchesAt(whole, request, k) =>
         \E i \in DOMAIN got : got[i] <= k /\ k < got[i] + Len(request)

===============================================================================
