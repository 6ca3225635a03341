------------------------------- MODULE PatchText -------------------------------
(***************************************************************************)
(* What apply_patch makes of one text file: the unified diff of the Agent  *)
(* is read (patch_parser.py), its hunks are found in the file by their     *)
(* text and not by their line numbers (patch_apply.py), literally first    *)
(* and then less and less strictly (fuzzy_match.py). A text is a sequence  *)
(* of characters, NL among them. The Agent drafts a diff of the file as it *)
(* has seen it; by the time of the call the file may have been indented.   *)
(* Escape sequences and the Unicode forms of a character are left out, and *)
(* so is how alike two words are: different words are not alike.           *)
(***************************************************************************)
EXTENDS Integers, Sequences, FiniteSets

CONSTANTS Words,      \* the words a line can hold: sequences of letters
          MaxLines,   \* bound: lines of the file
          MaxLineEdits, \* bound: lines the diff removes or adds
          MaxShift,   \* bound: how far the file is indented meanwhile
          Overlaps,   \* whether the old text of a hunk may overlap a copy of itself
          Corners     \* whether a diff may empty the file, or change its last newline alone

LOCAL INSTANCE SequencesExt

ASSUME PatchTextAssumption ==
  /\ {MaxLines, MaxLineEdits, MaxShift} \subseteq Nat /\ {Overlaps, Corners} \subseteq BOOLEAN

VARIABLES
  phase,    \* "seen", "drafted", "sent", "applying", "done", "refused"
  seenLines, \* the lines the Agent has seen
  sourceNL, \* whether the last of them ends in a newline
  script,   \* the edit: a sequence of [prefix, line]
  targetNL, \* whether the new text ends in a newline
  shift,    \* how far the file on disk is indented beyond what was seen
  patch,    \* what the Agent sends
  hunks,    \* what is left of the parsed diff
  content, lineOffset

patchVars == <<phase, seenLines, sourceNL, script, targetNL, shift, patch, hunks, content, lineOffset>>

NL == "|"
Space == " "
Blanks(n) == [i \in 1..n |-> Space]

(* split("\n"), splitlines and "\n".join.                                   *)
Split(text) ==
  FoldLeft(LAMBDA lines, c : IF c = NL THEN Append(lines, <<>>)
                             ELSE [lines EXCEPT ![Len(lines)] = Append(@, c)], << <<>> >>, text)
EndsInNL(text) == text # <<>> /\ text[Len(text)] = NL
SplitLines(text) == IF text = <<>> \/ EndsInNL(text) THEN Front(Split(text)) ELSE Split(text)
Join(lines) == IF lines = <<>> THEN <<>>
               ELSE FoldLeft(LAMBDA text, line : (text \o <<NL>>) \o line, lines[1], Tail(lines))
Text(lines, nl) == Join(lines) \o (IF nl THEN <<NL>> ELSE <<>>)

IndentOf(line) == Cardinality({i \in DOMAIN line : \A j \in 1..i : line[j] = Space})
Strip(line) == SubSeq(line, IndentOf(line) + 1, Len(line))
Shifted(lines, n) == [i \in DOMAIN lines |-> Blanks(n) \o lines[i]]

-----------------------------------------------------------------------------
(* The diff.                                                                *)

Body(edits, prefixes) == LET kept == SelectSeq(edits, LAMBDA e : e.prefix \in prefixes)
                         IN [i \in DOMAIN kept |-> kept[i].line]
Search(hunk) == Join(Body(hunk.lines, {" ", "-"}))
NewText(hunk) == Join(Body(hunk.lines, {" ", "+"}))
Removed(hunk) == Len(Body(hunk.lines, {"-"}))
Added(hunk) == Len(Body(hunk.lines, {"+"}))

Target == Body(script, {" ", "+"})

(* The edits a hunk shows: the changes and the lines next to them.          *)
Shown == {i \in DOMAIN script : \E j \in (i - 1)..(i + 1) : j \in DOMAIN script /\ script[j].prefix # " "}

(* A hunk counts its lines; a diff of a good program counts them right.     *)
HunkOf(from, to, miscounted) ==
  LET body == SubSeq(script, from, to)
      before(prefixes) == Len(Body(SubSeq(script, 1, from - 1), prefixes))
      old == Len(Body(body, {" ", "-"}))
      new == Len(Body(body, {" ", "+"}))
      rest == Body(SubSeq(script, to + 1, Len(script)), {" ", "+"})
  IN [lines |-> body, declared |-> IF miscounted THEN <<old + 1, new>> ELSE <<old, new>>,
      sourceStart |-> before({" ", "-"}) + (IF old = 0 THEN 0 ELSE 1),
      targetStart |-> before({" ", "+"}) + (IF new = 0 THEN 0 ELSE 1),
      noNewline |-> ~targetNL /\ new # 0 /\ rest = <<>>]

HunksOf(miscounted) ==
  LET starts == {i \in Shown : i - 1 \notin Shown}
      next(done) == CHOOSE i \in starts \ done : \A j \in starts \ done : i <= j
      end(i) == CHOOSE j \in Shown : j >= i /\ i..j \subseteq Shown /\ j + 1 \notin Shown
      list[done \in SUBSET starts] ==
        IF done = starts THEN <<>>
        ELSE <<HunkOf(next(done), end(next(done)), miscounted)>> \o list[done \cup {next(done)}]
  IN list[{}]

(* What else a patch of the Agent may be like.                              *)
Faults == {"none", "miscounted", "wrapped", "creates", "renames", "otherHeader", "twice"}

Section(fault) ==
  [from |-> "f", to |-> IF fault = "renames" THEN "g" ELSE "f",
   header |-> IF fault = "otherHeader" THEN "g" ELSE "f",
   meta |-> IF fault = "creates" THEN {"new file mode"} ELSE {"index"},
   hunks |-> HunksOf(fault = "miscounted")]
Drafted(fault) ==
  [wrapped |-> fault = "wrapped",
   sections |-> IF fault = "twice" THEN <<Section(fault), Section(fault)>> ELSE <<Section(fault)>>]

-----------------------------------------------------------------------------
(* The parser. Every hunk is counted anew from its body, and a diff that    *)
(* does anything but change the text of one existing file per section is    *)
(* refused before a file is touched.                                        *)

Recounted(hunk) ==
  [hunk EXCEPT !.declared = <<Len(Body(hunk.lines, {" ", "-"})), Len(Body(hunk.lines, {" ", "+"}))>>]
HeadersAreValid(section) == section.meta \subseteq {"index"} /\ section.hunks # <<>>
NamesOneFile(section) == section.from = section.to /\ section.header = section.from
Changes(hunk) == hunk.lines # <<>> /\ \E i \in DOMAIN hunk.lines : hunk.lines[i].prefix # " "
Consistent(hunk) == hunk.declared = Recounted(hunk).declared

Parses(sections) ==
  /\ \A i \in DOMAIN sections : HeadersAreValid(sections[i]) /\ NamesOneFile(sections[i])
  /\ \A i, j \in DOMAIN sections : i # j => sections[i].from # sections[j].from
  /\ \A i \in DOMAIN sections : \A k \in DOMAIN sections[i].hunks :
       Changes(sections[i].hunks[k]) /\ Consistent(sections[i].hunks[k])

Repaired(hunk) == Recounted(hunk)
RepairedSection(section) == [section EXCEPT !.hunks = [i \in DOMAIN @ |-> Repaired(@[i])]]

-----------------------------------------------------------------------------
(* The search. A match is [from, to]: the characters it covers.             *)

MatchAt(from, to) == [from |-> from, to |-> to]
OccursAt(text, pattern, p) ==
  p + Len(pattern) - 1 <= Len(text) /\ SubSeq(text, p, p + Len(pattern) - 1) = pattern

(* _strategy_exact: from left to right, each match after the one before.    *)
Exact(text, pattern) ==
  LET from[p \in 1..(Len(text) + Len(pattern) + 1)] ==
        IF p > Len(text) THEN {}
        ELSE IF OccursAt(text, pattern, p)
             THEN {MatchAt(p, p + Len(pattern) - 1)} \cup from[p + Len(pattern)]
             ELSE from[p + 1]
  IN from[1]

(* _calculate_line_positions.                                               *)
LengthBefore(lines, n) == FoldLeft(LAMBDA sum, line : sum + Len(line) + 1, 0, SubSeq(lines, 1, n))
LinesAt(text, i, n) ==
  LET lines == Split(text) IN MatchAt(LengthBefore(lines, i - 1) + 1, LengthBefore(lines, i + n - 1) - 1)

(* The blocks of lines that fit, wherever they begin.                       *)
Blocks(text, pattern, Fits(_, _)) ==
  LET lines == Split(text)
      wanted == Split(pattern)
      n == Len(wanted)
  IN {LinesAt(text, i, n) : i \in {k \in 1..(Len(lines) - n + 1) :
                                     Fits(SubSeq(lines, k, k + n - 1), wanted)}}

Same(block, wanted, Normal(_)) == \A i \in DOMAIN wanted : Normal(block[i]) = Normal(wanted[i])
AlikeIn(block, wanted, is) == Cardinality({i \in is : Strip(block[i]) = Strip(wanted[i])})
Inner(wanted) == 2..(Len(wanted) - 1)

LineTrimmed(text, pattern) == Blocks(text, pattern, LAMBDA b, w : Same(b, w, Strip))

(* Runs of blanks count as one; the match covers the whole run.             *)
Collapsed(text) ==
  FoldLeft(LAMBDA s, c : IF c = Space /\ s # <<>> /\ s[Len(s)] = Space THEN s ELSE Append(s, c), <<>>, text)
WhitespaceNormalized(text, pattern) ==
  LET normal(p) == Len(Collapsed(SubSeq(text, 1, p)))
      first(q) == CHOOSE p \in DOMAIN text : normal(p) = q /\ (p = 1 \/ normal(p - 1) < q)
      last(q) == CHOOSE p \in DOMAIN text : normal(p) = q /\ (p = Len(text) \/ normal(p + 1) > q)
  IN {MatchAt(first(m.from), last(m.to)) : m \in Exact(Collapsed(text), Collapsed(pattern))}

IndentationFlexible(text, pattern) == Blocks(text, pattern, LAMBDA b, w : Same(b, w, Strip))

TrimmedBoundary(text, pattern) ==
  Blocks(text, pattern, LAMBDA b, w : \A i \in DOMAIN w :
    IF i \in {1, Len(w)} THEN Strip(b[i]) = Strip(w[i]) ELSE b[i] = w[i])

(* The first and the last line are there, and what is between is alike.     *)
BlockAnchor(text, pattern) ==
  LET anchored(b, w) == Len(w) >= 2 /\ Strip(b[1]) = Strip(w[1]) /\ Strip(b[Len(w)]) = Strip(w[Len(w)])
      share == IF Cardinality(Blocks(text, pattern, anchored)) = 1 THEN 50 ELSE 70
  IN Blocks(text, pattern, LAMBDA b, w :
       anchored(b, w) /\ 100 * AlikeIn(b, w, Inner(w)) >= share * Cardinality(Inner(w)))

(* Half of the lines are alike.                                             *)
ContextAware(text, pattern) ==
  Blocks(text, pattern, LAMBDA b, w : 2 * AlikeIn(b, w, DOMAIN w) >= Len(w))

Strategies(text, pattern) ==
  <<Exact(text, pattern), LineTrimmed(text, pattern), WhitespaceNormalized(text, pattern),
    IndentationFlexible(text, pattern), TrimmedBoundary(text, pattern),
    BlockAnchor(text, pattern), ContextAware(text, pattern)>>

(* The first strategy that finds anything decides.                          *)
Deciding(strategies) ==
  LET found == {i \in DOMAIN strategies : strategies[i] # {}}
  IN IF found = {} THEN 0 ELSE CHOOSE i \in found : \A j \in found : i <= j

(* _reindent_replacement: what the first lines differ in is put right       *)
(* everywhere.                                                              *)
FirstMeaningful(lines) == SelectSeq(lines, LAMBDA l : Strip(l) # <<>>)
Reindented(region, pattern, new) ==
  LET old == FirstMeaningful(Split(pattern))
      is == FirstMeaningful(Split(region))
      lines == Split(new)
      was == IndentOf(old[1])
      now == Blanks(IndentOf(is[1]))
      adjusted(line) == IF Strip(line) = <<>> THEN line
                        ELSE IF IndentOf(line) >= was THEN now \o SubSeq(line, was + 1, Len(line))
                        ELSE now \o Strip(line)
  IN IF new = <<>> \/ old = <<>> \/ is = <<>> \/ was = IndentOf(is[1]) THEN new
     ELSE Join([i \in DOMAIN lines |-> adjusted(lines[i])])

(* fuzzy_find_and_replace with replace_all = False; NotFound stands for its *)
(* errors.                                                                  *)
NotFound == <<"not found">>

(* Mutant of IsUnique: one of several places is taken.                      *)
IsUniqueEnough(matches) == matches # {}
IsUnique(matches) == Cardinality(matches) = 1

ReplaceBy(strategies, text, pattern, new) ==
  LET n == Deciding(strategies)
      m == CHOOSE m \in strategies[n] : TRUE
      with == IF n = 1 THEN new ELSE Reindented(SubSeq(text, m.from, m.to), pattern, new)
  IN IF n = 0 \/ ~IsUnique(strategies[n]) THEN NotFound
     ELSE (SubSeq(text, 1, m.from - 1) \o with) \o SubSeq(text, m.to + 1, Len(text))
FindAndReplace(text, pattern, new) ==
  CHOOSE result \in {ReplaceBy(s, text, pattern, new) : s \in {Strategies(text, pattern)}} : TRUE

-----------------------------------------------------------------------------
(* _apply_hunks, hunk by hunk.                                              *)

InsertsAt(hunk) == hunk.sourceStart + lineOffset

Inserted(hunk) ==
  LET lines == SplitLines(content)
      at == InsertsAt(hunk)
      text == Join((SubSeq(lines, 1, at) \o Body(hunk.lines, {"+"})) \o SubSeq(lines, at + 1, Len(lines)))
  IN IF at > Len(lines) THEN NotFound
     ELSE IF hunk.noNewline /\ at = Len(lines) THEN text
     ELSE IF at = Len(lines) \/ EndsInNL(content) THEN Append(text, NL) ELSE text

(* The newline at the end is that of the diff where the hunk reaches the    *)
(* end, and that of the file elsewhere.                                     *)
WithEnd(text, hunk, isLast) ==
  LET new == Len(Body(hunk.lines, {" ", "+"}))
      end == IF new = 0 THEN hunk.targetStart ELSE hunk.targetStart + new - 1
      reaches == isLast /\ end = Len(SplitLines(text))
  IN IF ~EndsInNL(text) /\ ~hunk.noNewline /\ (reaches \/ EndsInNL(content)) THEN Append(text, NL) ELSE text

Replaced(hunk, isLast) ==
  IF Search(hunk) = NewText(hunk) THEN content
  ELSE CHOOSE result \in
         {IF text = NotFound THEN NotFound ELSE WithEnd(text, hunk, isLast) :
            text \in {FindAndReplace(content, Search(hunk), NewText(hunk))}} : TRUE

AppliedText(hunk, isLast) ==
  LET text == IF Body(hunk.lines, {" ", "-"}) = <<>> \/ Search(hunk) = <<>> THEN Inserted(hunk)
              ELSE Replaced(hunk, isLast)
  IN IF text # NotFound /\ hunk.noNewline /\ isLast /\ EndsInNL(text) THEN Front(text) ELSE text

-----------------------------------------------------------------------------
Line == {Blanks(n) \o w : n \in 0..1, w \in Words}

PatchTypeOK ==
  /\ phase \in {"seen", "drafted", "sent", "applying", "done", "refused"}
  /\ seenLines \in Seq(Line) /\ {sourceNL, targetNL} \subseteq BOOLEAN /\ shift \in 0..MaxShift
  /\ \A i \in DOMAIN script : script[i].prefix \in {" ", "-", "+"} /\ script[i].line \in Line
  /\ ToSet(content) \subseteq {NL, Space} \cup UNION {ToSet(w) : w \in Words}
  /\ lineOffset \in (-MaxLineEdits)..MaxLineEdits

NoPatch == [wrapped |-> FALSE, sections |-> <<>>]

PatchInit ==
  /\ phase = "seen" /\ seenLines \in UNION {[1..n -> Line] : n \in 0..MaxLines}
  /\ sourceNL \in (IF seenLines = <<>> THEN {FALSE} ELSE BOOLEAN)
  /\ script = <<>> /\ targetNL = FALSE /\ shift = 0 /\ patch = NoPatch
  /\ hunks = <<>> /\ content = <<>> /\ lineOffset = 0

DraftLine(prefix, line) == [prefix |-> prefix, line |-> line]
SourceLeft == Len(seenLines) - Len(Body(script, {" ", "-"}))
Edits == Len(SelectSeq(script, LAMBDA e : e.prefix # " "))

(* The Agent goes through what it has seen, and keeps, removes or adds.     *)
Drafts ==
  /\ phase = "seen"
  /\ \/ /\ SourceLeft > 0
        /\ \E prefix \in {" "} \cup (IF Edits < MaxLineEdits THEN {"-"} ELSE {}) :
             script' = Append(script, DraftLine(prefix, seenLines[Len(seenLines) - SourceLeft + 1]))
     \/ /\ Edits < MaxLineEdits /\ \E line \in Line : script' = Append(script, DraftLine("+", line))
  /\ UNCHANGED <<phase, seenLines, sourceNL, targetNL, shift, patch, hunks, content, lineOffset>>

Overlapping(pattern) ==
  \E n \in 1..(Len(pattern) - 1) :
    SubSeq(pattern, 1, n) = SubSeq(pattern, Len(pattern) - n + 1, Len(pattern))

SendsPatch ==
  /\ phase = "seen" /\ SourceLeft = 0 /\ Edits > 0
  /\ targetNL' \in (IF Target = <<>> THEN {FALSE} ELSE BOOLEAN)
  /\ phase' = "drafted"
  /\ UNCHANGED <<seenLines, sourceNL, script, shift, patch, hunks, content, lineOffset>>

(* A line that is kept has its newline, or lacks it, before and after.      *)
LastOf(prefixes, i) == script[i].prefix \in prefixes /\ \A j \in (i + 1)..Len(script) : script[j].prefix \notin prefixes
KeepsItsEnd(i) ==
  script[i].prefix = " " =>
    ((LastOf({" ", "-"}, i) /\ ~sourceNL) <=> (LastOf({" ", "+"}, i) /\ ~targetNL))
IsDiff ==
  /\ \A i \in DOMAIN script : KeepsItsEnd(i)
  /\ Target # seenLines \/ (Corners /\ targetNL # sourceNL)
  /\ Target # <<>> \/ Corners

WritesPatch ==
  /\ phase = "drafted" /\ IsDiff
  /\ \E fault \in Faults : patch' = Drafted(fault)
  /\ Overlaps \/ \A i \in DOMAIN patch'.sections[1].hunks :
                   ~Overlapping(Search(patch'.sections[1].hunks[i]))
  /\ phase' = "sent"
  /\ UNCHANGED <<seenLines, sourceNL, script, targetNL, shift, hunks, content, lineOffset>>

Indents ==
  /\ phase = "sent" /\ shift < MaxShift /\ shift' = shift + 1
  /\ UNCHANGED <<phase, seenLines, sourceNL, script, targetNL, patch, hunks, content, lineOffset>>

Parse ==
  /\ phase = "sent"
  /\ LET sections == [i \in DOMAIN patch.sections |-> RepairedSection(patch.sections[i])]
     IN IF ~patch.wrapped /\ Parses(sections)
        THEN phase' = "applying" /\ hunks' = sections[1].hunks
        ELSE phase' = "refused" /\ UNCHANGED hunks
  /\ content' = Text(Shifted(seenLines, shift), sourceNL)
  /\ UNCHANGED <<seenLines, sourceNL, script, targetNL, shift, patch, lineOffset>>

AppliesHunk ==
  /\ phase = "applying" /\ hunks # <<>>
  /\ LET hunk == Head(hunks) IN
     \E text \in {AppliedText(hunk, Len(hunks) = 1)} :
        IF text = NotFound
        THEN phase' = "refused" /\ UNCHANGED <<content, lineOffset, hunks>>
        ELSE /\ content' = text /\ hunks' = Tail(hunks)
             /\ lineOffset' = lineOffset + Added(hunk) - Removed(hunk)
             /\ phase' = IF Len(hunks) = 1 THEN "done" ELSE phase
  /\ UNCHANGED <<seenLines, sourceNL, script, targetNL, shift, patch>>

PatchNext == Drafts \/ SendsPatch \/ WritesPatch \/ Indents \/ Parse \/ AppliesHunk

-----------------------------------------------------------------------------
(* A diff of what is in the file makes of it exactly what the diff says, or *)
(* is refused, although hunks are found by their text alone. A file that    *)
(* was indented as a whole meanwhile ends up with the words of the new text *)
(* in their order.                                                          *)
WordsOf(text) == LET lines == Split(text) IN [i \in DOMAIN lines |-> Strip(lines[i])]
DiffIsApplied ==
  phase = "done" => /\ WordsOf(content) = WordsOf(Text(Target, targetNL))
                    /\ shift = 0 => content = Text(Target, targetNL)
=============================================================================
