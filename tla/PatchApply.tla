------------------------------ MODULE PatchApply ------------------------------
(***************************************************************************)
(* How a patch of the model is read and applied to a file                  *)
(* (internal/tools/patch.go): a diff between two versions of the file,     *)
(* written in one of two formats, perhaps against a file that has gained a *)
(* line since, and perhaps with the spaces of its lines wrong.             *)
(***************************************************************************)
EXTENDS Integers, Sequences, SequencesExt, FiniteSets, FiniteSetsExt

CONSTANTS Texts,   \* what a line may say
          Blank,   \* the text of an empty line
          Rule,    \* a text that begins as the two lines of a file's header do
          MaxFile, \* bound: lines of the file
          MaxDiffCuts \* bound: changes of a patch

ASSUME PatchAssumption ==
    Blank \in Texts /\ Rule \in Texts /\ Blank # Rule /\ MaxFile \in Nat /\ MaxDiffCuts \in Nat

VARIABLES
  diff,     \* the file the patch was made for, its changes and how it is written
  patching  \* the file as it is, the hunks to come, `pos` and `delta` of applyHunks

patchVars == <<diff, patching>>

(* A line: its text and the spaces around it: none, at its end, on both sides. *)
Slips == 0..2
LineOf(text, slip) == [text |-> text, slip |-> slip]
FileLines == {LineOf(t, 0) : t \in Texts} \cup {LineOf(Rule, 2)}

(* findBlock compares exactly, without the spaces at the end, and without any. *)
Tiers == 0..2
Alike(l, m, tier) ==
    /\ l.text = m.text
    /\ \/ l.slip = m.slip
       \/ tier = 1 /\ {l.slip, m.slip} \subseteq {0, 1}
       \/ tier = 2

-------------------------------------------------------------------------------
(* The patch as a diff writes it. *)

(* Lines from+1 to upto become others; a change takes a line, adds one or both. *)
Cuts(file) == {cut \in [from : 0..Len(file), upto : 0..Len(file),
                        ins : {<<>>, <<LineOf(Rule, 0)>>}] :
                 cut.upto = cut.from + 1 \/ (cut.from = cut.upto /\ cut.ins # <<>>)}

First(cut, context) == Max({cut.from - context, 0})
EndOf(cut, context, file) == Min({cut.upto + context, Len(file)})

Marked(mark, lines) == [i \in 1..Len(lines) |-> [mark |-> mark, line |-> lines[i]]]
OneMark(mark, line) == <<[mark |-> mark, line |-> line]>>

Slipped(lines, slip) == [i \in 1..Len(lines) |-> IF slip = 0 THEN lines[i]
                                                  ELSE LineOf(lines[i].text, slip)]

(* The lines of a hunk: context, what goes, what comes, context. *)
Body(d, cut) ==
    Marked(" ", Slipped(SubSeq(d.file, First(cut, d.context) + 1, cut.from), d.slip))
    \o Marked("-", Slipped(SubSeq(d.file, cut.from + 1, cut.upto), d.slip))
    \o Marked("+", cut.ins)
    \o Marked(" ", Slipped(SubSeq(d.file, cut.upto + 1, EndOf(cut, d.context, d.file)), d.slip))

(* "@@ -l,s +l,s @@" counts from one; for no lines it names the one before. *)
Numbered(d, cut) ==
    First(cut, d.context) + (IF First(cut, d.context) = EndOf(cut, d.context, d.file) THEN 0 ELSE 1)

(* "@@ line" in the other format may name the line before the hunk. *)
AnchorOf(d, cut) ==
    LET first == First(cut, d.context)
    IN  IF d.anchored /\ first > 0 /\ d.file[first].text # Blank THEN <<d.file[first]>> ELSE <<>>

HunkText(d, cut) ==
    <<[mark |-> "@@", line |-> LineOf(Blank, 0), start |-> Numbered(d, cut), anchor |-> AnchorOf(d, cut)]>>
    \o Body(d, cut)

(* The header of a file is two lines; the text ends with an empty one. *)
Text(d) ==
    OneMark("-", LineOf(Rule, 0)) \o OneMark("+", LineOf(Rule, 0))
    \o FlattenSeq([i \in 1..Len(d.cuts) |-> HunkText(d, d.cuts[i])])
    \o OneMark("", LineOf(Blank, 0))

-------------------------------------------------------------------------------
(* parseUnified, parseBeginPatch. *)

Hunk(anchor, hint) == [anchor |-> anchor, hint |-> hint, old |-> <<>>, new |-> <<>>]
Reader == [files |-> 0, hunks |-> <<>>, open |-> FALSE]
AddLine(reader, key, line) ==
    [reader EXCEPT !.hunks[Len(reader.hunks)][key] = Append(@, line)]
AddContext(reader, line) == AddLine(AddLine(reader, "old", line), "new", line)

Header(text, i) ==
    /\ i < Len(text)
    /\ text[i].mark = "-" /\ text[i].line.text = Rule /\ text[i].line.slip = 0
    /\ text[i + 1].mark = "+" /\ text[i + 1].line.text = Rule /\ text[i + 1].line.slip = 0

(* An empty line is context that lost its space, but for the last. *)
ReadBody(reader, text, i) ==
    CASE text[i].mark = "" /\ i = Len(text) -> reader
      [] text[i].mark = "-" -> AddLine(reader, "old", text[i].line)
      [] text[i].mark = "+" -> AddLine(reader, "new", text[i].line)
      [] OTHER -> AddContext(reader, text[i].line)

ReadUnified(text) ==
    LET Read(reader, i) ==
          CASE Header(text, i) -> [reader EXCEPT !.files = @ + 1, !.open = FALSE]
            [] i > 1 /\ Header(text, i - 1) -> reader
            [] text[i].mark = "@@" ->
                 [reader EXCEPT !.open = TRUE,
                    !.hunks = Append(@, Hunk(<<>>, Max({text[i].start - 1, 0})))]
            [] reader.open -> ReadBody(reader, text, i)
            [] OTHER -> reader
    IN  FoldLeft(Read, Reader, [i \in 1..Len(text) |-> i])

(* The header is a line of its own there, and so is the end. *)
ReadBeginPatch(text) ==
    LET Read(reader, i) ==
          IF text[i].mark = "@@"
          THEN [reader EXCEPT !.hunks = Append(@, Hunk(text[i].anchor, -1))]
          ELSE ReadBody(reader, text, i)
    IN  FoldLeft(Read, [Reader EXCEPT !.files = 1], [i \in 1..Len(text) - 2 |-> i + 2])

ReadPatch(d) == IF d.unified THEN ReadUnified(Text(d)) ELSE ReadBeginPatch(Text(d))

-------------------------------------------------------------------------------
(* applyHunks. *)

Places(lines, block, from, tier) ==
    {i \in from..(Len(lines) - Len(block)) :
        \A j \in 1..Len(block) : Alike(lines[i + j], block[j], tier)}

Distance(i, j) == IF i < j THEN j - i ELSE i - j
Nearest(places, expected) ==
    IF expected < 0 THEN Min(places)
    ELSE Min({i \in places : \A j \in places : Distance(i, expected) <= Distance(j, expected)})

(* Exactly first; from where the last hunk ended, and then from the start. *)
FindFrom(lines, block, from, expected) ==
    LET tiers == {t \in Tiers : Places(lines, block, from, t) # {}}
    IN  IF tiers = {} THEN -1 ELSE Nearest(Places(lines, block, from, Min(tiers)), expected)

FindBlock(lines, block, from, expected) ==
    LET at == FindFrom(lines, block, from, expected)
    IN  IF at >= 0 THEN at ELSE FindFrom(lines, block, 0, expected)

FindLine(lines, anchor, from) ==
    LET at == {i \in from..(Len(lines) - 1) : lines[i + 1].text = anchor.text}
    IN  IF at = {} THEN -1 ELSE Min(at)

(* Where the hunk goes, or -1. *)
PlaceOf(p, h) ==
    LET from == IF h.anchor = <<>> THEN p.pos ELSE FindLine(p.lines, h.anchor[1], p.pos)
        hinted == h.hint + p.delta
    IN  CASE from < 0 -> -1
          [] from >= 0 /\ h.old # <<>> ->
               FindBlock(p.lines, h.old, from, IF h.hint >= 0 THEN hinted ELSE -1)
          [] from >= 0 /\ h.old = <<>> /\ h.hint >= 0 -> Min({Max({hinted, 0}), Len(p.lines)})
          [] from >= 0 /\ h.old = <<>> /\ h.hint < 0 /\ h.anchor # <<>> -> from + 1
          [] OTHER -> Len(p.lines)

-------------------------------------------------------------------------------
(* A diff of a file that may have gained a line elsewhere since. *)
CutsApart(d) == \A i \in 1..(Len(d.cuts) - 1) :
                EndOf(d.cuts[i], d.context, d.file) + (IF d.anchored THEN 1 ELSE 0)
                    <= First(d.cuts[i + 1], d.context)
                /\ d.cuts[i].upto < d.cuts[i + 1].from
Outside(d, place) == \A i \in 1..Len(d.cuts) :
    LET first == First(d.cuts[i], d.context)
        final == EndOf(d.cuts[i], d.context, d.file)
    IN  (place <= first \/ place >= final) /\ (first = final => place # first)

Gained(lines, place) == SubSeq(lines, 1, place) \o <<LineOf(Blank, 2)>> \o SubSeq(lines, place + 1, Len(lines))
PresentFile(d) == IF d.gained < 0 THEN d.file ELSE Gained(d.file, d.gained)

NoDiff == [file |-> <<>>, cuts |-> <<>>, context |-> 0, unified |-> TRUE,
           anchored |-> FALSE, slip |-> 0, gained |-> -1]

PatchInit ==
    /\ diff = NoDiff
    /\ patching = [lines |-> <<>>, files |-> 0, todo |-> <<>>, pos |-> 0, delta |-> 0, at |-> "idle"]

(* The model calls apply_patch; it writes one way or the other, and errs in one *)
(* thing at most.                                                               *)
CallPatch ==
    /\ patching.at = "idle"
    /\ \E file \in BoundedSeq(FileLines, MaxFile) :
       \E cuts \in BoundedSeq(Cuts(file), MaxDiffCuts) \ {<<>>}, context \in 0..1,
          unified \in BOOLEAN, slip \in Slips, gained \in -1..Len(file) :
         /\ diff' = [file |-> file, cuts |-> cuts, context |-> context, unified |-> unified,
                     anchored |-> ~unified /\ context = 0, slip |-> slip, gained |-> gained]
         /\ CutsApart(diff') /\ (gained >= 0 => Outside(diff', gained))
         /\ (slip > 0 => gained < 0 /\ Len(cuts) = 1 /\ context = 1)
         /\ (gained >= 0 => Len(cuts) = 2 /\ context = 1)
    /\ patching' = [patching EXCEPT !.lines = PresentFile(diff'), !.at = "patch"]

Parse ==
    /\ patching.at = "patch"
    /\ LET reader == ReadPatch(diff)
       IN  patching' = [patching EXCEPT !.files = reader.files, !.todo = reader.hunks,
                                        !.at = "hunks"]
    /\ UNCHANGED diff

ApplyHunk ==
    /\ patching.at = "hunks" /\ patching.todo # <<>>
    /\ LET h == Head(patching.todo)
           at == PlaceOf(patching, h)
       IN  patching' =
             IF at < 0 THEN [patching EXCEPT !.at = "failed"]
             ELSE [patching EXCEPT
                    !.lines = SubSeq(@, 1, at) \o h.new \o SubSeq(@, at + Len(h.old) + 1, Len(@)),
                    !.todo = Tail(@),
                    !.delta = @ + Len(h.new) - Len(h.old),
                    !.pos = at + Len(h.new)]
    /\ UNCHANGED diff

PatchNext == CallPatch \/ Parse \/ ApplyHunk
PatchSpec == PatchInit /\ [][PatchNext]_patchVars

PatchTypeOK ==
    /\ diff.file \in BoundedSeq(FileLines, MaxFile) /\ diff.context \in 0..1 /\ diff.slip \in Slips
    /\ patching.at \in {"idle", "patch", "hunks", "failed"}
    /\ patching.pos \in 0..Len(patching.lines)
    /\ \A i \in 1..Len(patching.lines) : patching.lines[i] \in [text : Texts, slip : Slips]

-------------------------------------------------------------------------------
(* What the patch means. *)

ChangedBy(lines, cut) == SubSeq(lines, 1, cut.from) \o cut.ins \o SubSeq(lines, cut.upto + 1, Len(lines))
Shifted(d, cut) == IF d.gained >= 0 /\ d.gained <= First(cut, d.context)
                   THEN [cut EXCEPT !.from = @ + 1, !.upto = @ + 1] ELSE cut
(* The last change first, so that the others keep their places. *)
Meant(d) == FoldRight(LAMBDA cut, lines : ChangedBy(lines, Shifted(d, cut)), d.cuts, PresentFile(d))

(* A removed line and an added one that together look like a file's header. *)
Mistakable(d) ==
    d.unified /\ \E i \in 3..Len(Text(d)) : Header(Text(d), i)

(* What the hunk names is in the file once, however loosely it is compared if *)
(* the patch's spaces are wrong.                                             *)
OneAnchor(d, h) ==
    h.anchor # <<>> => Cardinality({i \in 1..Len(PresentFile(d)) : PresentFile(d)[i].text = h.anchor[1].text}) = 1
OnePlace(d, h) ==
    IF h.old = <<>> THEN h.anchor # <<>>
    ELSE LET tier == IF d.slip > 0 THEN 2 ELSE 0
         IN  Cardinality(Places(PresentFile(d), h.old, 0, tier)) = 1
Unambiguous(d) ==
    LET hunks == ReadPatch(d).hunks
    IN  \A i \in 1..Len(hunks) : OneAnchor(d, hunks[i]) /\ OnePlace(d, hunks[i])

(* The numbers of the hunks are those of the file as it is. *)
Numbers(d) ==
    /\ d.unified /\ d.gained < 0 /\ d.slip = 0
    /\ \A i \in 1..Len(d.cuts) : First(d.cuts[i], d.context) < EndOf(d.cuts[i], d.context, d.file)

TextsOf(lines) == [i \in 1..Len(lines) |-> lines[i].text]

(* A patch does what its diff meant, line for line, wherever its lines can be *)
(* found in one place only or its numbers say which: the hunks after a first  *)
(* count with what it added, a line the file gained elsewhere moves them, and *)
(* spaces the model got wrong are only forgiven where nothing else fits.      *)
PatchLands ==
    patching.at = "failed" \/ (patching.at = "hunks" /\ patching.todo = <<>>) =>
        (~Mistakable(diff) /\ (Unambiguous(diff) \/ Numbers(diff)) =>
            /\ patching.at # "failed" /\ patching.files = 1
            /\ TextsOf(patching.lines) = TextsOf(Meant(diff))
            /\ diff.slip = 0 => patching.lines = Meant(diff))
===============================================================================
