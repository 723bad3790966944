------------------------------ MODULE ClaudeMd ------------------------------
(***************************************************************************)
(* The edits of a CLAUDE.md that every punt tool makes (internal/claudemd):*)
(* adding an @-import line at the end and removing it, blind to lines in   *)
(* code blocks.  A line is "text", an import, an indented line or a fence, *)
(* or "glued", a line of the user's run together with an import; "ended"   *)
(* says that the last line has a terminator.                               *)
(***************************************************************************)
EXTENDS Naturals, Sequences, FiniteSets, SequencesExt

File(ls, e) == [lines |-> ls, ended |-> e]

\* parseFence: marker and run length, run 0 for every other line.
parseFence(l) ==
    CASE l = "tick3"  -> [marker |-> "tick", run |-> 3]
      [] l = "tick4" -> [marker |-> "tick", run |-> 4]
      [] l = "tilde3"  -> [marker |-> "tilde", run |-> 3]
      [] OTHER      -> [marker |-> "", run |-> 0]

isIndented(l) == l = "indented"

\* A run of N closes only on the same marker, at least as long.
Closes(opener, l) ==
    /\ parseFence(l).run >= parseFence(opener).run
    /\ parseFence(l).marker = parseFence(opener).marker

\* One line of the scan: "open" is the line that opened the block, or 0.
ScanLine(lines, s, i) ==
    CASE s.open = 0 /\ parseFence(lines[i]).run > 0 -> [open |-> i, ranges |-> s.ranges]
      [] s.open > 0 /\ Closes(lines[s.open], lines[i]) ->
           [open |-> 0, ranges |-> s.ranges \cup {<<s.open, i>>}]
      [] OTHER -> s

\* The <<open, close>> pairs of matched blocks.  Blocks do not nest, and an
\* opener that is never closed delimits nothing.
fencedRanges(lines) ==
    LET after[i \in 0..Len(lines)] ==
          IF i = 0 THEN [open |-> 0, ranges |-> {}] ELSE ScanLine(lines, after[i - 1], i)
    IN  after[Len(lines)].ranges

\* The lines outside every block; a block's opener is outside, its closer not.
scanTopLevel(lines) ==
    {i \in DOMAIN lines :
        /\ ~isIndented(lines[i])
        /\ \A r \in fencedRanges(lines) : ~(r[1] < i /\ i <= r[2])}

present(lines, import) == \E i \in scanTopLevel(lines) : lines[i] = import

\* The lines that are not in drop.
Without(lines, drop) ==
    LET kept[i \in 0..Len(lines)] ==
          IF i = 0 THEN <<>>
          ELSE IF i \in drop THEN kept[i - 1] ELSE Append(kept[i - 1], lines[i])
    IN  kept[Len(lines)]

\* Mutant: matches in code blocks go as well.
removeEverywhere(f, import) ==
    LET drop == {i \in DOMAIN f.lines : f.lines[i] = import}
    IN  File(Without(f.lines, drop), f.ended \/ Len(f.lines) \in drop)

\* The file without its top-level matches.
remove(f, import) ==
    LET drop == {i \in scanTopLevel(f.lines) : f.lines[i] = import}
    IN  File(Without(f.lines, drop), f.ended \/ Len(f.lines) \in drop)

\* What follows a last line without a terminator continues that line, unless a
\* separator comes first.
joined(f, import, sep) ==
    File(IF f.ended \/ sep THEN Append(f.lines, import) ELSE Append(Front(f.lines), "glued"), TRUE)

\* The separator is the terminator that the last line lacks.
appended(f, import) == joined(f, import, ~f.ended)
=============================================================================
