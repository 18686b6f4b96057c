------------------------------ MODULE LineDiff ------------------------------
(***************************************************************************)
(* The change that cy shows after an edit or a write (internal/tools/      *)
(* diff.go): Myers' shortest edit script between the lines of the old and  *)
(* the new file, or a plain one past a distance, numbered, cut into hunks  *)
(* with context and limited to what a screen shows.  The two files grow    *)
(* line by line, so that every pair of small files is reached.  A line is  *)
(* its text and its newline; the cut of a very long line is left out.      *)
(***************************************************************************)
EXTENDS Integers, Sequences, FiniteSets

CONSTANTS SourceLines,        \* the lines a file may have
          DiffContextLines,   \* diffContextLines
          MaxDiffDistance,    \* maxMyersDiffDistance
          MaxDiffDisplay,     \* maxDiffDisplayLines
          MaxFileLines        \* bound

VARIABLES oldFile, newFile,
          change  \* the script and what is shown of it, NoChange before

diffVars == <<oldFile, newFile, change>>

NoChange == [ops |-> <<>>, hunks |-> <<>>, truncated |-> TRUE]
DiffInit == oldFile = <<>> /\ newFile = <<>> /\ change = NoChange
GrowOld == \E l \in SourceLines :
    /\ change = NoChange /\ Len(oldFile) < MaxFileLines
    /\ oldFile' = Append(oldFile, l) /\ UNCHANGED <<newFile, change>>
GrowNew == \E l \in SourceLines :
    /\ change = NoChange /\ Len(newFile) < MaxFileLines
    /\ newFile' = Append(newFile, l) /\ UNCHANGED <<oldFile, change>>

Op(kind, line) == [kind |-> kind, line |-> line]
Ops(kind, lines) == [i \in DOMAIN lines |-> Op(kind, lines[i])]

-----------------------------------------------------------------------------
(* A frontier: how far each diagonal has come. *)
Snake(old, new, diagonal, x) ==
    LET Run[n \in Nat] == IF x + n < Len(old) /\ x + n - diagonal < Len(new)
                             /\ old[x + n + 1] = new[x + n - diagonal + 1]
                          THEN Run[n + 1] ELSE x + n
    IN Run[0]
FromAbove(frontier, distance, diagonal) ==
    \/ diagonal = -distance
    \/ diagonal # distance /\ frontier[diagonal - 1] < frontier[diagonal + 1]
Diagonals(distance) == {k \in -distance..distance : (k + distance) % 2 = 0}
Explore(old, new, frontier, distance) ==
    [k \in DOMAIN frontier |->
        IF k \notin Diagonals(distance) THEN frontier[k]
        ELSE Snake(old, new, k, IF FromAbove(frontier, distance, k) THEN frontier[k + 1]
                                ELSE frontier[k - 1] + 1)]
(* trace: what the frontier is before each distance. *)
Trace(old, new) ==
    LET Before[d \in Nat] ==
          IF d = 0 THEN [k \in -(MaxDiffDistance + 1) .. MaxDiffDistance + 1 |-> 0]
          ELSE Explore(old, new, Before[d - 1], d - 1)
    IN [d \in 0..MaxDiffDistance + 1 |-> Before[d]]
Reached(trace, old, new, d) ==
    \E k \in Diagonals(d) : trace[d + 1][k] >= Len(old) /\ trace[d + 1][k] - k >= Len(new)
Distances(old, new, trace) ==
    {d \in 0..MaxDiffDistance : d <= Len(old) + Len(new) /\ Reached(trace, old, new, d)}

(* backtrackMyersDiff: from the end, the moves that led to it. *)
BacktrackMyersDiff(trace, old, new, last) ==
    LET RECURSIVE Back(_, _, _)
        Back(x, y, d) ==
          LET k == x - y
              previous == IF FromAbove(trace[d], d, k) THEN k + 1 ELSE k - 1
              px == trace[d][previous]
              py == px - previous
              down == x - px < y - py
              common == IF down THEN x - px ELSE y - py
              same == Ops("context", SubSeq(old, x - common + 1, x))
          IN IF d = 0 THEN Ops("context", SubSeq(old, 1, x))
             ELSE Back(px, py, d - 1)
                    \o (IF down THEN <<Op("add", new[y - common])>> ELSE <<Op("delete", old[x - common])>>)
                    \o same
    IN Back(Len(old), Len(new), last)

(* fallbackLineDiff: what lies between the common ends is replaced. *)
Common(most, Same(_)) ==
    CHOOSE n \in 0..most : (\A i \in 1..n : Same(i)) /\ (n = most \/ ~Same(n + 1))
Least(a, b) == IF a <= b THEN a ELSE b
FallbackLineDiff(old, new) ==
    LET prefix == Common(Least(Len(old), Len(new)), LAMBDA i : old[i] = new[i])
        suffix == Common(Least(Len(old), Len(new)) - prefix,
                         LAMBDA i : old[Len(old) + 1 - i] = new[Len(new) + 1 - i])
    IN Ops("context", SubSeq(old, 1, prefix))
         \o Ops("delete", SubSeq(old, prefix + 1, Len(old) - suffix))
         \o Ops("add", SubSeq(new, prefix + 1, Len(new) - suffix))
         \o Ops("context", SubSeq(old, Len(old) - suffix + 1, Len(old)))

LineOps(old, new) ==
    LET trace == Trace(old, new)
        reached == Distances(old, new, trace)
    IN IF reached = {} THEN FallbackLineDiff(old, new)
       ELSE BacktrackMyersDiff(trace, old, new, CHOOSE d \in reached : \A e \in reached : d <= e)

-----------------------------------------------------------------------------
Count(ops, to, kinds) == Cardinality({i \in 1..to : ops[i].kind \in kinds})
OldKinds == {"context", "delete"}
NewKinds == {"context", "add"}

(* numberDiffOps: the line of each file that an op stands at. *)
NumberDiffOps(raw) ==
    [i \in DOMAIN raw |->
        [kind |-> raw[i].kind, line |-> raw[i].line,
         oldLine |-> IF raw[i].kind = "add" THEN 0 ELSE Count(raw, i, OldKinds),
         newLine |-> IF raw[i].kind = "delete" THEN 0 ELSE Count(raw, i, NewKinds)]]

(* buildDiffHunks: changes that share their context share a hunk. *)
ChangeAt(ops) == {i \in DOMAIN ops : ops[i].kind # "context"}
FirstsOfHunks(ops) ==
    {i \in ChangeAt(ops) : \A j \in ChangeAt(ops) : j < i => i - j - 1 > DiffContextLines * 2}
Most(a, b) == IF a >= b THEN a ELSE b

(* makeDiffHunk: a side without lines starts at the line before. *)
HunkStartFromZero(before, lines) == before  \* mutant: lines are counted from zero
HunkStart(before, lines) == IF lines = 0 THEN before ELSE before + 1
MakeDiffHunk(ops, start, end) ==
    LET oldLines == Count(ops, end, OldKinds) - Count(ops, start, OldKinds)
        newLines == Count(ops, end, NewKinds) - Count(ops, start, NewKinds)
    IN [oldStart |-> HunkStart(Count(ops, start, OldKinds), oldLines), oldLines |-> oldLines,
        newStart |-> HunkStart(Count(ops, start, NewKinds), newLines), newLines |-> newLines,
        lines |-> SubSeq(ops, start + 1, end)]
BuildDiffHunks(ops) ==
    LET firsts == FirstsOfHunks(ops)
        Ordered[n \in 1..Cardinality(firsts)] ==
            CHOOSE i \in firsts : Cardinality({j \in firsts : j < i}) = n - 1
        LastOf(first) == CHOOSE i \in ChangeAt(ops) :
                            /\ i >= first
                            /\ \A f \in firsts : f > first => i < f
                            /\ \A j \in ChangeAt(ops) : j > i => \E f \in firsts : first < f /\ f <= j
    IN [n \in 1..Cardinality(firsts) |->
          MakeDiffHunk(ops, Most(0, Ordered[n] - 1 - DiffContextLines),
                       Least(Len(ops), LastOf(Ordered[n]) + DiffContextLines))]

(* limitDiffHunks *)
LimitDiffHunks(hunks) ==
    LET Shown[n \in Nat] == IF n = 0 THEN 0 ELSE Shown[n - 1] + Len(hunks[n].lines)
        kept == {n \in DOMAIN hunks : Shown[n - 1] < MaxDiffDisplay}
    IN [n \in kept |->
           [hunks[n] EXCEPT !.lines = SubSeq(@, 1, Least(Len(@), MaxDiffDisplay - Shown[n - 1]))]]
Displayed(hunks) ==
    LET Shown[n \in Nat] == IF n = 0 THEN 0 ELSE Shown[n - 1] + Len(hunks[n].lines) IN Shown[Len(hunks)]

(* buildFileChangeMeta *)
BuildFileChangeMeta ==
    /\ change = NoChange
    /\ LET ops == NumberDiffOps(LineOps(oldFile, newFile))
           hunks == BuildDiffHunks(ops)
       IN change' = [ops |-> ops, hunks |-> LimitDiffHunks(hunks),
                     truncated |-> Displayed(hunks) > MaxDiffDisplay]
    /\ UNCHANGED <<oldFile, newFile>>

DiffNext == GrowOld \/ GrowNew \/ BuildFileChangeMeta

-----------------------------------------------------------------------------
LinesOf(ops, kinds) ==
    LET kept == SelectSeq(ops, LAMBDA op : op.kind \in kinds)
    IN [i \in DOMAIN kept |-> kept[i].line]

(* Whoever applies the hunks to the old file, each at the line it names, gets
   the new one, and a line's numbers are where it stands in either
   (diff.go:242-335); a change that was cut says so. *)
PatchApplies ==
    LET h == change.hunks
        Before(n) == SubSeq(oldFile, (IF n = 1 THEN 1 ELSE h[n - 1].oldStart + h[n - 1].oldLines
                                         + (IF h[n - 1].oldLines = 0 THEN 1 ELSE 0)),
                            IF h[n].oldLines = 0 THEN h[n].oldStart ELSE h[n].oldStart - 1)
        Patched[n \in 0..Len(h)] ==
            IF n = 0 THEN <<>> ELSE Patched[n - 1] \o Before(n) \o LinesOf(h[n].lines, NewKinds)
        rest == IF Len(h) = 0 THEN oldFile
                ELSE SubSeq(oldFile, h[Len(h)].oldStart + h[Len(h)].oldLines
                                       + (IF h[Len(h)].oldLines = 0 THEN 1 ELSE 0), Len(oldFile))
    IN /\ change.truncated \/ Patched[Len(h)] \o rest = newFile
       /\ \A n \in DOMAIN h : \A i \in DOMAIN h[n].lines :
             LET shown == h[n].lines[i] IN
             /\ shown.oldLine > 0 => oldFile[shown.oldLine] = shown.line
             /\ shown.newLine > 0 => newFile[shown.newLine] = shown.line
=============================================================================
