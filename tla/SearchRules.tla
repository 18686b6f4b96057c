----------------------------- MODULE SearchRules -----------------------------
(***************************************************************************)
(* The patterns of pkg/filesearch: gitignore rules and globs, compiled to  *)
(* segments and matched by scans with two pointers (internal/ignore).      *)
(* Bytes are numbers; a token is the set of bytes it matches, or Star; a   *)
(* segment is a sequence of tokens, or DoubleStar.  A raw pattern is the   *)
(* glob of one line: its segments, and whether it begins or ends with a    *)
(* slash.                                                                  *)
(***************************************************************************)
EXTENDS Integers, Sequences, FiniteSets

Star == {-1}
DoubleStar == <<{-2}>>

IsPrefixOf(s, t) == Len(s) <= Len(t) /\ s = SubSeq(t, 1, Len(s))
ButLast(s) == SubSeq(s, 1, Len(s) - 1)

-----------------------------------------------------------------------------
(* matchSegment and matchSegmentsMode: the most recent star is the only     *)
(* place a scan goes back to.  What is left at the end: the position in the *)
(* pattern, and whether a star was met.                                     *)
Scan(pattern, text, IsStar(_), Fits(_, _), prefix) ==
    LET RECURSIVE From(_, _, _, _)
        From(p, t, starAt, starText) ==
            IF t > Len(text) \/ (prefix /\ p > Len(pattern))
            THEN [ok |-> TRUE, rest |-> p, star |-> starAt > 0]
            ELSE IF p <= Len(pattern) /\ IsStar(pattern[p]) THEN From(p + 1, t, p, t)
            ELSE IF p <= Len(pattern) /\ Fits(pattern[p], text[t])
            THEN From(p + 1, t + 1, starAt, starText)
            ELSE IF starAt > 0 THEN From(starAt + 1, starText + 1, starAt, starText + 1)
            ELSE [ok |-> FALSE, rest |-> p, star |-> FALSE]
    IN From(1, 1, 0, 0)

IsStarToken(token) == token = Star
FitsByte(token, byte) == byte \in token
IsDoubleStar(segment) == segment = DoubleStar

OnlyStars(pattern, from, IsStar(_)) == \A k \in from..Len(pattern) : IsStar(pattern[k])

MatchSegment(segment, name) ==
    LET end == Scan(segment, name, IsStarToken, FitsByte, FALSE)
    IN end.ok /\ OnlyStars(segment, end.rest, IsStarToken)

MatchSegments(segments, path) ==
    LET end == Scan(segments, path, IsDoubleStar, MatchSegment, FALSE)
    IN end.ok /\ OnlyStars(segments, end.rest, IsDoubleStar)

MatchSegmentsPrefix(segments, path) ==
    LET end == Scan(segments, path, IsDoubleStar, MatchSegment, TRUE)
    IN end.ok /\ OnlyStars(segments, end.rest, IsDoubleStar)

(* Some of the pattern is left for names below, or a ** can take more. *)
MayMatchSegmentDescendant(segments, path) ==
    LET end == Scan(segments, path, IsDoubleStar, MatchSegment, FALSE)
    IN end.ok /\ (end.rest <= Len(segments) \/ end.star)

-----------------------------------------------------------------------------
Collapse(segments) ==
    LET keep == {k \in DOMAIN segments : k = 1 \/ ~IsDoubleStar(segments[k])
                                               \/ ~IsDoubleStar(segments[k - 1])}
        Nth(n) == CHOOSE k \in keep : Cardinality({j \in keep : j <= k}) = n
    IN [n \in 1..Cardinality(keep) |-> segments[Nth(n)]]

(* A trailing ** is dropped from what is matched, never from what is walked *)
(* into.                                                                    *)
CompilePattern(raw, negated) ==
    LET contents == Len(raw.body) >= 2 /\ IsDoubleStar(raw.body[Len(raw.body)])
    IN [segments |-> Collapse(IF contents THEN ButLast(raw.body) ELSE raw.body),
        traversal |-> Collapse(raw.body),
        basenameOnly |-> ~raw.anchored /\ Len(raw.body) = 1,
        contentsOnly |-> contents, dirOnly |-> raw.dir, negated |-> negated]

MatchesDirect(rule, path, isDir) ==
    /\ rule.dirOnly => isDir
    /\ IF rule.basenameOnly
       THEN IsDoubleStar(rule.segments[1]) \/ MatchSegment(rule.segments[1], path[Len(path)])
       ELSE IF rule.contentsOnly THEN MatchSegmentsPrefix(rule.segments, ButLast(path))
       ELSE MatchSegments(rule.segments, path)

MayMatchDescendant(rule, dir) ==
    ~rule.basenameOnly /\ MayMatchSegmentDescendant(rule.traversal, dir)

-----------------------------------------------------------------------------
(* What patterns mean: a cut of the text into one piece for each part, any  *)
(* piece for a star and one matching element for the others.                *)
Cuts(pattern, text, IsStar(_), Fits(_, _)) ==
    \E cut \in [0..Len(pattern) -> 0..Len(text)] :
        /\ cut[0] = 0 /\ cut[Len(pattern)] = Len(text)
        /\ \A k \in 1..Len(pattern) :
              IF IsStar(pattern[k]) THEN cut[k] >= cut[k - 1]
              ELSE cut[k] = cut[k - 1] + 1 /\ Fits(pattern[k], text[cut[k]])

MeansName(segment, name) == Cuts(segment, name, IsStarToken, FitsByte)
MeansPath(segments, path) == Cuts(segments, path, IsDoubleStar, MeansName)

Means(raw, path, isDir) ==
    /\ raw.dir => isDir
    /\ IF Len(raw.body) = 1 /\ ~raw.anchored
       THEN IsDoubleStar(raw.body[1]) \/ MeansName(raw.body[1], path[Len(path)])
       ELSE IF Len(raw.body) >= 2 /\ IsDoubleStar(raw.body[Len(raw.body)])
       THEN \E k \in 0 .. Len(path) - 1 : MeansPath(ButLast(raw.body), SubSeq(path, 1, k))
       ELSE MeansPath(raw.body, path)
=============================================================================
