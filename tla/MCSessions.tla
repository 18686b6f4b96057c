---------------------------- MODULE MCSessions ----------------------------
(***************************************************************************)
(* What a session of cy is made of, for TLC: its journal, its terminal and *)
(* what that shows, its jobs, its file search, its file tools and the      *)
(* change they show.  In each behaviour one of them moves and the others   *)
(* stay as they begin.                                                     *)
(***************************************************************************)
EXTENDS MCCySession, CyTerminal, Jobs, FileWalk, Braces, FileTools, LineDiff,
        InlineRenderer

VARIABLE part  \* what moves

parts == <<part, vars, tvars, jobVars, walkVars, typed, fileVars, diffVars, screenVars>>

(* The tree: names are sequences of bytes; a.,  whose dot sorts before the  *)
(* slash, comes before what is in a, and b is a directory of a and one of   *)
(* the root, walked after a was left.                                       *)
Dot == 1
SlashByte == 2
A == 3
B == 4
a == <<A>>
b == <<B>>
ab == <<A, B>>
aDot == <<A, Dot>>
git == <<Dot>>
info == <<Dot, A>>
TreeDirs == {<<>>, <<a>>, <<a, b>>, <<b>>, <<git>>, <<git, info>>}
TreeFiles == {<<aDot>>, <<a, a>>, <<a, b, a>>, <<a, b, ab>>, <<b, a>>, <<b, ab>>, <<git, a>>}
TreeLinks == {<<ab>>}
TreeStarts == {<<>>, <<a>>, <<a, b>>, <<b>>}
Below == UNION {[1..n -> {a, b, ab}] : n \in 1..3}

Raw(body, anchored, dir) == [body |-> body, anchored |-> anchored, dir |-> dir]
Pattern(body) == Raw(body, FALSE, FALSE)
Rule(raw, negated) == [raw |-> raw, negated |-> negated]
LitA == <<{A}>>
LitB == <<{B}>>
Whole == <<Star>>

GitRules ==
    {<<>>} \cup {<<Rule(raw, FALSE)>> : raw \in
        {Pattern(<<LitA>>), Raw(<<LitB>>, FALSE, TRUE), Raw(<<LitA>>, TRUE, FALSE),
         Pattern(<<LitA, DoubleStar>>), Pattern(<<DoubleStar, LitA>>), Pattern(<<Whole>>)}}
IgnoreRules ==
    {<<>>, <<Rule(Raw(<<LitB>>, FALSE, TRUE), FALSE)>>,
     <<Rule(Pattern(<<Whole>>), FALSE), Rule(Pattern(<<LitA>>), TRUE)>>}
RgRules == {<<>>, <<Rule(Pattern(<<LitA>>), TRUE)>>, <<Rule(Pattern(<<LitB>>), TRUE)>>}
DeepRules == {<<>>, <<Rule(Pattern(<<<<{A}, Star>>>>), FALSE)>>}

(* Ignore files: of one line for each rule, missing, a link, or bad in each *)
(* of the ways a file is refused.                                           *)
RuleLine(list) == [bytes |-> 4, end |-> "lf", rules |-> list, bad |-> FALSE]
IgnoreFile(list) ==
    [kind |-> IF list = <<>> THEN "missing" ELSE "regular",
     lines |-> [k \in DOMAIN list |-> RuleLine(<<list[k]>>)]]
BadLines ==
    {[RuleLine(<<>>) EXCEPT !.bad = TRUE], [RuleLine(<<>>) EXCEPT !.end = "crlf"],
     RuleLine([k \in 1..4 |-> Rule(Pattern(<<LitA>>), FALSE)])}
IgnoreLink == [IgnoreFile(<<Rule(Pattern(<<Whole>>), FALSE)>>) EXCEPT !.kind = "link"]

NoIgnoreFiles == [n \in {"exclude"} \cup Sources |-> [d \in TreeDirs |-> IgnoreFile(<<>>)]]
RuledTrees ==
    {[NoIgnoreFiles EXCEPT !["git"][<<>>] = IgnoreFile(r1), !["ignore"][<<a>>] = IgnoreFile(r2),
                           !["rg"][<<>>] = IgnoreFile(r3), !["git"][<<a, b>>] = IgnoreFile(r4)] :
     r1 \in GitRules, r2 \in IgnoreRules, r3 \in RgRules, r4 \in DeepRules}
ExcludingTrees ==
    {[NoIgnoreFiles EXCEPT !["exclude"][<<>>] = IgnoreFile(r0), !["git"][<<>>] = IgnoreFile(r1),
                           !["ignore"][<<b>>] = IgnoreLink] :
     r0 \in IgnoreRules, r1 \in RgRules}
BadTrees ==
    {[NoIgnoreFiles EXCEPT !["git"][<<>>] = IgnoreFile(r1),
                           ![n][d] = [kind |-> "regular", lines |-> <<line>>]] :
     r1 \in {r \in GitRules : Len(r) < 2}, line \in BadLines,
     <<n, d>> \in {<<"exclude", <<>>>>, <<"ignore", <<a>>>>, <<"git", <<a, b>>>>, <<"rg", <<b>>>>}}
TreesOfRules == RuledTrees \cup ExcludingTrees \cup BadTrees

Glob(include, dirOnly, raws) == [include |-> include, dirOnly |-> dirOnly, raws |-> raws]
Include(body) == Glob(TRUE, FALSE, <<Rule(Pattern(body), FALSE)>>)
QueryGlobs ==
    {Include(<<LitA>>), Include(<<Whole>>), Include(<<LitA, LitB, Whole>>),
     Include(<<LitA, DoubleStar>>), Include(<<DoubleStar, <<Star, {B}>>>>),
     Include(<<DoubleStar, LitB, <<{A}, Star>>>>),
     Glob(FALSE, FALSE, <<Rule(Pattern(<<<<{A}, Star>>>>), FALSE)>>),
     Glob(FALSE, FALSE, <<Rule(Pattern(<<LitA, LitB>>), FALSE)>>),
     Glob(FALSE, TRUE, <<Rule(Pattern(<<LitB>>), FALSE)>>),
     Glob(TRUE, FALSE, <<Rule(Pattern(<<LitB>>), FALSE),
                         Rule(Pattern(<<LitA, DoubleStar, LitA>>), FALSE)>>)}

(* Globs that begin with nothing, with an open group in a group, and with a  *)
(* group of two, of three and of two nested ones ahead of what is typed.    *)
GlobBeginnings ==
    {<<"{", "x">>, <<"{", "{", "x">>, <<"{", "x", ",", "x", "}", "{", "x">>,
     <<"{", "x", ",", "{", "x", ",", "x", ",", "x">>}

(* Files whose lines fit a page or do not.                                  *)
FirstFiles == UNION {[1..n -> {1, 4}] : n \in 0..4}
NewFiles == {<<1>>, <<4, 1, 1>>}

(* Blocks of one row and of two.                                            *)
SomeBodies == {<<"x">>, <<"y", "x">>}

Parts == {"session", "terminal", "jobs", "walk", "braces", "files", "diff", "screen"}

PartsInit ==
    /\ part \in Parts
    /\ Init /\ JobsInit /\ DiffInit
    /\ TerminalInit
    /\ part # "terminal" => /\ agent.session = CHOOSE s \in Sessions : TRUE
                            /\ agent.model = CHOOSE m \in Models : TRUE
                            /\ \A s \in Sessions : s = agent.session \/ dirs[s] = Absent
    /\ BracesInit /\ (part # "braces" => typed = CHOOSE s \in Beginnings : TRUE)
    /\ FileInit /\ (part # "files" => fileLines = Missing)
    /\ ScreenInit /\ (part # "screen" => view.height = CHOOSE h \in Heights : TRUE)
    /\ part # "screen" => Len(screen.above) = 1
    /\ IF part = "walk" THEN WalkInit
       ELSE /\ ignoreFiles = CHOOSE files \in IgnoreTrees : TRUE
            /\ glob = CHOOSE g \in Globs : TRUE
            /\ start = <<>>
            /\ WalkInit

Kept(which, v) == IF part = which THEN TRUE ELSE UNCHANGED v
OtherParts ==
    /\ UNCHANGED part
    /\ Kept("session", vars) /\ Kept("terminal", tvars) /\ Kept("jobs", jobVars)
    /\ Kept("walk", walkVars) /\ Kept("braces", typed) /\ Kept("files", fileVars)
    /\ Kept("diff", diffVars) /\ Kept("screen", screenVars)

PartsNext ==
    \/ part = "session" /\ Next /\ OtherParts
    \/ part = "terminal" /\ TerminalNext /\ OtherParts
    \/ part = "jobs" /\ JobsNext /\ OtherParts
    \/ part = "walk" /\ WalkNext /\ OtherParts
    \/ part = "braces" /\ BracesNext /\ OtherParts
    \/ part = "files" /\ FileNext /\ OtherParts
    \/ part = "diff" /\ DiffNext /\ OtherParts
    \/ part = "screen" /\ ScreenNext /\ OtherParts

PartsSpec == PartsInit /\ [][PartsNext]_parts
=============================================================================
