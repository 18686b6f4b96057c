------------------------------- MODULE Braces -------------------------------
(***************************************************************************)
(* The braces of a glob (pkg/filesearch/pattern.go): {a,b} stands for its  *)
(* alternatives, groups nest, and a pair without a comma is left as it is. *)
(* A glob is typed one character after the other; escapes and brackets,    *)
(* whose characters are skipped, are left out.                             *)
(***************************************************************************)
EXTENDS Integers, Sequences, FiniteSets

LOCAL INSTANCE SequencesExt

CONSTANTS
    MaxBraceExpansions,
    Beginnings,         \* how a glob may begin
    MaxTyped            \* bound: characters typed after the beginning

VARIABLE typed          \* the glob

GlobCharacters == {"{", ",", "}", "x"}
ButLastOf(s) == SubSeq(s, 1, Len(s) - 1)

(* firstBraceGroup: the first group with alternatives, or a group without   *)
(* any that is transparent to the ones in it.                               *)
NoGroup == <<0, 0>>
BadBraces == <<-1, -1>>

FirstBraceGroup(s) ==
    LET RECURSIVE From(_, _)
        From(i, stack) ==
            IF i > Len(s) THEN IF stack = <<>> THEN NoGroup ELSE BadBraces
            ELSE LET top == stack[Len(stack)]
                     rest == ButLastOf(stack)
                     group == IF top.comma THEN <<top.open, i>> ELSE top.nested
                 IN CASE s[i] = "{" ->
                            From(i + 1, Append(stack, [open |-> i, comma |-> FALSE, nested |-> NoGroup]))
                      [] s[i] = "," /\ stack # <<>> ->
                            From(i + 1, Append(rest, [top EXCEPT !.comma = TRUE]))
                      [] s[i] = "}" ->
                            IF stack = <<>> THEN BadBraces
                            ELSE IF rest = <<>>
                            THEN IF group = NoGroup THEN From(i + 1, <<>>) ELSE group
                            ELSE From(i + 1, [rest EXCEPT ![Len(rest)].nested =
                                                 IF @ = NoGroup THEN group ELSE @])
                      [] OTHER -> From(i + 1, stack)
    IN From(1, <<>>)

BraceDepth(s, i) == Cardinality({k \in 1..i : s[k] = "{"}) - Cardinality({k \in 1..i : s[k] = "}"})

(* Mutant: an alternative ends at any comma. *)
AlternativeEndsAtCommas(s, group) == {k \in group[1] + 1 .. group[2] - 1 : s[k] = ","}

(* splitBraceAlternatives: where alternatives end. *)
AlternativeEnds(s, group) ==
    {k \in group[1] + 1 .. group[2] - 1 : s[k] = "," /\ BraceDepth(s, k) = BraceDepth(s, group[1])}

(* The positions of a set, in order. *)
InOrder(s, set) == SelectSeq([k \in DOMAIN s |-> k], LAMBDA k : k \in set)

Alternatives(s, group) ==
    LET ends == InOrder(s, AlternativeEnds(s, group) \cup {group[1], group[2]})
    IN [n \in 1 .. Len(ends) - 1 |-> SubSeq(s, ends[n] + 1, ends[n + 1] - 1)]

BadPattern == <<<<"bad">>>>

(* expandBraces: pass after pass over the results, until none has a group. *)
ExpandBraces(pattern) ==
    LET Group(s) == FirstBraceGroup(s)
        RECURSIVE Pass(_, _, _), Loop(_)
        Pass(results, k, next) ==
            IF k > Len(results) THEN next
            ELSE LET s == results[k]
                     g == Group(s)
                     alternatives == Alternatives(s, g)
                     made == [n \in DOMAIN alternatives |->
                                 SubSeq(s, 1, g[1] - 1) \o alternatives[n]
                                                        \o SubSeq(s, g[2] + 1, Len(s))]
                 IN CASE g = BadBraces -> BadPattern
                      [] g = NoGroup -> Pass(results, k + 1, Append(next, s))
                      [] OTHER ->
                            IF \/ <<>> \in {alternatives[n] : n \in DOMAIN alternatives}
                               \/ Len(next \o made) > MaxBraceExpansions
                            THEN BadPattern ELSE Pass(results, k + 1, next \o made)
        Loop(results) ==
            IF \A k \in DOMAIN results : Group(results[k]) = NoGroup THEN results
            ELSE LET next == Pass(results, 1, <<>>)
                 IN IF next = BadPattern THEN next ELSE Loop(next)
    IN Loop(<<pattern>>)

-----------------------------------------------------------------------------
(* What braces mean: in each group with commas of its own, one alternative  *)
(* is chosen; the characters of the others and the group's own go.          *)
BracesPair(s) == BraceDepth(s, Len(s)) = 0 /\ \A i \in 1..Len(s) : BraceDepth(s, i) >= 0

OwnCommas(s, g) == {k \in g[1]..g[2] : s[k] = "," /\ BraceDepth(s, k) = BraceDepth(s, g[1])}
BraceGroups(s) ==
    {g \in (1..Len(s)) \X (1..Len(s)) :
        /\ g[1] < g[2] /\ s[g[1]] = "{" /\ s[g[2]] = "}" /\ OwnCommas(s, g) # {}
        /\ BraceDepth(s, g[2]) = BraceDepth(s, g[1]) - 1
        /\ \A k \in g[1] .. g[2] - 1 : BraceDepth(s, k) >= BraceDepth(s, g[1])}

BraceChoices(s) ==
    {f \in [BraceGroups(s) -> 1..Len(s)] : \A g \in BraceGroups(s) : f[g] \in {g[1]} \cup OwnCommas(s, g)}
KeptBy(s, f) ==
    {k \in 1..Len(s) : \A g \in BraceGroups(s) :
        /\ k \notin {g[1], g[2]} \cup OwnCommas(s, g)
        /\ g[1] < k /\ k < g[2] => f[g] < k /\ \A c \in OwnCommas(s, g) : f[g] < c => k < c}
BraceMeaning(s) ==
    {LET at == InOrder(s, KeptBy(s, f)) IN [n \in DOMAIN at |-> s[at[n]]] : f \in BraceChoices(s)}

HasEmptyAlternative(s) ==
    \E g \in BraceGroups(s), k \in 1..Len(s) :
        {k, k + 1} \subseteq {g[1], g[2]} \cup OwnCommas(s, g)

-----------------------------------------------------------------------------
BracesInit == typed \in Beginnings

TypeCharacter(c) ==
    /\ \E beginning \in Beginnings :
          Len(typed) < Len(beginning) + MaxTyped /\ IsPrefix(beginning, typed)
    /\ typed' = Append(typed, c)

BracesNext == \E c \in GlobCharacters : TypeCharacter(c)

BracesSpec == BracesInit /\ [][BracesNext]_typed

(* What choices keep, and the groups they go through: a group in an          *)
(* alternative that is not taken has no say.                                *)
Expansions(s) == {KeptBy(s, f) : f \in BraceChoices(s)}
GroupsTaken(s, kept) ==
    {g \in BraceGroups(s) : \E k \in kept : g[1] < k /\ k < g[2]}

(* The limit is looked at after each expansion only: what comes after the    *)
(* last expansion of the last pass is not counted.                          *)
Precedes(s, kept, other) ==
    LET differ == InOrder(s, (kept \ other) \cup (other \ kept))
    IN differ # <<>> /\ differ[1] \in kept
Counted(s) ==
    LET all == Expansions(s)
        Depth(kept) == Cardinality(GroupsTaken(s, kept))
        last == {kept \in all : \A other \in all : Depth(other) <= Depth(kept)}
    IN {kept \in all : \E other \in last : kept = other \/ Precedes(s, kept, other)}

(* A glob is expanded to what its braces mean, however groups nest and       *)
(* follow each other, or refused: always when they do not pair up or an      *)
(* alternative is empty, otherwise only for more expansions than the limit,  *)
(* and always for more than it when those that trail the last expanded one   *)
(* are left aside.                                                          *)
BracesAgree ==
    LET made == ExpandBraces(typed)
    IN IF ~BracesPair(typed) \/ HasEmptyAlternative(typed) THEN made = BadPattern
       ELSE IF made = BadPattern THEN Cardinality(Expansions(typed)) > MaxBraceExpansions
       ELSE /\ {made[k] : k \in DOMAIN made} = BraceMeaning(typed)
            /\ Cardinality(Counted(typed)) <= MaxBraceExpansions
=============================================================================
