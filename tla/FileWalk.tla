------------------------------ MODULE FileWalk ------------------------------
(***************************************************************************)
(* pkg/filesearch's walk (walk.go, ignore.go, matcher.go): depth first,    *)
(* with the rules of the ignore files on the way down kept on stacks, and  *)
(* directories left out unless the query's glob may match below them.      *)
(* Directories do not change during a walk here; symbolic links are leaves *)
(* and the query's path holds none.                                        *)
(***************************************************************************)
EXTENDS SearchRules

LOCAL INSTANCE SequencesExt

CONSTANTS
    Slash,              \* the separator's byte
    GitName, InfoName,  \* the names ".git" and "info"
    Dirs, Files, Links, \* the tree: sets of paths, a path is a sequence of names
    Starts,             \* directories a query may name
    IgnoreTrees,        \* the ignore files a tree may have: [name -> [dir -> file]]
    MaxPatternBytes,    \* a longer line fails the file,
    MaxIgnorePatterns,  \* and so do more rules than these
    Globs,              \* the queries' globs
    Extensions          \* paths that may be below a directory

ASSUME FileWalkAssumption ==
    /\ <<>> \in Dirs /\ Starts \subseteq Dirs
    /\ \A p \in (Dirs \cup Files \cup Links) \ {<<>>} : ButLast(p) \in Dirs

VARIABLES
    ignoreFiles, glob, start,  \* one query of one tree
    compiled, query,     \* what reading each ignore file gives, the compiled glob
    sets,                \* ruleMatcher.sets of every source
    frames,              \* the recursion of walkDirectory
    visited,             \* what the callback got
    walk                 \* "start", "walk", "done", "stopped" or "failed"

walkVars == <<ignoreFiles, glob, start, compiled, query, sets, frames, visited, walk>>

Sources == {"git", "ignore", "rg"}
IsDir(path) == path \in Dirs
InsideGit(path) == \E k \in DOMAIN path : path[k] = GitName

(* A compiled rule stands for what it matches of what is left of a path     *)
(* below the directory of its file, and for the directories below which it  *)
(* may match.                                                               *)
Rest(path, depth) == SubSeq(path, depth + 1, Len(path))
Rests == {<<>>} \cup UNION {{Rest(p, k) : k \in 0 .. Len(p) - 1} : p \in Dirs \cup Files}
CompileRule(rule) ==
    LET pattern == CompilePattern(rule.raw, rule.negated)
    IN [negated |-> rule.negated,
        matches |-> {<<path, isDir>> \in (Rests \ {<<>>}) \X BOOLEAN :
                        MatchesDirect(pattern, path, isDir)},
        below |-> {dir \in Rests : MayMatchDescendant(pattern, dir)}]
IgnoreLines(files) ==
    UNION {UNION {Range(files[n][d].lines) : d \in Dirs} : n \in DOMAIN files}
CompiledRules ==
    [rule \in UNION {Range(line.rules) : line \in UNION {IgnoreLines(files) : files \in IgnoreTrees}}
                 \cup UNION {Range(g.raws) : g \in Globs} |-> CompileRule(rule)]
Compile(list) == [k \in DOMAIN list |-> CompiledRules[list[k]]]

(* readIgnoreLine: of a line's end only a carriage return counts. *)
TooLong(line) == line.bytes + (IF line.end = "crlf" THEN 1 ELSE 0) > MaxPatternBytes

(* A line gives a rule for each of its braces' choices, none if it is a     *)
(* comment; one bad glob or long line, or too many rules, fail the file.    *)
ReadIgnorePatterns(lines) ==
    LET list == FlattenSeq([k \in DOMAIN lines |-> lines[k].rules])
    IN [ok |-> /\ \A k \in DOMAIN lines : ~TooLong(lines[k]) /\ ~lines[k].bad
               /\ Len(list) <= MaxIgnorePatterns,
        list |-> list]

(* A file that is missing or no regular one, such as a link, says nothing. *)
AddFile(file) ==
    IF file.kind # "regular" THEN [ok |-> TRUE, list |-> <<>>]
    ELSE LET read == ReadIgnorePatterns(file.lines)
         IN [ok |-> read.ok, list |-> IF read.ok THEN Compile(read.list) ELSE <<>>]

WalkInit ==
    /\ ignoreFiles \in IgnoreTrees /\ glob \in Globs /\ start \in Starts
    /\ compiled = [n \in {"exclude"} \cup Sources |-> [d \in Dirs |-> AddFile(ignoreFiles[n][d])]]
    /\ query = Compile(glob.raws)
    /\ sets = [s \in Sources |-> <<>>] /\ frames = <<>> /\ visited = <<>>
    /\ walk = "start"

-----------------------------------------------------------------------------
(* The last rule that matches decides.                                      *)
NoDecision == [matched |-> FALSE, ignored |-> FALSE]
DecideDirect(list, path, isDir) ==
    LET those == {k \in DOMAIN list : <<path, isDir>> \in list[k].matches}
    IN IF those = {} THEN NoDecision ELSE [matched |-> TRUE, ignored |-> ~list[Max(those)].negated]

DirectMatches(path, isDir) ==
    (glob.dirOnly => isDir) /\ DecideDirect(query, path, isDir).matched
DirectExcludes(path) == ~glob.include /\ DirectMatches(path, TRUE)
DirectReopens(path) ==
    /\ glob.include
    /\ DirectMatches(path, TRUE) \/ \E k \in DOMAIN query : path \in query[k].below

IncludeFile(path, ignored) ==
    IF glob.include THEN DirectMatches(path, FALSE)
    ELSE ~DirectMatches(path, FALSE) /\ ~ignored

(* ruleMatcher.directDecisionParts: the deepest rule set that decides *)
Decision(stack, path, isDir) ==
    LET all == [k \in DOMAIN stack |->
                   DecideDirect(stack[k].rules, Rest(path, stack[k].depth), isDir)]
        those == SelectSeq(all, LAMBDA decision : decision.matched)
    IN IF those = <<>> THEN NoDecision ELSE Last(those)

(* .rgignore decides before .ignore, and that before git's files. *)
ChildIgnored(stacks, path, isDir, parentIgnored) ==
    LET all == [k \in 1..3 |-> Decision(stacks[<<"rg", "ignore", "git">>[k]], path, isDir)]
        those == SelectSeq(all, LAMBDA decision : decision.matched)
    IN parentIgnored \/ (those # <<>> /\ Head(those).ignored)

Ignored(stacks, path) == \E k \in 1..Len(path) : ChildIgnored(stacks, SubSeq(path, 1, k), TRUE, FALSE)

Scoped(file, dir) == IF file.list = <<>> THEN <<>> ELSE <<[rules |-> file.list, depth |-> Len(dir)]>>
Readable(dir) == \A s \in Sources : compiled[s][dir].ok
LoadDirectory(stacks, dir) == [s \in Sources |-> stacks[s] \o Scoped(compiled[s][dir], dir)]

(* loadRoot: .git/info/exclude, unless .git is a file, before the root's own *)
(* ignore files.                                                            *)
HasInfo == {<<GitName>>, <<GitName, InfoName>>} \subseteq Dirs
Exclude == IF HasInfo THEN compiled["exclude"][<<>>] ELSE [ok |-> TRUE, list |-> <<>>]
LoadRoot(stacks) ==
    [ok |-> Exclude.ok /\ Readable(<<>>),
     stacks |-> LoadDirectory([stacks EXCEPT !["git"] = @ \o Scoped(Exclude, <<>>)], <<>>)]

(* loadAncestorIgnores: no file of an ignored directory is read. *)
LoadAncestors(root) ==
    LET Load(at, dir) == IF ~at.open \/ ~at.ok THEN at
                         ELSE IF Ignored(at.stacks, dir) THEN [at EXCEPT !.open = FALSE]
                         ELSE [at EXCEPT !.ok = Readable(dir), !.stacks = LoadDirectory(@, dir)]
        ancestors == [k \in 1 .. Len(start) - 1 |-> SubSeq(start, 1, k)]
    IN FoldLeft(Load, [stacks |-> root.stacks, ok |-> root.ok, open |-> TRUE], ancestors)

-----------------------------------------------------------------------------
Name(path) == path[Len(path)]
LexLess(s, t) ==
    \/ Len(s) < Len(t) /\ IsPrefixOf(s, t)
    \/ \E k \in DOMAIN s \cap DOMAIN t : s[k] < t[k] /\ SubSeq(s, 1, k - 1) = SubSeq(t, 1, k - 1)

(* inspectedEntryLess: a directory's name is followed by its slash. *)
EntryLess(left, right) ==
    LET l == Name(left)  r == Name(right)
    IN IF IsPrefixOf(l, r) THEN Len(l) < Len(r) /\ (IsDir(left) => Slash < r[Len(l) + 1])
       ELSE IF IsPrefixOf(r, l) THEN IsDir(right) /\ l[Len(r) + 1] < Slash
       ELSE LexLess(l, r)

Entries(dir) ==
    SetToSortSeq({p \in Dirs \cup Files : Len(p) = Len(dir) + 1 /\ IsPrefixOf(dir, p)
                                          /\ Name(p) # GitName}, EntryLess)

Frame(stacks, dir, ignored) ==
    [dir |-> dir, ignored |-> ignored, todo |-> Entries(dir),
     mark |-> [s \in Sources |-> Len(stacks[s])]]

EndWalk(how) == walk' = how /\ UNCHANGED <<sets, frames>>

(* walkDirectory's head: the directory's own ignore files; what they fail   *)
(* with ends the walk.                                                      *)
Enter(below, stacks, dir, loaded, ignored) ==
    IF loaded \/ ignored \/ Readable(dir)
    THEN /\ frames' = Append(below, Frame(stacks, dir, ignored))
         /\ sets' = IF loaded \/ ignored THEN stacks ELSE LoadDirectory(stacks, dir)
         /\ walk' = "walk"
    ELSE EndWalk("failed")

(* fileWalker.run *)
BeginWalk ==
    /\ walk = "start"
    /\ IF InsideGit(start) \/ (start # <<>> /\ DirectExcludes(start)) THEN EndWalk("done")
       ELSE LET loaded == LoadAncestors(LoadRoot(sets))
                ignored == Ignored(loaded.stacks, start)
            IN IF ~loaded.ok THEN EndWalk("failed")
               ELSE IF ignored /\ ~DirectReopens(start) THEN EndWalk("done")
               ELSE Enter(<<>>, loaded.stacks, start, start = <<>>, ignored)
    /\ UNCHANGED <<ignoreFiles, glob, start, compiled, query, visited>>

Top == frames[Len(frames)]
More == walk = "walk" /\ frames # <<>> /\ Top.todo # <<>>
Popped == [frames EXCEPT ![Len(frames)].todo = Tail(@)]
Entry == Head(Top.todo)
EntryIgnored == ChildIgnored(sets, Entry, IsDir(Entry), Top.ignored)
Walked == UNCHANGED <<ignoreFiles, glob, start, compiled, query>>

Descends == ~DirectExcludes(Entry) /\ (EntryIgnored => DirectReopens(Entry))

EnterDirectory ==
    /\ More /\ IsDir(Entry) /\ Descends
    /\ Enter(Popped, sets, Entry, FALSE, EntryIgnored)
    /\ UNCHANGED visited /\ Walked

PassDirectory ==
    /\ More /\ IsDir(Entry) /\ ~Descends
    /\ frames' = Popped
    /\ UNCHANGED <<sets, visited, walk>> /\ Walked

(* The callback returns nil, or ErrStop. *)
VisitFile ==
    /\ More /\ ~IsDir(Entry) /\ IncludeFile(Entry, EntryIgnored)
    /\ visited' = Append(visited, Entry)
    /\ frames' = Popped
    /\ walk' \in {"walk", "stopped"}
    /\ UNCHANGED sets /\ Walked

SkipFile ==
    /\ More /\ ~IsDir(Entry) /\ ~IncludeFile(Entry, EntryIgnored)
    /\ frames' = Popped
    /\ UNCHANGED <<sets, visited, walk>> /\ Walked

(* The rules loaded in a directory are dropped when it is left. *)
(* Mutant: they are kept. *)
KeepRules(mark) == sets
Restore(mark) == [s \in Sources |-> SubSeq(sets[s], 1, mark[s])]

LeaveDirectory ==
    /\ walk = "walk" /\ frames # <<>> /\ Top.todo = <<>>
    /\ frames' = ButLast(frames)
    /\ sets' = Restore(Top.mark)
    /\ walk' = IF Len(frames) = 1 THEN "done" ELSE walk
    /\ UNCHANGED visited /\ Walked

WalkNext ==
    \/ BeginWalk \/ EnterDirectory \/ PassDirectory \/ VisitFile \/ SkipFile \/ LeaveDirectory

WalkSpec == WalkInit /\ [][WalkNext]_walkVars

-----------------------------------------------------------------------------
(* What a query selects, without a walk: the ignore files of all ancestors  *)
(* at once, level by level.                                                 *)
AllSets(path) ==
    [s \in Sources |->
        (IF s = "git" THEN <<[rules |-> Exclude.list, depth |-> 0]>> ELSE <<>>)
        \o [k \in 1..Len(path) |->
               [rules |-> compiled[s][SubSeq(path, 1, k - 1)].list, depth |-> k - 1]]]
IsIgnored(path) ==
    \E k \in 1..Len(path) :
        ChildIgnored(AllSets(SubSeq(path, 1, k)), SubSeq(path, 1, k), k < Len(path) \/ IsDir(path), FALSE)

GlobMeans(path, isDir) ==
    (glob.dirOnly => isDir) /\ \E k \in DOMAIN glob.raws : Means(glob.raws[k].raw, path, isDir)
(* A glob with a slash may mean a path below the directory. *)
MeansBelow(dir) ==
    \E k \in DOMAIN glob.raws, below \in Extensions :
        /\ glob.raws[k].raw.anchored \/ Len(glob.raws[k].raw.body) > 1
        /\ Means(glob.raws[k].raw, dir \o below, TRUE)

Selected(file) ==
    /\ IsPrefixOf(start, file) /\ ~InsideGit(file)
    /\ IF glob.include THEN GlobMeans(file, FALSE)
       ELSE ~IsIgnored(file) /\ ~GlobMeans(file, FALSE)
    /\ \A k \in (Len(start) .. Len(file) - 1) \ {0} :
          LET dir == SubSeq(file, 1, k)
          IN IF glob.include THEN IsIgnored(dir) => GlobMeans(dir, TRUE) \/ MeansBelow(dir)
             ELSE ~GlobMeans(dir, TRUE)

Flat(path) == FlattenSeq([k \in DOMAIN path |-> IF k = 1 THEN path[1] ELSE <<Slash>> \o path[k]])
PathLess(p, q) == LexLess(Flat(p), Flat(q))

(* The directories whose ignore files a query needs: not ignored, above     *)
(* where it starts or on its way.                                           *)
Applies(dir) ==
    /\ ~InsideGit(start) /\ ~InsideGit(dir) /\ ~IsIgnored(dir)
    /\ ~glob.include /\ start # <<>> => ~GlobMeans(start, TRUE)
    /\ \/ IsPrefixOf(dir, start)
       \/ /\ IsPrefixOf(start, dir)
          /\ ~glob.include => \A k \in Len(start) + 1 .. Len(dir) : ~GlobMeans(SubSeq(dir, 1, k), TRUE)
MustFail == \E dir \in Dirs : Applies(dir) /\ ~(Readable(dir) /\ (dir = <<>> => Exclude.ok))

(* A walk visits the files its query selects and no others, in the order of *)
(* their paths: a glob with a slash finds its matches in ignored directories *)
(* too, one without reopens only a directory it names, and the rules that   *)
(* decide on a file are those of its own ancestors, whatever was walked     *)
(* before.  A bad ignore file fails the walk unless its directory is ignored. *)
WalkIsRight ==
    LET got == {visited[k] : k \in DOMAIN visited}
        all == {f \in Files : Selected(f)}
    IN /\ \A j, k \in DOMAIN visited : j < k => PathLess(visited[j], visited[k])
       /\ walk = "done" => got = all /\ ~MustFail
       /\ walk = "stopped" => /\ got \subseteq all
                              /\ \A f \in all : f \in got \/ \A g \in got : PathLess(g, f)
       /\ walk = "failed" => got \subseteq all /\ MustFail
=============================================================================
