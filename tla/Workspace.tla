----------------------------- MODULE Workspace -----------------------------
(***************************************************************************)
(* The files that caliban's runs share (internal/workspace): memory_upsert *)
(* writes a fact and its line in MEMORY.md, a shell edits PERSONA.md, the  *)
(* nightly reflection (internal/engine/reflection.go) replaces it, and a   *)
(* commit after every run keeps what is there.  The lanes of two           *)
(* conversations and the reflection run at the same time.  The order of    *)
(* the index's lines is left out.                                          *)
(***************************************************************************)
EXTENDS Integers, FiniteSets

CONSTANTS Lanes,         \* the conversations with a lane
          FreeTime,      \* the one of the agent's own free time
          Facts,         \* the memory titles, without case and white space
          Spellings,     \* how a title may be spelled
          MaxVersions,   \* bound on the summaries of one fact
          MaxRevisions,  \* bound on the revisions of PERSONA.md
          MaxPowerCuts   \* bound

ASSUME WorkspaceAssumption ==
    Facts # {} /\ Spellings # {} /\ MaxVersions \in Nat /\ MaxRevisions \in Nat

VARIABLES facts,      \* memory/<slug>.md: the content each file holds
          index,      \* MEMORY.md: a set of lines [fact, content]
          persona,    \* PERSONA.md: the revision it holds
          revisions,  \* revisions made so far
          gitEnabled, \* whether the process found git
          repo,       \* whether the workspace is a repository
          commits,    \* revisions of PERSONA.md in a commit
          recorded,    \* the last commit was made, and nothing cut short since
          talked,     \* conversations with messages
          hand,       \* what each lane's run does
          reflection, \* what the reflection's task does
          lone,       \* facts whose last upsert met no other update of the index
          powerCuts

memoryVars == <<facts, index, lone>>
gitVars == <<gitEnabled, repo, commits, recorded>>
workspaceVars == <<memoryVars, gitVars, persona, revisions, talked, hand, reflection, powerCuts>>

(* What a file says of its fact: the title as it is spelled, and which of    *)
(* the summaries; version 0 is a file that is missing.                      *)
Contents == [spelling : Spellings, version : Nat]
NoContent == [spelling |-> CHOOSE s \in Spellings : TRUE, version |-> 0]
Free == [at |-> "free", fact |-> CHOOSE f \in Facts : TRUE, content |-> NoContent, lines |-> {},
         met |-> FALSE]
Updating(l) == hand[l].at \in {"fact", "held", "emptied"}
Met(l) == \E k \in Lanes \ {l} : Updating(k)
AllFree == \A l \in Lanes : hand[l].at = "free"

(* Open and initGit: without git there are no commits; a workspace that is   *)
(* no repository yet becomes one, and all that is there is committed.       *)
OpenWorkspace(found, isRepo, made) ==
    [gitEnabled |-> found, repo |-> isRepo \/ found,
     commits |-> IF found /\ ~isRepo THEN made \cup {persona} ELSE made]

WorkspaceInit ==
    /\ facts = [f \in Facts |-> NoContent] /\ index = {}
    /\ persona = 0 /\ revisions = 0
    /\ \E found \in BOOLEAN :
          LET opened == OpenWorkspace(found, FALSE, {})
          IN gitEnabled = opened.gitEnabled /\ repo = opened.repo /\ commits = opened.commits
    /\ recorded = gitEnabled /\ talked = {}
    /\ hand = [l \in Lanes |-> Free]
    /\ reflection = [at |-> "none", update |-> 0]
    /\ lone = {} /\ powerCuts = 0

StartRun(l) ==
    /\ hand[l].at = "free"
    /\ hand' = [hand EXCEPT ![l].at = "run"]
    /\ talked' = talked \cup {l}
    /\ UNCHANGED <<memoryVars, gitVars, persona, revisions, reflection, powerCuts>>

(* Commit: of everything that is in the tree, when there is git and it does  *)
(* not fail; both of its callers only log what fails.                       *)
Commit(ok) ==
    /\ commits' = IF gitEnabled /\ ok THEN commits \cup {persona} ELSE commits
    /\ recorded' = (gitEnabled /\ ok)
    /\ UNCHANGED <<gitEnabled, repo>>

EndRun(l) ==
    /\ hand[l].at = "run"
    /\ hand' = [hand EXCEPT ![l].at = "free"]
    /\ \E ok \in BOOLEAN : Commit(ok)
    /\ UNCHANGED <<memoryVars, persona, revisions, talked, reflection, powerCuts>>

(* What the model may call a fact, and which facts are the same.            *)
Titles == [fact : Facts, spelling : Spellings]
(* memorySlug: titles that differ in case or white space have one file. *)
memorySlug(title) == title.fact

(* UpsertMemory writes the fact's file, of the summary it had or a new one, *)
UpsertMemory(l, title, version) ==
    LET f == memorySlug(title)
        content == [spelling |-> title.spelling, version |-> version]
    IN /\ hand[l].at = "run"
       /\ version \in {facts[f].version, facts[f].version + 1} \ {0} /\ version <= MaxVersions
       /\ facts' = [facts EXCEPT ![f] = content]
       /\ hand' = [k \in Lanes |->
              IF k = l THEN [hand[l] EXCEPT !.at = "fact", !.fact = f, !.content = content, !.met = Met(l)]
              ELSE [hand[k] EXCEPT !.met = @ \/ Updating(k)]]
       /\ lone' = lone \ {f}
       /\ UNCHANGED <<index, gitVars, persona, revisions, talked, reflection, powerCuts>>

(* then reads the index and puts the fact's line where its lines were, *)
Line(f, content) == [fact |-> f, content |-> content]
(* Mutant: a line that is there already is kept as it is. *)
AddMemoryIndexLine(lines, f, content) ==
    IF \E line \in lines : line.fact = f THEN lines ELSE lines \cup {Line(f, content)}
UpsertMemoryIndexLine(lines, f, content) ==
    {line \in lines : line.fact # f} \cup {Line(f, content)}
IndexWith(l) == UpsertMemoryIndexLine(index, hand[l].fact, hand[l].content)
Upserted(l) == hand' = [hand EXCEPT ![l] = [Free EXCEPT !.at = "run"]]

ReadIndex(l) ==
    /\ hand[l].at = "fact" /\ IndexWith(l) # index
    /\ hand' = [hand EXCEPT ![l].at = "held", ![l].lines = IndexWith(l)]
    /\ UNCHANGED <<memoryVars, gitVars, persona, revisions, talked, reflection, powerCuts>>
(* an index that says so already is left as it is, *)
KeepIndex(l) ==
    /\ hand[l].at = "fact" /\ IndexWith(l) = index
    /\ Upserted(l)
    /\ lone' = IF hand[l].met THEN lone ELSE lone \cup {hand[l].fact}
    /\ UNCHANGED <<facts, index, gitVars, persona, revisions, talked, reflection, powerCuts>>

(* and writes the file again: os.WriteFile empties it first. *)
EmptyIndex(l) ==
    /\ hand[l].at = "held"
    /\ index' = {}
    /\ hand' = [hand EXCEPT ![l].at = "emptied"]
    /\ UNCHANGED <<facts, lone, gitVars, persona, revisions, talked, reflection, powerCuts>>
WriteIndex(l) ==
    /\ hand[l].at = "emptied"
    /\ index' = hand[l].lines
    /\ Upserted(l)
    /\ lone' = IF hand[l].met THEN lone \ {f \in Facts : Line(f, facts[f]) \notin hand[l].lines}
               ELSE lone \cup {hand[l].fact}
    /\ UNCHANGED <<facts, gitVars, persona, revisions, talked, reflection, powerCuts>>

(* The model edits PERSONA.md with its shell when the user asks for it. *)
EditPersona(l) ==
    /\ hand[l].at = "run" /\ revisions < MaxRevisions
    /\ revisions' = revisions + 1 /\ persona' = revisions + 1
    /\ UNCHANGED <<memoryVars, gitVars, talked, hand, reflection, powerCuts>>

(* recentActivity: what users said, never the free time's own journal. *)
RecentActivity == talked \ {FreeTime}

(* reflect reads the persona and, when there is any, the recent activity,    *)
(* and asks the model,                                                      *)
Reflect ==
    /\ reflection.at = "none" /\ RecentActivity # {}
    /\ reflection' = [at |-> "model", update |-> 0]
    /\ UNCHANGED <<memoryVars, gitVars, persona, revisions, talked, hand, powerCuts>>
(* which declines, fails or is too long, or proposes a new persona, *)
Decline ==
    /\ reflection.at = "model"
    /\ reflection' = [reflection EXCEPT !.at = "none"]
    /\ UNCHANGED <<memoryVars, gitVars, persona, revisions, talked, hand, powerCuts>>
WritePersona ==
    /\ reflection.at = "model" /\ revisions < MaxRevisions
    /\ revisions' = revisions + 1 /\ persona' = revisions + 1
    /\ reflection' = [at |-> "written", update |-> revisions + 1]
    /\ UNCHANGED <<memoryVars, gitVars, talked, hand, powerCuts>>
CommitPersona ==
    /\ reflection.at = "written"
    /\ \E ok \in BOOLEAN : Commit(ok)
    /\ reflection' = [at |-> "none", update |-> 0]
    /\ UNCHANGED <<memoryVars, persona, revisions, talked, hand, powerCuts>>

(* The process dies, and an index that was just emptied stays empty; the     *)
(* next one opens the workspace, with git or without.                       *)
PowerCut ==
    /\ powerCuts < MaxPowerCuts
    /\ powerCuts' = powerCuts + 1
    /\ \E found \in BOOLEAN :
          LET opened == OpenWorkspace(found, repo, commits)
          IN /\ gitEnabled' = opened.gitEnabled /\ repo' = opened.repo /\ commits' = opened.commits
             /\ recorded' = ((found /\ ~repo) \/ (recorded /\ AllFree /\ reflection.at # "written"))
    /\ lone' = IF \E l \in Lanes : hand[l].at = "emptied" THEN {} ELSE lone
    /\ hand' = [l \in Lanes |-> Free] /\ reflection' = [at |-> "none", update |-> 0]
    /\ UNCHANGED <<facts, index, persona, revisions, talked>>

WorkspaceNext ==
    \/ \E l \in Lanes : \/ StartRun(l) \/ EndRun(l) \/ EditPersona(l)
                        \/ ReadIndex(l) \/ KeepIndex(l) \/ EmptyIndex(l) \/ WriteIndex(l)
                        \/ \E title \in Titles, version \in 1..MaxVersions :
                              UpsertMemory(l, title, version)
    \/ Reflect \/ Decline \/ WritePersona \/ CommitPersona \/ PowerCut

WorkspaceSpec == WorkspaceInit /\ [][WorkspaceNext]_workspaceVars

(* Every variable has the shape the code gives it. *)
Lines == [fact : Facts, content : Contents]
Hands == [at : {"free", "run", "fact", "held", "emptied"}, fact : Facts, content : Contents,
          lines : SUBSET Lines, met : BOOLEAN]
WorkspaceTypeOK ==
    /\ facts \in [Facts -> Contents] /\ index \subseteq Lines
    /\ hand \in [Lanes -> Hands] /\ lone \subseteq Facts /\ talked \subseteq Lanes
    /\ reflection \in [at : {"none", "model", "written"}, update : Nat] /\ revisions \in Nat
    /\ gitEnabled \in BOOLEAN /\ repo \in BOOLEAN /\ recorded \in BOOLEAN
    /\ persona \in Nat /\ commits \subseteq Nat /\ powerCuts \in Nat

AtRest == \A l \in Lanes : ~Updating(l)

(* A fact whose upsert met no other one, and that no later overlapping write
   has dropped, has its current line and no other (workspace.go:144-179),
   however its title is spelled. *)
LoneUpsertIsIndexed ==
    AtRest => \A f \in lone : {line \in index : line.fact = f} = {Line(f, facts[f])}

(* "a bad revision is always recoverable" (workspace.go:71-74), as far as it is
   so: while nothing is under way, and the last commit, of a run or of the
   reflection, was made and no power cut came between a change and its commit,
   the persona is in a commit, so that what replaces it can be undone. Without
   git, and after a commit that failed and was only logged, it need not be. *)
PersonaIsRecoverable ==
    recorded /\ AllFree /\ reflection.at # "written" => persona \in commits

(* What runs and the reflection write to the shared files is kept. *)
FilesAreKept == LoneUpsertIsIndexed /\ PersonaIsRecoverable
=============================================================================
