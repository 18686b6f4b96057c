----------------------------- MODULE FileTools -----------------------------
(***************************************************************************)
(* cy's tools for one file of the workspace (internal/tools/files.go):     *)
(* read shows it page by page with the digest of the whole file, edit      *)
(* replaces a text that occurs once and write the whole file, both through *)
(* a temporary file beside it that is renamed over it when the file is     *)
(* still the one they looked at.  Several sessions and the operator's own  *)
(* editor work on it at the same time.  A line is its size, a digest the   *)
(* content it is of; ls pages a directory like read, without a digest.     *)
(***************************************************************************)
EXTENDS Integers, Sequences, FiniteSets

CONSTANTS FileSessions,       \* sessions whose tools change the file
          LineSizes,          \* what the lines of a file may be
          MaxReadLines,       \* the limit a reader asks for
          MaxReadOutput,      \* maxReadOutputBytes
          FirstContents,      \* what the file may hold at first,
          NewContents,        \* and what is written or saved
          MaxChanges          \* bound on the versions of the file

(* A line takes room on a page, even an empty one.                          *)
ASSUME FileAssumption ==
    /\ LineSizes \subseteq Nat \ {0} /\ MaxReadLines \in Nat \ {0}
    /\ FirstContents \cup NewContents \subseteq Seq(LineSizes)

VARIABLES fileLines,  \* its lines, Missing without a file
          changes,
          toolCall, \* the edit or write of each session
          temps,    \* sessions whose .cy-write-* file lies beside the file
          late,     \* sessions whose file was changed after they compared it
          pages     \* a reader that follows read's own continuations

fileVars == <<fileLines, changes, toolCall, temps, late, pages>>

Missing == <<0>>
NoCall == [at |-> "none", old |-> Missing, new |-> Missing]
NoPages == [at |-> "none", next |-> 1, shown |-> <<>>, digest |-> Missing, one |-> TRUE]

FileInit ==
    /\ fileLines \in {Missing} \cup FirstContents /\ changes = 0
    /\ toolCall = [s \in FileSessions |-> NoCall] /\ temps = {} /\ late = {}
    /\ pages = NoPages

-----------------------------------------------------------------------------
(* readNumberedLines: the first line, which is cut when it is too long for any
   page, and whole lines while they fit. *)
Used(lines, from, to) ==
    LET Sum[i \in Nat] == IF i < from THEN 0 ELSE Sum[i - 1] + lines[i] IN Sum[to]
FitsPage(lines, from, to) == to - from < MaxReadLines /\ Used(lines, from, to) <= MaxReadOutput
PageEnd(lines, from) ==
    IF from > Len(lines) THEN from - 1
    ELSE CHOOSE to \in from .. Len(lines) :
            /\ to = from \/ FitsPage(lines, from, to)
            /\ to = Len(lines) \/ ~FitsPage(lines, from, to + 1)
Continue(lines, from) == PageEnd(lines, from) + 1

ReadPage ==
    /\ pages.at # "done" /\ fileLines # Missing
    /\ LET to == PageEnd(fileLines, pages.next)
           next == Continue(fileLines, pages.next)
       IN pages' = [at |-> IF next <= Len(fileLines) THEN "more" ELSE "done", next |-> next,
                    shown |-> pages.shown \o [i \in 1 .. to + 1 - pages.next |-> pages.next + i - 1],
                    digest |-> fileLines,
                    one |-> pages.at = "none" \/ (pages.one /\ pages.digest = fileLines)]
    /\ UNCHANGED <<fileLines, changes, toolCall, temps, late>>
ReadAgain ==
    /\ pages # NoPages /\ pages' = NoPages
    /\ UNCHANGED <<fileLines, changes, toolCall, temps, late>>

-----------------------------------------------------------------------------
(* edit: the text to replace, a line here, must occur once. *)
Occurrences(line) == {i \in DOMAIN fileLines : fileLines[i] = line}
Edit(s, line, new) ==
    /\ toolCall[s].at = "none" /\ fileLines # Missing
    /\ Cardinality(Occurrences(line)) = 1
    /\ toolCall' = [toolCall EXCEPT ![s] =
          [at |-> "temp", old |-> fileLines,
           new |-> [i \in DOMAIN fileLines |-> IF fileLines[i] = line THEN new ELSE fileLines[i]]]]
    /\ UNCHANGED <<fileLines, changes, temps, late, pages>>
(* write: an expected digest that is not the file's is refused. *)
Write(s, content, expected) ==
    /\ toolCall[s].at = "none"
    /\ expected # Missing => expected = fileLines
    /\ toolCall' = [toolCall EXCEPT ![s] = [at |-> "temp", old |-> fileLines, new |-> content]]
    /\ UNCHANGED <<fileLines, changes, temps, late, pages>>

(* atomicReplace: the temporary file is written and synced, *)
WriteTemp(s) ==
    /\ toolCall[s].at = "temp"
    /\ temps' = temps \cup {s}
    /\ toolCall' = [toolCall EXCEPT ![s].at = "check"]
    /\ UNCHANGED <<fileLines, changes, late, pages>>
(* the file has to be what the call looked at, *)
(* Mutant: only whether there is a file is compared. *)
CheckPresence(s) ==
    /\ toolCall[s].at = "check"
    /\ IF fileLines = Missing <=> toolCall[s].old = Missing
       THEN toolCall' = [toolCall EXCEPT ![s].at = "rename"] /\ UNCHANGED temps
       ELSE toolCall' = [toolCall EXCEPT ![s] = NoCall] /\ temps' = temps \ {s}
    /\ late' = late \ {s}
    /\ UNCHANGED <<fileLines, changes, pages>>
CheckUnchanged(s) ==
    /\ toolCall[s].at = "check"
    /\ IF fileLines = toolCall[s].old
       THEN toolCall' = [toolCall EXCEPT ![s].at = "rename"] /\ UNCHANGED temps
       ELSE toolCall' = [toolCall EXCEPT ![s] = NoCall] /\ temps' = temps \ {s}
    /\ late' = late \ {s}
    /\ UNCHANGED <<fileLines, changes, pages>>
(* and the rename puts the new one in its place: one that another change    *)
(* comes before is late.                                                    *)
Renaming == {s \in FileSessions : toolCall[s].at = "rename"}
Rename(s) ==
    /\ toolCall[s].at = "rename" /\ changes < MaxChanges
    /\ fileLines' = toolCall[s].new /\ changes' = changes + 1
    /\ temps' = temps \ {s}
    /\ toolCall' = [toolCall EXCEPT ![s] = NoCall]
    /\ late' = late \cup Renaming
    /\ UNCHANGED pages
(* Any statement fails, or the session dies and leaves its file behind. *)
ToolFails(s) ==
    /\ toolCall[s].at # "none"
    /\ toolCall' = [toolCall EXCEPT ![s] = NoCall]
    /\ temps' \in {temps, temps \ {s}}
    /\ UNCHANGED <<fileLines, changes, late, pages>>

(* The operator saves the file, or deletes it. *)
Save(content) ==
    /\ changes < MaxChanges /\ changes' = changes + 1
    /\ fileLines' = content
    /\ late' = late \cup Renaming
    /\ UNCHANGED <<toolCall, temps, pages>>

FileNext ==
    \/ ReadPage \/ ReadAgain
    \/ \E content \in {Missing} \cup NewContents : Save(content)
    \/ \E s \in FileSessions :
          \/ WriteTemp(s) \/ CheckUnchanged(s) \/ Rename(s) \/ ToolFails(s)
          \/ \E line, new \in LineSizes : Edit(s, line, new)
          \/ \E content \in NewContents, expected \in {Missing, pages.digest} : Write(s, content, expected)

FileSpec == FileInit /\ [][FileNext]_fileVars

-----------------------------------------------------------------------------
(* A reader that followed the continuations and saw one digest throughout has
   seen every line of that file once and in order (files.go:32-135). *)
PagesAreTheFile ==
    pages.at = "done" /\ pages.one => pages.shown = [i \in DOMAIN pages.digest |-> i]

(* What an edit or a write is about to replace is what it looked at, whatever
   other sessions and the operator did since: only a change between the
   comparison and the rename is lost (files.go:506-521). *)
ReplacesWhatItSaw == \A s \in Renaming \ late : fileLines = toolCall[s].old

(* What is shown of the file, and what is replaced, is the file as it was seen. *)
FileIsAsSeen == PagesAreTheFile /\ ReplacesWhatItSaw
=============================================================================
