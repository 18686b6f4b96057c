--------------------------- MODULE InlineRenderer ---------------------------
(***************************************************************************)
(* The screen of cy: the transcript's blocks and the two caches of what    *)
(* they were rendered to (cy/internal/ui/screen_transcript.go,             *)
(* screen_render.go, screen_events.go), the renderer that writes only what *)
(* changed below them (inline_renderer.go), the poll of the terminal's     *)
(* size (screen.go), and the terminal (external): rows that scroll away    *)
(* and can then no longer be addressed.  Rows and the cursor's row count   *)
(* from zero, as in the code; columns, styles and wrapping are left out.   *)
(***************************************************************************)
EXTENDS Integers, Sequences, FiniteSets
LOCAL INSTANCE SequencesExt

CONSTANTS
    Heights,      \* rows a terminal may have
    Bodies,       \* what a block renders to: sequences of rows
    MaxBlocks,    \* bound: blocks of a transcript
    MaxUpdates,   \* bound: updates of the model, resizes of the terminal
    MaxResizes

ASSUME InlineRendererAssumption ==
    /\ Heights \subseteq Nat /\ \A h \in Heights : h > 3
    /\ MaxBlocks \in Nat /\ MaxUpdates \in Nat /\ MaxResizes \in Nat

VARIABLES
    view,       \* cyTUIModel: blocks, caches, transcriptLines, chrome, height
    renderer,   \* inlineRenderer
    terminal,   \* rows, the first one on the screen, the cursor's, the height
    sizes,      \* watchTerminalSize: the height it saw last, the one it sends (0: none)
    screen,     \* ghost: rows above the frame, and whether the size it was drawn for holds
    updates, resizes

screenVars == <<view, renderer, terminal, sizes, screen, updates, resizes>>

Lesser(a, b) == IF a < b THEN a ELSE b
Greater(a, b) == IF a > b THEN a ELSE b

----------------------------------------------------------------------------
\* The terminal executes what it is sent

Blank == ""
Mixed == "mixed"    \* a row written over another one
BlankRows(n) == [k \in 1..n |-> Blank]

Down(n) == <<[op |-> "down", rows |-> n]>>
Up(n) == <<[op |-> "up", rows |-> n]>>
Erase == <<[op |-> "erase"]>>
ClearAll == <<[op |-> "clear"]>>
Newlines(n) == [k \in 1..n |-> [op |-> "newline"]]
Move(n) == IF n > 0 THEN Down(n) ELSE IF n < 0 THEN Up(-n) ELSE <<>>

\* rows one below the other, over blank rows or over what is there
Lines(rows, erase) ==
    [k \in DOMAIN rows |-> [op |-> "line", newline |-> k > 1, erase |-> erase, row |-> rows[k]]]

Bottom(t) == t.top + t.height - 1

NewlineOn(t) ==
    IF t.cursor < Bottom(t) THEN [t EXCEPT !.cursor = @ + 1]
    ELSE [t EXCEPT !.rows = Append(@, Blank), !.top = @ + 1, !.cursor = @ + 1]
PutRow(t, row, erase) ==
    [t EXCEPT !.rows[t.cursor + 1] =
        IF erase \/ @ = Blank THEN row ELSE IF row = Blank THEN @ ELSE Mixed]

Execute(t, c) ==
    CASE c.op = "down" -> [t EXCEPT !.cursor = Lesser(@ + c.rows, Bottom(t))]
      [] c.op = "up" -> [t EXCEPT !.cursor = Greater(@ - c.rows, t.top)]
      [] c.op = "newline" -> NewlineOn(t)
      [] c.op = "erase" -> PutRow(t, Blank, TRUE)
      [] c.op = "line" -> PutRow(IF c.newline THEN NewlineOn(t) ELSE t, c.row, c.erase)
      [] c.op = "clear" -> [t EXCEPT !.rows = BlankRows(t.height), !.top = 0, !.cursor = 0]

RECURSIVE Executed(_, _, _)
Executed(t, commands, k) ==
    IF k > Len(commands) THEN t ELSE Executed(Execute(t, commands[k]), commands, k + 1)
Send(commands) == Executed(terminal, commands, 1)

----------------------------------------------------------------------------
\* What the model renders: blocks to lines, lines and chrome to a frame

NoCursor == -1
Chrome(rows, cursor) == [rows |-> rows, cursor |-> cursor]

(* As many rows as a picker, or what is suggested below a composer of n rows, *)
(* may take of a terminal of height h: one row is the transcript's.          *)
FixedRows == 3
ReplacementPickerCapacity(h) == Lesser(10, Greater(0, h - 1 - FixedRows))
CommandSuggestionCapacity(h, n) == Lesser(7, Greater(0, h - 1 - n - FixedRows))
Picks(n) == [k \in 1..n |-> "pick"]
PickerRows(h) == Picks(ReplacementPickerCapacity(h))
Suggestions(h, n) == {Picks(0), Picks(CommandSuggestionCapacity(h, n))}

(* The rows below the transcript: the composer of one or more rows with its *)
(* suggestions, a picker, a maintenance.                                    *)
Chromes(h) ==
    UNION {{Chrome(<<i>> \o [k \in 1..n |-> "edit"] \o s \o <<Blank, "foot">>, n) :
              i \in {Blank, "work"}, s \in Suggestions(h, n)} :
           n \in {1, Greater(1, Lesser(8, h - FixedRows - 1))}}
    \cup {Chrome(<<Blank>> \o PickerRows(h) \o <<Blank, "foot">>, NoCursor),
          Chrome(<<Blank, "busy", Blank, "foot">>, NoCursor)}

BlockLines(blocks, k) ==
    (IF blocks[k].tool /\ k > 1 /\ ~blocks[k - 1].tool THEN <<Blank>> ELSE <<>>) \o blocks[k].body
TranscriptOf(blocks) == FlattenSeq([k \in DOMAIN blocks |-> BlockLines(blocks, k)])

MarkBlockDirty(v, k) == [v EXCEPT !.renderDirtyFrom = Lesser(@, k)]

AppendBlock(v, b) == [MarkBlockDirty(v, Len(v.blocks)) EXCEPT !.blocks = Append(@, b)]
ChangeBlock(v, k, b) == [MarkBlockDirty(v, k - 1) EXCEPT !.blocks[k] = b]
DropBlock(v) ==
    [MarkBlockDirty(v, Len(v.blocks) - 1) EXCEPT !.blocks = SubSeq(@, 1, Len(@) - 1)]

(* renderTranscriptLinesFromDirty: the cache keeps the blocks before the    *)
(* first dirty one.                                                         *)
CommonBlocks(v) ==
    IF Len(v.cache) > Len(v.blocks) THEN 0 ELSE Lesser(v.renderDirtyFrom, Len(v.cache))
RenderCache(v) ==
    [k \in DOMAIN v.blocks |->
        IF k <= CommonBlocks(v) THEN v.cache[k] ELSE BlockLines(v.blocks, k)]

Refreshed(v) ==
    LET cache == RenderCache(v)
        lines == FlattenSeq(cache)
        lineEnd == Len(FlattenSeq(SubSeq(cache, 1, CommonBlocks(v))))
        dirtyFrom == Lesser(lineEnd, Lesser(Len(v.lines), Len(lines)))
        w == [v EXCEPT !.cache = cache, !.renderDirtyFrom = Len(v.blocks), !.pending = FALSE]
    IN IF lineEnd = Len(v.lines) /\ Len(lines) = Len(v.lines) THEN w
       ELSE [w EXCEPT !.lines = SubSeq(@, 1, dirtyFrom) \o SubSeq(lines, dirtyFrom + 1, Len(lines)),
                      !.dirtyFrom = IF v.dirty THEN Lesser(@, dirtyFrom) ELSE dirtyFrom,
                      !.dirty = TRUE]

ClearTranscript(v) ==
    [v EXCEPT !.blocks = <<>>, !.lines = <<>>, !.cache = <<>>, !.renderDirtyFrom = 0,
              !.dirty = TRUE, !.dirtyFrom = 0]

----------------------------------------------------------------------------
\* RenderFrame

NewRenderer ==
    [transcript |-> <<>>, dynamic |-> <<>>, height |-> 0, viewportTop |-> 0, cursor |-> 0,
     invalidated |-> FALSE, appendPending |-> FALSE, appendAfter |-> 0, stopped |-> FALSE]

Invalidate(r) == [r EXCEPT !.invalidated = TRUE, !.appendPending = FALSE]
AppendFrameAfter(r, n) ==
    [r EXCEPT !.invalidated = FALSE, !.appendPending = TRUE, !.appendAfter = n]

PreviousFrame(r) == r.transcript \o r.dynamic

(* prepareFrame: the transcript drawn before is reused up to the first      *)
(* dirty row.                                                               *)
ReusedLines(v, r) ==
    IF ~v.dirty /\ Len(v.lines) = Len(r.transcript) THEN Len(v.lines)
    ELSE Lesser(IF v.dirty THEN v.dirtyFrom ELSE 0, Lesser(Len(v.lines), Len(r.transcript)))
NextTranscript(v, r) ==
    SubSeq(r.transcript, 1, ReusedLines(v, r))
        \o SubSeq(v.lines, ReusedLines(v, r) + 1, Len(v.lines))

ChangedLines(old, new, from) ==
    {k \in from .. Greater(Len(old), Len(new)) - 1 :
        ~(k < Len(old) /\ k < Len(new) /\ old[k + 1] = new[k + 1])}

\* where the frame wants the cursor
CursorRow(v, transcript, length, current) ==
    IF v.chrome.cursor = NoCursor THEN current
    ELSE Lesser(Len(transcript) + v.chrome.cursor, length - 1)

ErasedRows(n) ==
    [k \in 1 .. 2 * n - 1 |-> (IF k % 2 = 1 THEN Erase ELSE Down(1))[1]] \o Move(1 - n)

Adopt(v, r, transcript, cursor, viewportTop) ==
    [r EXCEPT !.transcript = transcript, !.dynamic = v.chrome.rows, !.height = v.height,
              !.cursor = cursor, !.viewportTop = viewportTop]

Drawing(commands, r, above) == [commands |-> commands, renderer |-> r, above |-> above]

FullRender(v, r, transcript, clear, above) ==
    LET frame == transcript \o v.chrome.rows
        row == CursorRow(v, transcript, Len(frame), Len(frame) - 1)
    IN Drawing((IF clear THEN ClearAll ELSE <<>>) \o Lines(frame, FALSE) \o Move(row - (Len(frame) - 1)),
               Adopt(v, r, transcript, row, Greater(0, Len(frame) - v.height)),
               IF clear THEN <<>> ELSE above)

(* appendFrame: what the user resumed away from stays above; its chrome is  *)
(* erased while it is still on the screen.                                  *)
AppendFrame(v, r, transcript) ==
    LET old == PreviousFrame(r)
        preserve == Lesser(r.appendAfter, Len(old))
        replace == preserve < Len(old) /\ preserve >= r.viewportTop
        target == IF replace THEN preserve ELSE Len(old) - 1
        leave == Move(target - r.cursor)
                    \o (IF replace THEN ErasedRows(Len(old) - target) ELSE Newlines(1))
        full == FullRender(v, [NewRenderer EXCEPT !.appendAfter = r.appendAfter], transcript, FALSE,
                    screen.above \o (IF replace THEN SubSeq(old, 1, preserve) ELSE old))
    IN [full EXCEPT !.commands = leave \o @]

(* renderDeletion: only rows at the end go. *)
RenderDeletion(v, r, transcript) ==
    LET old == PreviousFrame(r)
        frame == transcript \o v.chrome.rows
        target == Len(frame) - 1
        extra == Len(old) - Len(frame)
        row == CursorRow(v, transcript, Len(frame), target)
    IN IF target < r.viewportTop \/ extra > v.height THEN FullRender(v, r, transcript, TRUE, <<>>)
       ELSE Drawing(Move(target - r.cursor) \o Down(1) \o ErasedRows(extra) \o Up(1)
                        \o Move(row - target),
                    Adopt(v, r, transcript, row, r.viewportTop), screen.above)

(* differentialRender: the rows from the first changed one to the last; a   *)
(* row below the screen is reached by scrolling.                            *)
DifferentialRender(v, r, transcript, changed) ==
    LET old == PreviousFrame(r)
        frame == transcript \o v.chrome.rows
        first == CHOOSE k \in changed : \A x \in changed : k <= x
        last == CHOOSE k \in changed : \A x \in changed : k >= x
        appended == Len(frame) > Len(old) /\ first = Len(old) /\ first > 0
        target == IF appended THEN first - 1 ELSE first
        scroll == Greater(0, target - (r.viewportTop + v.height - 1))
        end == Lesser(last, Len(frame) - 1)
        extra == Greater(0, Len(old) - Len(frame))
        row == CursorRow(v, transcript, Len(frame), end)
    IN IF first >= Len(frame) THEN RenderDeletion(v, r, transcript)
       ELSE Drawing(
              (IF scroll = 0 THEN Move(target - r.cursor)
               ELSE Move(v.height - 1 - (r.cursor - r.viewportTop)) \o Newlines(scroll))
                \o (IF appended THEN Newlines(1) ELSE <<>>)
                \o Lines(SubSeq(frame, first + 1, end + 1), TRUE)
                \o [k \in 1..extra |-> [op |-> "line", newline |-> TRUE, erase |-> TRUE, row |-> Blank]] \o Move(-extra) \o Move(row - end),
              Adopt(v, r, transcript, row, Greater(r.viewportTop + scroll, end - v.height + 1)),
              screen.above)

(* Mutant: the row above the first one on the screen is taken to be on it. *)
AboveScreenByTwo(r, changed) == \E k \in changed : k < r.viewportTop - 1
AboveScreen(r, changed) == \E k \in changed : k < r.viewportTop

RenderFrame(v, r) ==
    LET transcript == NextTranscript(v, r)
        frame == transcript \o v.chrome.rows
        old == PreviousFrame(r)
        changed == ChangedLines(old, frame, ReusedLines(v, r))
        row == CursorRow(v, transcript, Len(frame), r.cursor)
    IN CASE r.invalidated ->
              FullRender(v, [r EXCEPT !.invalidated = FALSE], transcript, old # <<>>, screen.above)
         [] ~r.invalidated /\ r.appendPending ->
              IF old = <<>> THEN FullRender(v, [r EXCEPT !.appendPending = FALSE], transcript, FALSE, screen.above)
              ELSE AppendFrame(v, [r EXCEPT !.appendPending = FALSE], transcript)
         [] ~r.invalidated /\ ~r.appendPending /\ old = <<>> ->
              FullRender(v, r, transcript, FALSE, screen.above)
         [] ~r.invalidated /\ ~r.appendPending /\ old # <<>> ->
              IF r.height # v.height \/ AboveScreen(r, changed)
              THEN FullRender(v, r, transcript, TRUE, <<>>)
              ELSE IF changed = {}
              THEN Drawing(Move(row - r.cursor), Adopt(v, r, transcript, row, r.viewportTop), screen.above)
              ELSE DifferentialRender(v, r, transcript, changed)

Draw(v, r) ==
    LET drawing == RenderFrame(v, r)
        cleared == \E k \in DOMAIN drawing.commands : drawing.commands[k].op = "clear"
    IN /\ view' = [v EXCEPT !.dirty = FALSE]
       /\ renderer' = drawing.renderer
       /\ terminal' = Send(drawing.commands)
       /\ screen' = [above |-> drawing.above,
                     sure |-> IF cleared THEN terminal.height = v.height
                              ELSE screen.sure /\ terminal.height = v.height]

----------------------------------------------------------------------------
\* Updates of the model, each followed by its frame

Running == ~renderer.stopped /\ updates < MaxUpdates /\ updates' = updates + 1

\* the chrome changes with any of them
Chromed(v) == {[v EXCEPT !.chrome = c] : c \in Chromes(v.height)}
IdleChrome == Chrome(<<Blank, "edit", Blank, "foot">>, 1)
KeptOrIdle(v) == {v, [v EXCEPT !.chrome = IdleChrome]}

(* A key, a tick or a status line: nothing of the transcript.               *)
UpdateChrome ==
    /\ Running
    /\ \E v \in Chromed(view) : Draw(v, renderer)
    /\ UNCHANGED <<sizes, resizes>>

(* An event adds a block, changes one, or takes the last one away; text of  *)
(* the model is rendered later, on a timer.                                 *)
UpdateBlocks ==
    /\ Running
    /\ \E w \in KeptOrIdle(view), b \in [tool : BOOLEAN, body : Bodies] :
          \/ /\ Len(w.blocks) < MaxBlocks
             /\ Draw(Refreshed(AppendBlock(w, b)), renderer)
          \/ \E k \in DOMAIN w.blocks : Draw(Refreshed(ChangeBlock(w, k, b)), renderer)
          \/ w.blocks # <<>> /\ Draw(Refreshed(AppendBlock(DropBlock(w), b)), renderer)
    /\ UNCHANGED <<sizes, resizes>>

Stream ==
    /\ Running /\ view.blocks # <<>>
    /\ \E b \in [tool : {FALSE}, body : Bodies] :
          Draw([ChangeBlock(view, Len(view.blocks), b) EXCEPT !.pending = TRUE], renderer)
    /\ UNCHANGED <<sizes, resizes>>

RenderTimer ==
    /\ Running /\ view.pending
    /\ Draw(Refreshed(view), renderer)
    /\ UNCHANGED <<sizes, resizes>>

(* /clear and /resume replace the transcript.                               *)
Replace(r) ==
    /\ Running
    /\ \E w \in KeptOrIdle(view), b \in [tool : {FALSE}, body : Bodies] :
          Draw(Refreshed(AppendBlock(ClearTranscript(w), b)), r)
    /\ UNCHANGED <<sizes, resizes>>
ResetTranscript == Replace(Invalidate(renderer))
ContinueTranscriptBelow ==
    ~view.pending /\ Replace(AppendFrameAfter(renderer, Len(view.lines)))

(* Stop: the chrome is erased, the transcript stays.                        *)
Stop ==
    LET r == renderer
        old == PreviousFrame(r)
        clearFrom == Greater(Len(r.transcript), r.viewportTop)
    IN /\ ~r.stopped
       /\ terminal' = IF old = <<>> THEN terminal
                      ELSE Send(Move(clearFrom - r.cursor) \o ErasedRows(Len(old) - clearFrom))
       /\ renderer' = [r EXCEPT !.stopped = TRUE, !.cursor = clearFrom]
       /\ UNCHANGED <<view, sizes, screen, updates, resizes>>

----------------------------------------------------------------------------
\* The terminal changes its size, the poll sees it, the model is told

(* What scrolled away may come back when it grows; what is below the cursor *)
(* goes, or all scrolls, when it shrinks.                                   *)
Resize(h) ==
    /\ ~renderer.stopped /\ resizes < MaxResizes /\ resizes' = resizes + 1
    /\ h # terminal.height
    /\ \E top \in {Greater(0, terminal.top + terminal.height - h), Greater(terminal.top, terminal.cursor - h + 1)} :
          /\ terminal.cursor \in top .. top + h - 1
          /\ terminal' = [rows |-> [k \in 1 .. top + h |->
                                      IF k <= Len(terminal.rows) THEN terminal.rows[k] ELSE Blank],
                          top |-> top, cursor |-> terminal.cursor, height |-> h]
    /\ screen' = [screen EXCEPT !.sure = FALSE]
    /\ UNCHANGED <<view, renderer, sizes, updates>>

WatchTerminalSize ==
    /\ ~renderer.stopped /\ sizes.sent = 0 /\ sizes.seen # terminal.height
    /\ sizes' = [seen |-> terminal.height, sent |-> terminal.height]
    /\ UNCHANGED <<view, renderer, terminal, screen, updates, resizes>>

TellSize ==
    /\ ~renderer.stopped /\ sizes.sent # 0
    /\ sizes' = [sizes EXCEPT !.sent = 0]
    /\ Draw(Refreshed([view EXCEPT !.height = sizes.sent, !.chrome = IdleChrome]), renderer)
    /\ UNCHANGED <<updates, resizes>>

----------------------------------------------------------------------------

ScreenInit ==
    \E h \in Heights : \E c \in {0, h - 1} :
        /\ terminal = [rows |-> [k \in 1 .. h + 1 |-> IF k <= c + 1 THEN "shell" ELSE Blank],
                       top |-> 1, cursor |-> c + 1, height |-> h]
        /\ view = [blocks |-> <<>>, cache |-> <<>>, renderDirtyFrom |-> 0, lines |-> <<>>,
                   dirty |-> FALSE, dirtyFrom |-> 0, pending |-> FALSE, height |-> h,
                   chrome |-> IdleChrome]
        /\ renderer = NewRenderer
        /\ sizes = [seen |-> h, sent |-> 0]
        /\ screen = [above |-> [k \in 1 .. c + 1 |-> "shell"], sure |-> TRUE]
        /\ updates = 0 /\ resizes = 0

ScreenNext ==
    \/ UpdateChrome \/ UpdateBlocks \/ Stream \/ RenderTimer
    \/ ResetTranscript \/ ContinueTranscriptBelow \/ Stop
    \/ \E h \in Heights : Resize(h)
    \/ WatchTerminalSize \/ TellSize

ScreenSpec == ScreenInit /\ [][ScreenNext]_screenVars

----------------------------------------------------------------------------

RECURSIVE Trimmed(_)
Trimmed(rows) ==
    IF rows # <<>> /\ Last(rows) = Blank THEN Trimmed(Front(rows)) ELSE rows

(* With a size that was not changed unseen since the terminal was last      *)
(* cleared, it shows what was above the frame and below it the transcript   *)
(* rendered anew and the chrome, nothing twice and nothing stale, with the  *)
(* cursor where the composer wants it; after the end the transcript stays   *)
(* and the chrome is gone (inline_renderer.go:11-23).                       *)
ScreenShowsTranscript ==
    LET r == renderer
        frame == IF r.stopped THEN r.transcript ELSE PreviousFrame(r)
    IN screen.sure =>
        /\ Trimmed(terminal.rows) = Trimmed(screen.above \o frame)
        /\ PreviousFrame(r) # <<>> => terminal.cursor = Len(screen.above) + r.cursor
        /\ ~view.pending => view.lines = TranscriptOf(view.blocks)
        /\ PreviousFrame(r) # <<>> /\ ~r.stopped =>
              /\ r.transcript = view.lines
              /\ view.chrome.cursor # NoCursor => r.cursor = Len(view.lines) + view.chrome.cursor
=============================================================================
