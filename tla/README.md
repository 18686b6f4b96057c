# Verification of golems

golems is a set of long-running agents in Go (caliban, cy, hugin, ann, abot,
brevity) on shared packages (`pkg/golem`, `pkg/llm`, `pkg/tasks`,
`pkg/telegram` and smaller ones). This directory holds TLA+ models of the parts
whose correctness depends on interleavings, failures and restarts, or on an
algorithm that is easy to get wrong; the TLC configurations that check them on
small instances; and TLAPS proofs of their main properties for every instance.

Contents: [The system](#the-system) · [Modules](#modules) · [Runs](#runs) ·
[Bounds](#bounds) · [Fairness](#fairness) · [Proofs](#proofs) ·
[Findings](#findings) · [What is not modelled](#what-is-not-modelled) ·
[Plan](#plan) · [Running](#running)

## The system

Each component with the state it keeps, its operations, how it meets the
others, what is hard about it, and what makes it correct.

### Shared packages

**Task queue** (`pkg/tasks/queue.go`, `memory.go`, `sqlite/sqlite.go`) —
`TaskQueue`, `TaskLedger`.
*State*: task rows (schedule, next run, attempts, last error, lock token, lock
time) in memory or SQLite; a `Queue` per process with a one-slot wake channel.
*Operations*: Enqueue, Delete, Reschedule by clients; RunLoop: claim, run,
settle, peek, sleep. *Meets*: handlers of caliban and hugin; the group
middleware wraps them. *Hard*: two processes on one store, leases that end
under a running handler, outcomes that come late, a shutdown that says nothing
to the store, a wake between peek and sleep, dead letters. *Correct when*: one
process at a time may settle a row; a late outcome changes nothing; only
handler failures burn attempts; a sleeping loop wakes in time.

**Group middleware** (`pkg/tasks/middleware.go`) — `GroupLimiter`.
*State*: a map from group to a channel of slots and a count of waiters. *Hard*:
the pointer a caller keeps while the map entry is dropped under it. *Correct
when*: never more than the limit, nobody left on a channel that the map forgot.

**Schedules** (`pkg/tasks/schedule.go`) — `Schedules`. Pure functions of a
schedule and an instant: once, every so often, cron in a time zone. *Hard*:
clocks that are set forward and back, days that a month lacks. *Correct when*:
the next run is the first natural occurrence.

**Update dispatch** (`pkg/telegram/dispatcher.go`, `bot.go`) — `Dispatcher`.
*State*: Telegram's queue and offset, the global channel, a channel and
goroutine per chat in a map. *Operations*: poll or webhook, send on, dispatch to
the chat, handle, idle out, stop, restart. *Hard*: the idle timer against an
arriving update; an offset that moves before the update is handed on; full
channels; a last confirmation during shutdown. *Correct when*: one handler per
chat, in order, nothing stranded, nothing confirmed that was not taken.

**Agent turn and requests** (`pkg/golem`, `pkg/murm`) — `Agent`, `Requester`, and
for the durable turn `CySession`. *State*: the shared history, the turn under
the lock; a request's attempts and what was shown of them. *Hard*: batches that end in
the middle, histories that are trimmed, streams that fail after part of them was
shown, budgets against providers' demands. *Correct when*: every request sent
pairs calls with results; what stays shown is what was answered.

**Completion streams** (`pkg/llm`, `pkg/openai`) — `CompletionStream`: opening with
retries, the reader of event lines, tool calls merged from deltas. *Correct
when*: a response has exactly the calls that were sent, whole.

**File search** (`pkg/filesearch`) — `SearchRules`, `FileWalk`, `Braces`: compiled
ignore rules and globs, the walk that leaves directories out, brace expansion.
*Correct when*: the walk returns the files that the rules, read one by one,
leave.

### caliban

One process: transports, the task queue and one worker lane per conversation
over a SQLite store.

**Conversation lane** (`internal/engine/engine.go`, `run.go`,
`internal/store/store.go`) — `Conversation`, `Inbox`. *State*: messages, runs and a
coverage cursor in the store; a one-slot kick channel and the worker's place in
memory. *Hard*: messages during a run; a kick between "nothing due" and sleep; a
store that fails at any call, also while a failure is being stored; a stop
between steps; replies whose ids are later than those of newer messages.
*Correct when*: every accepted message gets exactly one reply.

**Compaction** (`internal/engine/compaction.go`, `maintenance.go`) — `Compaction`.
*State*: summaries, a queue task per conversation. *Hard*: the tail and the cursor are
read at different times beside the lane. *Correct when*: no summary hides a
row that a run is still to see, and a tail over budget is followed by an attempt.

**Scheduled reminders and turns** (`internal/engine/schedule.go`) — `Firing`. *Hard*:
append, push and outcome are three writes, and a retry tells from the
attempts alone what was done. *Correct when*: nothing is passed on undelivered.

**Delegation and prune** (`internal/engine/delegate.go`, `prune.go`) —
`Delegation`. A run opens child conversations, which have no lane: the child's turn runs
inside the call of the run that asked, and has no tools to delegate itself. Old ones
are deleted daily, and ids come back. *Correct when*: a child belongs to one run.

**Background shells** (`internal/tools/background.go`) — `Shells`. A row, a log and a
process per task; readers keep an offset in the row. *Correct when*: no output is
passed over, and the end is stored.

**Workspace** (`internal/workspace`, `reflection.go`) — `Workspace`. Memory files, an
index of them and the persona, changed by runs, by a shell and by the nightly
reflection; commits after every run and reflection are best effort, nothing without git and
only logged when they fail. *Correct when*: an upsert that no other overlaps stays in the
index, and after a commit that was made the persona can be had back.

**Web** (`internal/web`) — `WebSessions` (login, sessions, the limiter), `WebChat` (pages),
`Delivery` (event stream and push, with Telegram's drafts). *Correct when*: an ended session
stays ended, locked addresses stay locked, pages join, and whoever waits for a
run hears of its end.

### hugin

**Incidents** (`internal/incidents/manager.go`, with the calls in
`internal/engine/engine.go` and `internal/storage/sqlite.go`) — `Incidents`.
*Hard*: a read and a later write with the operator between them; failures between
push and record; two subjects in a fixed order. *Correct when*: one active incident
per subject, none that says the analysis is unavailable while a run acts on one, reminders at their interval, nothing reopened, nothing kept
silent.

**Schedule of checks** (`internal/engine`) — `HuginSchedule`: several processes
reconcile the queue's rows with the configurations they started with, run what is due,
and an operator cleans up. **Runner** (`internal/runner`) — `SshPool`: the cache of
SSH connections and the dials that checks share.

### cy

**Session and engine** (`internal/session`, `internal/engine`) — `CySession`. *State*: an
append-only journal and what a replay of it gives; the turn; queued inputs.
*Hard*: short writes, crashes, cancellation between calls, pruning and compaction
over the same messages. *Correct when*: every open replays the journal that was left,
and every call of a run that was answered has its result.

**Terminal and session agent** (`internal/ui`, `session_agent.go`) — `CyTerminal`: the event
loop beside a turn's goroutine and a maintenance goroutine under an RWMutex, and
a second process on the same directories. **Screen** — `InlineRenderer`: the
transcript, two caches and a renderer that writes only what changed.
**Jobs** (`internal/tools/process.go`) — `Jobs`. **File tools**
(`internal/tools/files.go`, `diff.go`) — `FileTools`, `LineDiff`.

### ann, abot, brevity

**ann** keeps group chats with a judge, replies that supersede each other and a
compaction beside new messages — `Ann`. **abot** is an example bot of one file, **brevity**
a pipeline without shared state; neither is modelled.

## Modules

| Module | Models | State and actions |
| --- | --- | --- |
| `TaskQueue` | `pkg/tasks`: stores, clients, `RunLoop` | `rows` is the store, `pc[q]` where a process's loop is, `claims[q]` what its `RunOnce` holds, `wake[q]` the channel. A store call is one step, since both stores run it under a lock or in a transaction; anything may come between two. `Abandon` is a handler that ends with the process's context. |
| `TaskLedger` | what a user of the queue sees | A task is absent, ready, open or dead. Refined by `TaskQueue` under the mapping `View`. |
| `GroupLimiter` | `middleware.go` | Each locked block, channel operation and cancellation is a step. A state's address is an element of `States`, taken again when nobody points to it. |
| `Conversation` | the lane and its store | A row's id is its position in `msgs`. Each store call is a step with its failure as an action of its own; `Crash` and `Start` are the process. A turn's rows count as one, every row as one token. |
| `Inbox` | what a client of the lane sees | A new reply to an unanswered message answers it and all before it. Refined by `Conversation` and by `Compaction`. |
| `Compaction` | extends `Conversation` with the task's row and its handler | `CheckTail`, `Schedule`, `Claim`, `ReadCover`, `CreateMaintenanceRun`, `AppendSummary`, ... each with its failure. The handler never overlaps itself, which is `TaskQueue`'s theorem `QueueOneOwner`. |
| `Firing` | reminders and scheduled turns | append, notify, settle; of the queue only the attempts and the row's state. `lost`, `settled` are history. |
| `Delegation` | child conversations, prune, starts | The tables `conversations`, `agentRuns`, `rows`, and for each lane a frame with the child's turn in it; `Calling` is what tools a turn has; rows are deleted and ids are one more than the largest. |
| `Shells` | background shells | The row, the process, its log and the live map of each task; readers between their read, their statement and their answer. |
| `Workspace` | memory files, index, persona, commits | Titles that differ in spelling only are one fact. Between reading the index and writing it a lane holds the old lines in its hand; `Commit` is without git or may fail; `PowerCut` loses a write that was not complete, and the next process may find git or not. |
| `WebSessions` | login | A handler's calls of the store and of the limiter are steps. |
| `WebChat` | pages of a chat | A page is a range of rows found by two queries, and rows are appended between them; a client's limit is clamped as `chatMessageLimit` does. |
| `Delivery` | events, drafts, push | Each worker's events, a browser that `ResolveChat` lets follow either conversation, its buffer that drops what does not fit, pushes to endpoints. |
| `Dispatcher` | the update loop of `pkg/telegram` | An update is its number; a chat's channel and goroutine are an element of `Workers`. A poll returns every unconfirmed update; `waitUpdates`' receive and the block after it are one step, since nobody else reads the channel. |
| `Incidents` | one check's incidents | `BeginRun`, `Analyse`, `Recover`, `ReadActive`, then `Resolve`, `Create` or `Update`, then `Notify` and `Mark`; failures, a crash, and `hugin resolve` between any of them. `Processes` may be several. |
| `HuginSchedule` | the schedule of checks | Each process with the configuration it read; the rows, the runs and the ids that active incidents name. |
| `SshPool` | SSH connections of one target | The cache, the shared dials, evictions, and Close; a dial ends with the check that began it. |
| `CySession` | journal, engine, one job | `disk` is the complete lines, `tail` what follows the last newline, `seq` the number the writer is at; the turn's place is `turn.pc`. Token estimates are weights. |
| `CyTerminal` | terminal and session agent | The screen, the turn's and the maintenance goroutine, the lock, the directories, and a second process. |
| `Jobs` | cy's process manager | One tool call at a time, a monitor per job, and Close. |
| `InlineRenderer` | the screen | Blocks, both caches, the rows the renderer believes in, and the terminal, which is external. |
| `FileTools`, `LineDiff` | read, edit, write; the diff | Steps between a look, a temporary file, the second look and the rename; Myers' script as functions. |
| `SearchRules`, `FileWalk`, `Braces` | `pkg/filesearch` | Scans with two pointers; ignore files read line by line, and the walk with its stacks; expansion pass by pass. |
| `Requester` | one logical request | Attempts, hooks, recovery, delays, budget, the idle timer, and what was shown. |
| `Agent` | the in-memory agent | A turn's loop of requests and batches, trimming, and the translator of its stream. |
| `CompletionStream` | streams of answers | A provider that cuts calls into pieces, retries, the reader and the adapter. |
| `Schedules` | `schedule.go` | Minutes on a calendar whose units are constants. |
| `Ann` | one group chat | The log, the checkpoint, memory, generations, and the compaction. |
| `MCX` | instances for TLC | `MCQueues`, `MCDispatcher`, `MCHugin`, `MCServices` and `MCSessions` hold several components that share no state; in each behaviour one of them moves. |
| `X_proofs` | theorems and their proofs | |

`PROJECT.json` maps every definition to the lines it stands for. A definition
whose comment starts with "Mutant" is the mutated form of the one it precedes;
nothing else uses it.

## Runs

Twelve runs. Deadlock is not checked where the modelled system really may stop:
a bound is reached, no more client calls come, a task is gone.

| Run | Module | What it asks | Result |
| --- | --- | --- | --- |
| `queue` | `MCQueues` | `ClaimIsCurrent` and the refinement of `TaskLedger` for two processes on one row; `SoloNoOversleep` for one process over two rows | holds |
| `conversation` | `Compaction` | `FoldsAnsweredOnly`, the refinement of `Inbox`, `EveryMessageAnswered`, `CompactionTried` | holds |
| `dispatch` | `MCDispatcher` | `AckedIsTaken`, `NobodyStranded`, `InOrder`, `EveryUpdateTaken`; and for a background shell `NothingSkipped` | holds |
| `hugin` | `MCHugin` | `IncidentsAgree`, `ReminderSpacing`, `EveryIncidentAnnounced`; `SyncReconciles`, `ActiveIncidentsHaveRuns` | holds |
| `services` | `MCServices` | one property each of the limiter, firings, requests, ann, the login (two), pages, deliveries, the agent, SSH connections, delegation, the workspace, streams and schedules | holds |
| `sessions` | `MCSessions` | `JournalReplays`, `AnsweredRunsHaveResults`, `RuntimeIsConsistent`, `EndIsTold`, `WalkIsRight`, `BracesAgree`, `FileIsAsSeen`, `PatchApplies`, `ScreenShowsTranscript` | holds |
| `queue_anchor` | `MCQueues` | `AnchorKept`: a recurring task stays on the grid of its start | violated |
| `firing_record` | `Firing` | `EachFiringRecorded` | violated |
| `compaction_reply` | `Compaction` | `EarlierRepliesSeen` | violated |
| `cy_cancel` | `MCCySession` | `RequestHasResults` | violated |
| `delegation_ensured` | `Delegation` | `EnsuredIsTopLevel` | violated |
| `cron_fallback` | `MCSchedules` | `DueIsAhead` | violated |

In `services`, `sessions`, `hugin`, `dispatch` and `queue` a variable chosen at the start
(`focus`, `part`, `watched`, `hosted`, `alone`) says which component moves, so the states
of the components add up instead of multiplying. They share no variable and no
action of one reads another's, so nothing is lost. `services` has a `VIEW` for the
component that moves; the others stay as they began.

## Bounds

A bound stands in the guard of the action it stops, or in a cfg.

- `TaskQueue`: `MaxTime` (clock), `MaxTokens` (claims), `MaxDelay` (how far ahead a
  client schedules). With a lease of one tick and three claims over two processes,
  a row is claimed, lost to its lease, claimed by the other process and settled
  late by the first, then claimed again: the longest conflict the token has to
  fence. Two attempts give a failure that retries and one that is a dead letter.
- `Conversation` and `Compaction`: two messages with their replies exceed a budget of two
  rows and leave something to keep; one fault, in the lane or the handler, is
  followed by a second attempt beside a lane that goes on.
- `Dispatcher`: two polled updates have one in hand and one behind; three at the
  webhook fill a chat's channel of one while the other chat's worker comes and goes.
- `Shells`: a log of two chunks read one by one by two calls, each of which may come
  from an old offset.
- `Incidents`: with a cooldown of one second and a repeat after two, three seconds see a
  reminder that falls due and a second look that comes too early; two rows are
  an incident per subject, or one and its successor.
- `HuginSchedule`: two processes, one edit of the configuration between their starts.
- `GroupLimiter`: as many states as callers, so that a dropped group's successor
  exists while others still point to the old one.
- `Firing`: three attempts stand for the code's five: a first, one between, a last.
- `Requester`: budgets and delays on both sides of what providers ask for.
- `Ann`: a threshold of three with four messages starts a compaction and a message
  arrives during it; one failing write or crash.
- `WebSessions`: a session of two ticks that is touched after one, two handlers, and
  one attempt before a lockout.
- `WebChat`: pages of one to three rows, of a client that names no limit, a small one or one
  above the maximum, are smaller than a run's rows or than the cap of three; six rows are three pages.
- `Agent`: three kept messages cut a block of a call with two results.
- `SshPool`: three checks, two dials: one in the cache or forgotten, one new.
- `Delegation`: the main conversation, the web's and one child; ids come back
  after the prune.
- `Workspace`: two lanes, two facts, each of two spellings, which is what an upsert may change
  of a line; one revision of the persona, one power cut.
- `Delivery`: two runs and a buffer of one event, so that an end may be dropped.
- `CompletionStream`: two calls of two pieces with lines of noise; every style of
  numbering.
- `Schedules`: hours of two minutes, days of three hours, months of the lengths in
  `TwoMonths`; every minute of sixteen is watched.
- `CySession`: two prompts, two turns, one tool iteration, any batch of `SomeBatches`,
  two crashes or short writes; an input limit that two turns exceed, so that
  pruning, automatic compaction and the one rebuild all happen.
- `CyTerminal`: two sessions, two models, three commands, a channel of one event.
- `Jobs`: two jobs, one replacing the other in a call.
- `FileWalk`: directories `a`, `a/b` and `b` in the order of the walk, each with files, so that
  rules left over from `a` or `a/b` would decide on files of `b`; git rules at the root and in
  `a/b`, `.ignore` in `a`, `.rgignore` at the root, git's exclude file; a link, a bad glob, a
  line or a file too long at four places. Not every kind of rule is tried in every directory.
- `Braces`: five characters after each of four beginnings with a limit of four expansions,
  which nested groups (`{x,{x,x,x},...}`) and groups in a row (`{x,x}{x,x,x}`) both pass; `FileTools`: pages of two
  lines or three bytes; `LineDiff`: every pair of files of up to five lines; `InlineRenderer`:
  a terminal that the chrome fills and one of two rows more, three blocks, two updates, one resize.

## Fairness

Liveness is checked under the fairness the code's scheduling gives.

- `conversation`: a caller that has appended goes on to kick; the worker's
  goroutine runs; the process is restarted; the check of the tail after a run goes
  on; a due task is claimed (`TaskQueue`). Faults are finite (`MaxFaults`). Nothing
  forces clients to write.
- `dispatch`: the poller, the dispatcher and handlers run; the process does not
  stay stopped. `Receive` is strongly fair: a worker's idle timer is enabled in the
  model at any time, while the code's runs ten minutes, so it does not win
  against a waiting update for ever.
- `hugin`: runs follow each other on the check's schedule, a run's statements go
  on, and the model answers again and again although any single analysis may
  fail (strong fairness of a verdict).

The other runs check safety only.

## Proofs

Every theorem is checked by tlapm without assumptions beyond the named
`ASSUME`s on constants, which the runs evaluate. None of them bounds the
instance: the sets of processes, rows, callers, chats, checks, facts, sessions and
jobs and all limits are arbitrary. The assumptions say that bounds and durations are
numbers, that a limit or a capacity is not zero where the code cannot be configured so,
that a run ends before its children can be pruned (`DelegationAssumption`: ten minutes and
seven days in the code), that every line takes room on a page (`FileAssumption`),
and that there is at least one check (`HuginScheduleAssumption`) and one fact
(`WorkspaceAssumption`), without which those models have nothing to be about.

Each proof has the same shape: an inductive invariant that strengthens the
property, a lemma per conjunct and per action that can disturb it, and the
temporal step at the end. What a step does to single fields is stated once per
action (the `...Does` lemmas), so that the invariants are argued over fields and not over
records with replaced parts.

**`TaskQueue_proofs`.** `IInv`: types, the token discipline (tokens in rows and processes
were handed out; no two processes hold the same; a row that carries a process's
token is in its claims), claims only inside a run, and the row invariants
`LockedRowsAreDue`, `ClaimIsCurrent`, `DeadLetters`. A stale outcome does nothing
because its token is no longer in the row, and tokens are never reused. From it
`QueueLocks`, `QueueClaims`, `QueueDeadLetters`, `QueueOneOwner`, the action property
`QueueFreeRows`, the refinement `QueueImplementsLedger` (one step lemma per action),
and `QueueNoOversleep` for a lone process, with its own strengthening; it
is what `SoloNoOversleep` checks on an instance.

**`GroupLimiter_proofs`.** `LInv`: each state's length and count equal the
cardinalities of the callers that hold and wait, and all callers on a state are of
one group. From it the limit, no stranded caller, no leak, and that release always
finds its slot and never blocks.

**`Conversation_proofs`.** `IInv`: types, the lane's input is still due
(`InputIsDue`), reply rows belong to runs that ended (`RepliesSettled`), and what
the cursor covers has a reply (`CoveredReplied`). Only the lane moves the cursor, and
`Complete` moves it to its own input. From it `ConversationCover`,
`ConversationNothingStranded` and `ConversationImplementsInbox`. For delegated work,
`DelegationInv`: a run that is executed is in time (`RunsAreInTime`), its children are not
older than the run (`ChildrenAreYoung`), so that the prune's cutoff cannot reach the child of a
call; a child has no lane (`LanesServeTopLevel`), so that its runs are nobody's own; and an id
that is drawn is on no row (`NextIdIsNew`). From it `DelegatedRunsHaveParents`.

**`Compaction_proofs`.** `CInv` is the lane's `IInv` with the handler's types and
`FoldsAnsweredOnly`; the lane's lemmas are reused. The fold is clamped to a cursor
that only grows. From it `CompactionFoldsAnswered`, and that the lane beside
compaction still implements `Inbox`.

**`Dispatcher_proofs`.** `IInv`: the map and the live workers agree while the
process runs (`Mapped`), the offset is never ahead of what was sent by more than
the update in hand (`Confirmable`), and what is further down is older (`Queued`).
From it one worker per chat, `NobodyStranded`, `InOrder` and `AckedIsTaken`.

**`Incidents_proofs`.** For any processes, `IInv` (types, no row opened in the
future, a process's record fits where it is) gives `IncidentsTypeOK` and
`IncidentsResolvedStays`. For one process, `Alone` adds what it knows between its
read and its write: active rows of a subject are unique, the one it read is the
only one that can be active, the last push it read is the one on record, and the
analysis has no active incident when it acts on a verdict. `HandleResolve` only
shrinks the active rows, which keeps all of it. From it `IncidentsAgree`
(`OneActive` and `VerdictWithAnalysisClosed`) and `ReminderSpacing`. The schedule's `ScheduleInv`: active incidents
name runs that are there, an analysed run is newer than the cleanup's cut
(`AnalysedAreNew`), and a process that syncs alone has given rows to the checks
it has passed (`SyncAdvances`).

**`Services_proofs`**, with an invariant per component:

- `WebInv`: an ended token is in no row (`EndedAreGone`), and a handler that still writes
  for it arrived before the end (`LateIsOver`): its update finds no row. `BegunBefore` orders
  arrivals and ends. The lockout is an action property from the same invariant.
- `PoolInv`: a check that holds a client has settled its dial (`HeldAreSettled`), one that is
  to close a client has evicted it (`ClosersHaveEvicted`), the cached one is open.
- `FiringInv`: where the handler is says what has been written (`HandlerFollows`), its
  outcome is true of the deliveries (`OutcomeIsTrue`), and rows exceed one only by lost
  outcomes (`RowsAreFew`).
- `RequesterInv`: what is shown is the current attempt's (`ShownFollows`), and a wait fits
  what is left of the budget (`WaitsFit`).
- `ShellsInv`: a call that is about to advance the offset shows what it read
  (`ReadsAreShown`), what it knows of the end is true (`ReadersKnow`), and rows follow processes.
- `DeliveryInv`: who is told of an end finds it stored (`DonesAreStored`); whoever waits has
  the end in the buffer, in a push or ahead in a worker (`WaitersAreCovered`).
- `WorkspaceInv`: overlaps are seen by both sides (`MetIsSeen`), lines are unique, a lone
  upsert's line is in the index or in the hand that will write it (`LoneIsIndexed`,
  `LoneIsHeld`), and a persona that was recorded and not touched since is in a commit. Nothing is
  said of commits that are not made: without git, or after one that failed and was only logged,
  what replaces the persona cannot be undone, against the comment at workspace.go:72.
- `AnnInv`: until a write fails, what the checkpoint has passed is summarised
  (`PassedAreSummarised`), what is being folded is the head of the rest (`FoldIsHead`), and
  memory is the rest, without that head once its summary is stored (`MemoryIsTail`).
- `ChatInv`: pages are ranges of the rows there are (`PagesAreRows`), each ends where
  the one before began (`PagesFollow`), and each has the inputs of its runs or all the rows
  that it may have (`PagesAreWhole`). Rows are only appended, so that a page stays what it was.
- `AgentInv`: a history is paired (`Paired`), or while a response's calls are
  answered it is a paired one with that response and its first results behind it (`Open`).
  Trimming, appending and joining keep both; the cut is a user's message or a response, which
  is where a paired history may be cut.

**`Sessions_proofs`.** `JobsInv`: a job's record follows its process
(`EndsFollowExits`), and one that is not listed is killed. `TerminalInv` relates four
actors: the lock's holders are who holds it (`AgentHoldsLock`), the screen knows what
the turn and the maintenance goroutine do (`ScreenKnows`), the agent's session is
there and locked by this process (`SessionIsThere`, `LockedIsThere`), `/clear` runs alone, the
journal names the model of the agent except while the switch that changes both is
under way (`JournalNamesModel`), and a probe that read one generation of the processes
writes only to that one (`SameAgain`). From it `RuntimeIsConsistent` and that two writers never
append to a journal at once although both hold only a read lock (`TerminalOneAppender`).
The journal has two invariants. `JournalInv`: the process that has it open numbers from what
is on disk, and only a failed write, which it remembers, leaves a partial line
(`WriterKnows`); a turn that answers calls names a response on disk (`CallsAreThere`). Every
step is shown to write only what a replay accepts (`Written`, `StepGoes`): a pruning boundary
advances, and of a run of records any prefix does as well. `AnswersInv`: a pending call of the current
run lies behind the place where the turn answers its response (`CallsBelong`), no turn
that still asks has a final answer (`NoAnswerYet`), and a new run's number is on no record.
From them `JournalAlwaysReplays` and `FinalAnswersHaveResults`.
`FileInv`: what a reader was shown are the lines ahead of its next, and with one digest
throughout they are lines of that file (`ShownAreAhead`); that a page ends inside the file
needs the last line that fits, and not what the sizes add up to. A call that is about to rename has
found the file as it read it, unless it was saved since (`ReplacesWhatItSaw`). From both `FileSeenAsItIs`.

**Only model-checked**:

- Liveness (`EveryMessageAnswered`, `CompactionTried`, `EveryUpdateTaken`,
  `EveryIncidentAnnounced`): under fairness it is out of this prover's reach.
- `WalkIsRight`, `BracesAgree`, `PatchApplies`, `ScreenShowsTranscript`, `ResponseIsWhole`: they are about
  recursive operators, what a loop computes for every input, which needs induction over
  data.
- `DueIsNatural`: calendar arithmetic, what a search through the days finds for every expression.

## Findings

Six statements of the repository that the code does not keep.

1. `queue_anchor`: after a failure a recurring row's next run is the retry time,
   and the success of that retry advances from there, so an anchored task leaves
   its grid for good. `pkg/tasks/README.md` promises the next natural occurrence.
2. `compaction_reply`: `foldPoint` aligns its cut to a user's row, and the clamp to the
   cursor undoes it, since a reply has a later id than the cursor. The kept rows
   open on that reply, trimming drops it, and the next run sees neither it nor a
   summary of it.
3. `firing_record`: a failed append on a firing's first attempt burns the attempt,
   and the retry takes `Attempts > 0` to mean that the row exists: the reminder is
   pushed and never recorded, against the comment that each firing records once.
4. `cy_cancel`: a context cancelled between a response and its calls ends the batch
   without results; only opening a session reconciles, so the next turn of the same
   process sends an assistant message whose calls have none.
5. `delegation_ensured`: a service without its web page delegates, the child takes the
   id that the configuration gives to the web, and a start with the page binds the web to it.
6. `cron_fallback`: west of UTC, when the clock is set back, a cron task that ran in the
   second of the two hours is due in its past, and runs again at once until the hour
   has passed.

Observations without a run; the models
have the steps, and `PROJECT.json` lists them under "hazards". Two overlapping
hugin processes can each open an incident for the same check. An empty session's
directory is removed after its lock, so a turn of another process can be lost. A
message whose append to ann's log failed makes the next checkpoint skip a line
that was never summarised. Two upserts at once lose lines of the index: `FilesAreKept` is about
facts whose upsert met no other, and does not catch that loss. A glob whose braces stand for a few
alternatives more than the limit of 128 is accepted, against `doc.go`:8, when those trail the last one expanded
in a pass; `BracesAgree` says which.

What some properties leave out: `IncidentsAgree` is checked for one process at a time on a check;
`DueIsNatural` is about days on which the clock is not changed, and only `cron_fallback`
looks at the others; `FileIsAsSeen` leaves out a save between the last look and the rename, which
no code can see.

## What is not modelled

- Parsing, layout, prompts, HTTP, SSH, SQL text, file formats: pure I/O or data
  that no property tells apart.
- The conformance suite of `pkg/tasks` (test support; it is why one module models both
  stores), Telegram's client and message layout, the libraries under `pkg/` without shared
  state, hugin's analysis, notifier and command line.
- Parts of modelled components: the foreground shell and sandboxes, cy's widths and styles,
  history and suggestions, ann's soul and control chat, the text search of
  `pkg/filesearch`, usage totals, skills and history tools.
- `abot` and `brevity`: no state that outlives a message.

## Plan

The components of the plan are modelled, checked and proved about as far as the tools reach.

- Every other invariant and action property of the passing runs has its theorem; that of a
  queue's lone process is proved in the form of its module.
- Liveness, calendar arithmetic and what recursive operators compute stay with TLC.

## Running

    tlc -workers 2 -config MCServices.cfg MCServices.tla
    tlapm Services_proofs.tla

Every run ends within three minutes on two workers, each proof module within
fifteen from nothing.
