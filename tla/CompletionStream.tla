-------------------------- MODULE CompletionStream --------------------------
(***************************************************************************)
(* A model's answer as a stream: opening it with retries                   *)
(* (pkg/llm/retry.go, pkg/openai/client.go), the lines of the event stream *)
(* (pkg/openai/stream_reader.go), the tool calls put together from deltas  *)
(* (pkg/llm/adapter.go), what is logged of it (wrappers.go), and the       *)
(* response it becomes (pkg/golem/request.go).  The provider is external:  *)
(* it cuts the arguments of its calls into pieces as it likes.             *)
(***************************************************************************)
EXTENDS Integers, Sequences, FiniteSets
LOCAL INSTANCE SequencesExt

CONSTANTS
    StreamRetries,       \* maxRetries of WithRetries
    Statuses,            \* of a refused request; 0: no answer at all
    EmptyMessagesLimit,
    MaxPlan,             \* bound: tool calls of an answer
    Pieces,              \* bound: deltas of a call
    MaxNoise             \* bound: lines without an answer, chunks of text

ASSUME CompletionStreamAssumption ==
    {StreamRetries, EmptyMessagesLimit, MaxPlan, Pieces, MaxNoise} \subseteq Nat /\ Pieces > 0

VARIABLES
    provider,  \* its answer, how it numbers calls, what of it was sent
    opening,   \* retryClient: the attempt, what it waits for
    decoder,    \* streamReader and the streamAdapter above it
    response,  \* consumeModelStream
    logged     \* hookStream: how often and as what the end was logged

streamVars == <<provider, opening, decoder, response, logged>>

----------------------------------------------------------------------------
\* The provider: calls of so many pieces, numbered or told apart by their ids

NoIndex == -1
NoId == ""
CallIds == <<"call1", "call2", "call3">>
StreamedCall(id, name, args) == [id |-> id, name |-> name, args |-> args]
EmptyCall == StreamedCall(NoId, <<>>, <<>>)
PlannedCalls(p) ==
    [c \in 1..p.calls |-> StreamedCall(CallIds[c], <<c>>, [k \in 1..Pieces |-> <<c, k>>])]

(* The k-th delta of call c.                                                *)
Delta(p, c, k) ==
    [index |-> IF p.style = "indexed" THEN p.base + c - 1 ELSE NoIndex,
     id |-> IF k = 1 \/ p.style = "ids" THEN CallIds[c] ELSE NoId,
     name |-> IF k = 1 THEN <<c>> ELSE <<>>,
     args |-> <<<<c, k>>>>]

\* without numbers the calls come one after the other
MaySend(p, c) ==
    p.sent[c] < Pieces /\ (p.style # "indexed" => \A x \in 1 .. c - 1 : p.sent[x] = Pieces)
Sending(p, c) == [p EXCEPT !.sent[c] = @ + 1]
AllSent(p) == \A c \in 1..p.calls : p.sent[c] = Pieces

----------------------------------------------------------------------------
\* mergeToolCallDeltas and snapshotToolCalls

(* Mutant: an id begins a call, also the one it names. *)
TargetOfId(calls, d) ==
    IF d.index # NoIndex THEN d.index + 1
    ELSE IF calls = <<>> \/ d.id # NoId THEN Len(calls) + 1 ELSE Len(calls)

Target(calls, d) ==
    IF d.index # NoIndex THEN d.index + 1
    ELSE IF calls = <<>> \/ (d.id # NoId /\ Last(calls).id # NoId /\ Last(calls).id # d.id)
    THEN Len(calls) + 1
    ELSE Len(calls)

MergeDelta(calls, d) ==
    LET idx == Target(calls, d)
        grown == calls \o [k \in 1 .. idx - Len(calls) |-> EmptyCall]
    IN [grown EXCEPT ![idx] =
          StreamedCall(IF d.id # NoId THEN d.id ELSE @.id, @.name \o d.name, @.args \o d.args)]

SnapshotToolCalls(calls) == SelectSeq(calls, LAMBDA call : call # EmptyCall)

----------------------------------------------------------------------------
\* Opening: createChatCompletionStream behind retryClient.Stream

IsRetryable(status) == status \in {0, 408, 429} \/ status >= 500

RequestRefused(status) ==
    /\ opening.pc = "open"
    /\ opening' = [opening EXCEPT !.pc =
                     IF IsRetryable(status) /\ opening.attempt < StreamRetries THEN "wait" ELSE "failed"]
    /\ UNCHANGED <<provider, decoder, response, logged>>

WaitBeforeRetry ==
    /\ opening.pc = "wait"
    /\ \/ opening' = [pc |-> "open", attempt |-> opening.attempt + 1]
       \/ opening' = [opening EXCEPT !.pc = "failed"]    \* the context ends first
    /\ UNCHANGED <<provider, decoder, response, logged>>

Accepted == /\ opening.pc = "open" /\ opening' = [opening EXCEPT !.pc = "streaming"]
            /\ UNCHANGED <<provider, decoder, response, logged>>

----------------------------------------------------------------------------
\* The lines of the stream

Receiving == opening.pc = "streaming" /\ response.pc = "receiving"

(* What Recv returns other than a chunk ends the loop: an error the request, *)
(* EOF with a response that is not empty.                                   *)
Log(end) == logged' = IF logged = <<>> THEN <<end>> ELSE logged
StreamFails == response' = [response EXCEPT !.pc = "failed"] /\ Log("failed")
Finish ==
    /\ response' = [response EXCEPT !.pc = IF response.text = 0 /\ response.calls = <<>>
                                           THEN "failed" ELSE "returned"]
    /\ Log("finished")

(* The error lines collected so far are the result, however the stream ends. *)
EndOfStream == IF decoder.errors > 0 THEN StreamFails ELSE Finish

Noise == provider.noise < MaxNoise /\ provider' = [provider EXCEPT !.noise = @ + 1]

EmptyLine ==
    /\ Receiving /\ Noise
    /\ decoder' = [decoder EXCEPT !.empty = @ + 1]
    /\ IF decoder.empty + 1 > EmptyMessagesLimit THEN StreamFails ELSE UNCHANGED <<response, logged>>
    /\ UNCHANGED opening

(* A comment, or a field that is not data: only the next chunk forgets the   *)
(* empty lines before it.                                                   *)
IgnoredLine == Receiving /\ Noise /\ UNCHANGED <<opening, decoder, response, logged>>

(* An error the provider sends as data, or a line without a colon, such as  *)
(* a proxy's.                                                               *)
ErrorLine ==
    /\ Receiving /\ provider.noise < MaxNoise
    /\ provider' = [provider EXCEPT !.noise = @ + 1, !.told = TRUE]
    /\ \E data \in BOOLEAN :
          decoder' = [decoder EXCEPT !.errors = @ + 1, !.empty = IF data THEN 0 ELSE @]
    /\ UNCHANGED <<opening, response, logged>>

(* A chunk is decoded, merged and consumed before the next line is read:    *)
(* deltas of calls cs, text, and the reason when it is the last one.        *)
Reason(p) == IF p.calls > 0 THEN "tool_calls" ELSE "stop"

Chunk(cs, text, finish) ==
    LET p == FoldLeft(Sending, provider, cs)
        deltas == [k \in DOMAIN cs |->
                     Delta(provider, cs[k],
                           provider.sent[cs[k]] + Cardinality({x \in 1..k : cs[x] = cs[k]}))]
        merged == FoldLeft(MergeDelta, decoder.calls, deltas)
        calls == SnapshotToolCalls(merged)
    IN /\ Receiving /\ ~provider.finished
       /\ \A k \in DOMAIN cs : MaySend(FoldLeft(Sending, provider, SubSeq(cs, 1, k - 1)), cs[k])
       /\ finish => AllSent(p)
       /\ text => provider.text < MaxNoise
       /\ provider' = [p EXCEPT !.finished = finish, !.text = IF text THEN @ + 1 ELSE @]
       /\ decoder' = [decoder EXCEPT !.calls = merged, !.empty = 0]
       /\ response' = [response EXCEPT
            !.text = IF text THEN @ + 1 ELSE @,
            !.calls = IF finish /\ Reason(p) = "tool_calls" /\ calls # <<>> THEN calls ELSE @,
            !.reason = IF finish THEN Reason(p) ELSE @]
       /\ UNCHANGED <<opening, logged>>

ChunkOfCalls == \E c, d \in 1..provider.calls, finish \in BOOLEAN :
    Chunk(<<c>>, FALSE, finish) \/ Chunk(<<c, d>>, FALSE, finish)
ChunkOfText == \E finish \in BOOLEAN : Chunk(<<>>, TRUE, finish)
LastChunk == Chunk(<<>>, FALSE, TRUE)

(* What was used comes in a chunk without choices after the last.           *)
UsageChunk ==
    /\ Receiving /\ provider.finished /\ ~provider.usage
    /\ provider' = [provider EXCEPT !.usage = TRUE]
    /\ decoder' = [decoder EXCEPT !.usage = TRUE, !.empty = 0]
    /\ UNCHANGED <<opening, response, logged>>

Done ==
    /\ Receiving /\ provider.finished
    /\ EndOfStream /\ decoder' = [decoder EXCEPT !.finished = TRUE]
    /\ UNCHANGED <<provider, opening>>

(* The connection ends without [DONE], cleanly or not.                      *)
ConnectionEnds ==
    /\ Receiving
    /\ EndOfStream \/ StreamFails
    /\ UNCHANGED <<provider, opening, decoder>>

(* The idle timer closes the stream below its reader: logged as its end.    *)
StreamIsIdle ==
    /\ Receiving
    /\ response' = [response EXCEPT !.pc = "failed"] /\ Log("finished")
    /\ UNCHANGED <<provider, opening, decoder>>

----------------------------------------------------------------------------

CompletionInit ==
    /\ \E n \in 0..MaxPlan, style \in {"indexed", "firstid", "ids"}, base \in {0, 1} :
         /\ style # "indexed" => base = 0
         /\ provider = [calls |-> n, style |-> style, base |-> base, sent |-> [c \in 1..n |-> 0],
                        text |-> 0, noise |-> 0, finished |-> FALSE, usage |-> FALSE, told |-> FALSE]
    /\ opening = [pc |-> "open", attempt |-> 0]
    /\ decoder = [calls |-> <<>>, errors |-> 0, empty |-> 0, finished |-> FALSE, usage |-> FALSE]
    /\ response = [pc |-> "receiving", text |-> 0, calls |-> <<>>, reason |-> ""]
    /\ logged = <<>>

CompletionNext ==
    \/ \E status \in Statuses : RequestRefused(status)
    \/ WaitBeforeRetry \/ Accepted
    \/ EmptyLine \/ IgnoredLine \/ ErrorLine
    \/ ChunkOfCalls \/ ChunkOfText \/ LastChunk \/ UsageChunk
    \/ Done \/ ConnectionEnds \/ StreamIsIdle

CompletionSpec == CompletionInit /\ [][CompletionNext]_streamVars

----------------------------------------------------------------------------

(* A response is returned only of an answer in which no error was told, has *)
(* all the text that came, and, if it ends with tool calls, has exactly the *)
(* provider's: whichever way it numbers, interleaves and cuts them          *)
(* (adapter.go:311, stream_reader.go:49 and 92).                            *)
ResponseIsWhole ==
    response.pc = "returned" =>
        /\ ~provider.told
        /\ response.text = provider.text
        /\ response.reason = "tool_calls" => response.calls = PlannedCalls(provider)
        /\ response.reason # "tool_calls" => response.calls = <<>>
        /\ logged = <<"finished">>
=============================================================================
