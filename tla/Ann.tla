-------------------------------- MODULE Ann --------------------------------
(***************************************************************************)
(* Ann's session of one group chat (ann/session.go, engine.go, compact.go, *)
(* storage.go): messages that are observed or answered, the debounce that  *)
(* cancels a generation when a newer one starts, proactive replies, and    *)
(* the compaction that folds all but the last two messages into a summary  *)
(* beside new messages.  The log is append only; a checkpoint counts the   *)
(* lines that a cold start skips.                                          *)
(***************************************************************************)
EXTENDS Naturals, Sequences

CONSTANTS Repliers,            \* generations in progress
          CompactionThreshold, \* messages that start a compaction
          MaxAnnMessages,      \* bound: messages
          MaxAnnFaults         \* bound: writes that fail and crashes

ASSUME AnnAssumption == CompactionThreshold \in Nat \ {0, 1, 2}

VARIABLES
    annDisk,      \* the log, the checkpoint and the messages whose summary is stored
    session,   \* what the registry holds in memory; sessions are never evicted
    compactor, \* the compaction in progress
    replier,   \* per generation: where it is
    canceler,  \* the latest generation, whose context the next one cancels
    made, writeFaults, annCrashes

annVars == <<annDisk, session, compactor, replier, canceler, made, writeFaults, annCrashes>>

Unloaded  == [loaded |-> FALSE, messages |-> <<>>, judged |-> 0]
NoFold  == [pc |-> "idle", index |-> 0, folded |-> {}, spawned |-> 0]
Over(c) == [NoFold EXCEPT !.spawned = c.spawned]
Nobody  == "nobody"
NoReply == [pc |-> "idle", deferred |-> FALSE, cancelled |-> FALSE]

Latest(s)  == s[Len(s)]
Ids(s)   == {s[i] : i \in DOMAIN s}

AnnInit == /\ annDisk = [log |-> <<>>, checkpoint |-> 0, summarised |-> {}]
           /\ session = Unloaded /\ compactor = NoFold
           /\ replier = [p \in Repliers |-> NoReply] /\ canceler = Nobody
           /\ made = 0 /\ writeFaults = 0 /\ annCrashes = 0

FaultLeft == writeFaults + annCrashes < MaxAnnFaults
WriteFails == FaultLeft /\ writeFaults' = writeFaults + 1

\* Session.mu is held while a compaction commits
Unlocked == compactor.pc \notin {"summary", "checkpoint"}

----------------------------------------------------------------------------
\* GetSession on a cache miss: the lines after the checkpoint

GetSession == /\ ~session.loaded
              /\ session' = [Unloaded EXCEPT !.loaded = TRUE,
                   !.messages = SubSeq(annDisk.log, annDisk.checkpoint + 1, Len(annDisk.log))]
              /\ UNCHANGED <<annDisk, compactor, replier, canceler, made, writeFaults, annCrashes>>

\* AddMessage: memory first, then the log; an error leaves the message in memory.
\* Enough messages spawn a compaction unless one is running.
AddMessage(ai) ==
    LET m    == [id |-> made + 1, ai |-> ai]
        kept == Append(session.messages, m)
    IN  /\ session.loaded /\ Unlocked /\ made < MaxAnnMessages
        /\ made' = made + 1
        /\ \/ /\ annDisk' = [annDisk EXCEPT !.log = Append(@, m)] /\ UNCHANGED writeFaults
              /\ IF Len(kept) >= CompactionThreshold /\ compactor.pc = "idle"
                 THEN compactor' = [compactor EXCEPT !.spawned = @ + 1] ELSE UNCHANGED compactor
           \/ WriteFails /\ UNCHANGED <<annDisk, compactor>>
        /\ session' = [session EXCEPT !.messages = kept]

\* ObserveMessage: a message nobody asked the bot to answer
ObserveMessage == AddMessage(FALSE) /\ UNCHANGED <<replier, canceler, annCrashes>>

Superseded == [q \in Repliers |-> IF q = canceler THEN [replier[q] EXCEPT !.cancelled = TRUE]
                                  ELSE replier[q]]

\* ProcessMessage: the previous generation is cancelled, then the message is added
ProcessMessage(p) ==
    /\ replier[p].pc = "idle" /\ AddMessage(FALSE)
    /\ replier' = [Superseded EXCEPT ![p] = [NoReply EXCEPT !.pc = IF annDisk' = annDisk THEN "idle" ELSE "chat"]]
    /\ canceler' = p /\ UNCHANGED annCrashes

\* ClaimProactiveReplyCandidate: once per message, never after the bot's own
ClaimProactiveReply(p) ==
    /\ session.loaded /\ Unlocked /\ replier[p].pc = "idle" /\ session.messages # <<>>
    /\ ~Latest(session.messages).ai /\ session.judged # made
    /\ session' = [session EXCEPT !.judged = made]
    /\ replier' = [replier EXCEPT ![p].pc = "judge"]
    /\ UNCHANGED <<annDisk, compactor, canceler, made, writeFaults, annCrashes>>

\* the judge's yes starts a generation on what the session then holds
Judged(p) ==
    /\ replier[p].pc = "judge"
    /\ \/ replier' = [Superseded EXCEPT ![p] = [pc |-> "chat", deferred |-> TRUE, cancelled |-> FALSE]]
          /\ canceler' = p
       \/ replier' = [replier EXCEPT ![p] = NoReply] /\ UNCHANGED canceler
    /\ UNCHANGED <<annDisk, session, compactor, made, writeFaults, annCrashes>>

\* the model's answer, or its error; a superseded reply is not recorded, and sent
\* only as the answer to a message
ChatReturns(p) ==
    /\ replier[p].pc = "chat"
    /\ \E pc \in {"idle", "record", "send"} :
         /\ pc = "record" => ~replier[p].cancelled
         /\ pc = "send" => replier[p].cancelled /\ ~replier[p].deferred
         /\ replier' = [replier EXCEPT ![p].pc = pc]
    /\ UNCHANGED <<annDisk, session, compactor, canceler, made, writeFaults, annCrashes>>

\* the reply is added once its context has been looked at, and then sent whatever happened
RecordReply(p) ==
    /\ replier[p].pc = "record" /\ AddMessage(TRUE)
    /\ replier' = [replier EXCEPT ![p].pc = "send"] /\ UNCHANGED <<canceler, annCrashes>>

SendReply(p) ==
    /\ replier[p].pc = "send"
    /\ replier' = [replier EXCEPT ![p] = NoReply]
    /\ UNCHANGED <<annDisk, session, compactor, canceler, made, writeFaults, annCrashes>>

----------------------------------------------------------------------------
\* DoCompaction

\* a goroutine that comes too late, or finds one running, returns
NothingToCompact ==
    /\ compactor.spawned > 0
    /\ compactor.pc # "idle" \/ Len(session.messages) < CompactionThreshold
    /\ compactor' = [compactor EXCEPT !.spawned = @ - 1]
    /\ UNCHANGED <<annDisk, session, replier, canceler, made, writeFaults, annCrashes>>

\* the index and the text are taken before the model is asked
BeginCompaction ==
    LET index == Len(session.messages) - 2 IN
    /\ compactor.spawned > 0 /\ compactor.pc = "idle"
    /\ Len(session.messages) >= CompactionThreshold
    /\ compactor' = [pc |-> "asked", index |-> index, spawned |-> compactor.spawned - 1,
                     folded |-> {m.id : m \in Ids(SubSeq(session.messages, 1, index))}]
    /\ UNCHANGED <<annDisk, session, replier, canceler, made, writeFaults, annCrashes>>

\* Mutant: the index is taken again when the answer is there
CompactorAnswersLate ==
    /\ compactor.pc = "asked"
    /\ \/ /\ compactor' = [compactor EXCEPT !.pc = "summary", !.index = Len(session.messages) - 2]
          /\ session' = [session EXCEPT !.messages = SubSeq(@, Len(@) - 1, Len(@))]
       \/ compactor' = Over(compactor) /\ UNCHANGED session
    /\ UNCHANGED <<annDisk, replier, canceler, made, writeFaults, annCrashes>>

\* a summary: memory drops what was folded, and the commit begins; no summary: nothing
CompactorAnswers ==
    /\ compactor.pc = "asked"
    /\ \/ /\ compactor' = [compactor EXCEPT !.pc = "summary"]
          /\ session' = [session EXCEPT !.messages = SubSeq(@, compactor.index + 1, Len(@))]
       \/ compactor' = Over(compactor) /\ UNCHANGED session
    /\ UNCHANGED <<annDisk, replier, canceler, made, writeFaults, annCrashes>>

\* AppendSummary and IncrementCheckpoint: errors are dropped
StoreSummary ==
    /\ compactor.pc = "summary"
    /\ compactor' = [compactor EXCEPT !.pc = "checkpoint"]
    /\ \/ annDisk' = [annDisk EXCEPT !.summarised = @ \cup compactor.folded] /\ UNCHANGED writeFaults
       \/ WriteFails /\ UNCHANGED annDisk
    /\ UNCHANGED <<session, replier, canceler, made, annCrashes>>

IncrementCheckpoint ==
    /\ compactor.pc = "checkpoint"
    /\ compactor' = Over(compactor)
    /\ \/ annDisk' = [annDisk EXCEPT !.checkpoint = @ + compactor.index] /\ UNCHANGED writeFaults
       \/ WriteFails /\ UNCHANGED annDisk
    /\ UNCHANGED <<session, replier, canceler, made, annCrashes>>

\* memory, generations and the compaction are gone
AnnCrashes ==
    /\ FaultLeft /\ annCrashes' = annCrashes + 1
    /\ session' = Unloaded /\ compactor' = NoFold
    /\ replier' = [p \in Repliers |-> NoReply] /\ canceler' = Nobody
    /\ UNCHANGED <<annDisk, made, writeFaults>>

AnnNext ==
    \/ GetSession \/ ObserveMessage
    \/ \E p \in Repliers : ProcessMessage(p) \/ ClaimProactiveReply(p) \/ Judged(p)
                           \/ ChatReturns(p) \/ RecordReply(p) \/ SendReply(p)
    \/ NothingToCompact \/ BeginCompaction \/ CompactorAnswers \/ StoreSummary \/ IncrementCheckpoint \/ AnnCrashes

AnnSpec == AnnInit /\ [][AnnNext]_annVars

----------------------------------------------------------------------------

AnnTypeOK ==
    /\ annDisk.checkpoint \in Nat /\ annDisk.summarised \subseteq 1 .. made
    /\ Ids(annDisk.log) \subseteq [id : 1 .. made, ai : BOOLEAN]
    /\ compactor.pc \in {"idle", "asked", "summary", "checkpoint"}

(* While writes succeed no message is forgotten: a line that a cold start skips
   has been folded into a stored summary, and the messages in memory are the
   lines it would load, whatever arrived while the model was asked and wherever
   the process stopped. *)
NothingForgotten ==
    writeFaults = 0 =>
        /\ \A i \in 1 .. annDisk.checkpoint :
             i <= Len(annDisk.log) /\ annDisk.log[i].id \in annDisk.summarised
        /\ session.loaded /\ Unlocked =>
             session.messages = SubSeq(annDisk.log, annDisk.checkpoint + 1, Len(annDisk.log))
=============================================================================
