----------------------------- MODULE Dispatcher -----------------------------
(***************************************************************************)
(* The update loop of pkg/telegram (dispatcher.go): updates arrive by       *)
(* polling or by webhook, enter one global channel, and waitUpdates hands   *)
(* each to the channel of its chat.  A chat's worker starts with its first  *)
(* update and leaves after ten idle minutes, while updates still arrive.    *)
(* An update is its number: Telegram's id when polling, the order of        *)
(* arrival at WebhookHandler otherwise.                                     *)
(***************************************************************************)
EXTENDS Naturals, Sequences, FiniteSets

CONSTANTS
    Ways,         \* the ways a bot may be started, see poller
    Chats,        \* chat IDs
    Workers,      \* chat channels, each with the goroutine that reads it
    UpdatesCap,   \* capacity of Bot.updates
    ChatCap,      \* capacity of a chat's channel
    MaxPolled,    \* bound: updates that ever arrive at Telegram,
    MaxUpdates,   \* or at the webhook
    MaxDispatcherFaults     \* bound: failed polls, stops and crashes

(* A chat that is not in the map.                                           *)
Nil == "nil"

ASSUME DispatcherAssumption ==
    /\ Ways \subseteq {"top", "webhook"}
    /\ UpdatesCap \in Nat \ {0}
    /\ ChatCap \in Nat \ {0}
    /\ MaxPolled \in Nat
    /\ MaxUpdates \in Nat
    /\ MaxDispatcherFaults \in Nat
    /\ Nil \notin Workers

VARIABLES
    feed,        \* the chat of each update, at Telegram or past the webhook
    acked,       \* Telegram has dropped the updates up to this one
    stopping,    \* the process's context is done
    poller,      \* where StartPolling is
    offset,      \* its offset; 0 before the first update
    batch,       \* the last update of the batch it delivers
    updates,     \* Bot.updates
    chatQueues,  \* Bot.chatQueues
    chat,        \* the chat a worker was started for
    queue,       \* its channel
    place,       \* where it is; "none" before it starts and after it returns
    last,        \* history: the chat's latest update given to a handler
    taken,       \* history: the latest update that ever entered Bot.updates
    dispatcherFaults  \* failed polls, stops and crashes so far

server == <<feed, acked, dispatcherFaults>>
polling == <<poller, offset, batch>>
workers == <<chat, queue, place, last>>
dispatcherVars == <<server, stopping, polling, updates, chatQueues, workers, taken>>

(* "top": at the head of its loop; "request": in getUpdates; "backoff":     *)
(* after a failure; "deliver": about to range over the batch; "send": in    *)
(* the select on Bot.updates; "done": returned; "webhook": not started, the *)
(* bot runs Start with WebhookHandler.                                      *)
PollerPhases == {"top", "request", "backoff", "deliver", "send", "done", "webhook"}
Polling == poller # "webhook"

(* "select": waiting; "busy": in safeProcessUpdate; "idle": its timer has   *)
(* fired and it has yet to take the lock.                                   *)
WorkerPhases == {"none", "select", "busy", "idle"}

DispatcherInit ==
    /\ feed = <<>>
    /\ acked = 0
    /\ taken = 0
    /\ dispatcherFaults = 0
    /\ stopping = FALSE
    /\ poller \in Ways
    /\ offset = 0
    /\ batch = 0
    /\ updates = <<>>
    /\ chatQueues = [c \in Chats |-> Nil]
    /\ chat \in [Workers -> Chats]
    /\ queue = [w \in Workers |-> <<>>]
    /\ place = [w \in Workers |-> "none"]
    /\ last = [c \in Chats |-> 0]

-----------------------------------------------------------------------------
(* Telegram, and the way in.                                                *)

DispatcherFault ==
    /\ dispatcherFaults < MaxDispatcherFaults
    /\ dispatcherFaults' = dispatcherFaults + 1

(* Somebody writes to the bot.                                              *)
Arrive(c) ==
    /\ Polling
    /\ Len(feed) < MaxPolled
    /\ feed' = Append(feed, c)
    /\ UNCHANGED <<acked, dispatcherFaults, stopping, polling, updates, chatQueues, workers, taken>>

(* WebhookHandler: a non-blocking send; a full channel is answered with 503 *)
(* and nothing changes.                                                     *)
Webhook(c) ==
    /\ ~Polling
    /\ Len(feed) < MaxUpdates
    /\ Len(updates) < UpdatesCap
    /\ feed' = Append(feed, c)
    /\ updates' = Append(updates, Len(feed) + 1)
    /\ taken' = Len(feed) + 1
    /\ UNCHANGED <<acked, dispatcherFaults, stopping, polling, chatQueues, workers>>

(* What a getUpdates request confirms: every update before its offset.      *)
Confirmed == IF offset > acked THEN offset - 1 ELSE acked

BeginPoll ==
    /\ poller = "top"
    /\ ~stopping
    /\ poller' = "request"
    /\ UNCHANGED <<server, stopping, offset, batch, updates, chatQueues, workers, taken>>

(* getUpdates returns what is not confirmed yet, which may be nothing.      *)
Poll ==
    /\ poller = "request"
    /\ acked' = Confirmed
    /\ batch' = Len(feed)
    /\ poller' = "deliver"
    /\ UNCHANGED <<feed, dispatcherFaults, stopping, offset, updates, chatQueues, workers, taken>>

(* The request fails, or is cancelled, before or after Telegram saw it.     *)
PollFails ==
    /\ poller = "request"
    /\ \/ DispatcherFault
       \/ stopping /\ UNCHANGED dispatcherFaults
    /\ acked' \in {acked, Confirmed}
    /\ poller' = "backoff"
    /\ UNCHANGED <<feed, stopping, offset, batch, updates, chatQueues, workers, taken>>

(* Mutant: a failed poll ends the loop.                                     *)
EndBackoffForGood ==
    /\ poller = "backoff"
    /\ poller' = "done"
    /\ UNCHANGED <<server, stopping, offset, batch, updates, chatQueues, workers, taken>>

(* Three seconds later, or at once when the context is done.                *)
EndBackoff ==
    /\ poller = "backoff"
    /\ \/ poller' = "top"
       \/ stopping /\ poller' = "done"
    /\ UNCHANGED <<server, stopping, offset, batch, updates, chatQueues, workers, taken>>

(* The next update of the batch.                                            *)
Upcoming == IF offset = 0 THEN acked + 1 ELSE offset

(* The head of the range loop: move the offset past the update, or be done. *)
Deliver ==
    /\ poller = "deliver"
    /\ IF Upcoming <= batch
       THEN offset' = Upcoming + 1 /\ poller' = "send"
       ELSE poller' = "top" /\ UNCHANGED offset
    /\ UNCHANGED <<server, stopping, batch, updates, chatQueues, workers, taken>>

Send ==
    /\ poller = "send"
    /\ Len(updates) < UpdatesCap
    /\ updates' = Append(updates, offset - 1)
    /\ taken' = IF offset - 1 > taken THEN offset - 1 ELSE taken
    /\ poller' = "deliver"
    /\ UNCHANGED <<server, stopping, offset, batch, chatQueues, workers>>

(* Mutant: on the way out, the update that was not sent is confirmed too.   *)
StopDeliveringAcks ==
    /\ poller = "send"
    /\ stopping
    /\ poller' = "top"
    /\ UNCHANGED <<server, stopping, offset, batch, updates, chatQueues, workers, taken>>

StopDelivering ==
    /\ poller = "send"
    /\ stopping
    /\ poller' = "done"
    /\ UNCHANGED <<server, stopping, offset, batch, updates, chatQueues, workers, taken>>

(* The last request, which confirms what was sent and whose answer is       *)
(* ignored; it may fail.                                                    *)
FinalAck ==
    /\ poller = "top"
    /\ stopping
    /\ acked' \in {acked, Confirmed}
    /\ poller' = "done"
    /\ UNCHANGED <<feed, dispatcherFaults, stopping, offset, batch, updates, chatQueues, workers, taken>>

-----------------------------------------------------------------------------
(* waitUpdates and dispatchUpdate.  Nothing else receives from Bot.updates, *)
(* so the receive and the locked block are one step.                        *)

(* No Chat ID, or not allowed by authFunc.                                  *)
Ignore ==
    /\ updates # <<>>
    /\ updates' = Tail(updates)
    /\ UNCHANGED <<server, stopping, polling, chatQueues, workers, taken>>

(* A channel that is not made yet, or is garbage.                           *)
Unused(w) ==
    /\ place[w] = "none"
    /\ queue[w] = <<>>
    /\ \A c \in Chats : chatQueues[c] # w

(* Mutant: with the chat's channel full, the update goes round again.       *)
DispatchAgain(w) ==
    /\ updates # <<>>
    /\ LET c == feed[Head(updates)]
           full == Len(queue[w]) = ChatCap
       IN /\ IF chatQueues[c] = Nil
             THEN /\ Unused(w)
                  /\ chatQueues' = [chatQueues EXCEPT ![c] = w]
                  /\ chat' = [chat EXCEPT ![w] = c]
                  /\ place' = [place EXCEPT ![w] = "select"]
             ELSE chatQueues[c] = w /\ UNCHANGED <<chatQueues, chat, place>>
          /\ queue' = IF full THEN queue ELSE [queue EXCEPT ![w] = Append(@, Head(updates))]
          /\ updates' = IF full THEN Append(Tail(updates), Head(updates)) ELSE Tail(updates)
    /\ UNCHANGED <<server, stopping, polling, last, taken>>

(* To the chat's channel, which is made and given a worker when the map has *)
(* none; dropped when that channel is full.                                 *)
Dispatch(w) ==
    /\ updates # <<>>
    /\ LET c == feed[Head(updates)]
       IN /\ IF chatQueues[c] = Nil
             THEN /\ Unused(w)
                  /\ chatQueues' = [chatQueues EXCEPT ![c] = w]
                  /\ chat' = [chat EXCEPT ![w] = c]
                  /\ place' = [place EXCEPT ![w] = "select"]
             ELSE chatQueues[c] = w /\ UNCHANGED <<chatQueues, chat, place>>
          /\ queue' = IF Len(queue[w]) = ChatCap THEN queue
                      ELSE [queue EXCEPT ![w] = Append(@, Head(updates))]
    /\ updates' = Tail(updates)
    /\ UNCHANGED <<server, stopping, polling, last, taken>>

-----------------------------------------------------------------------------
(* chatWorker.                                                              *)

Receive(w) ==
    /\ place[w] = "select"
    /\ queue[w] # <<>>
    /\ last' = [last EXCEPT ![chat[w]] = Head(queue[w])]
    /\ queue' = [queue EXCEPT ![w] = Tail(@)]
    /\ place' = [place EXCEPT ![w] = "busy"]
    /\ UNCHANGED <<server, stopping, polling, updates, chatQueues, chat, taken>>

(* The handler returns, fails or panics; the idle timer is reset.           *)
Processed(w) ==
    /\ place[w] = "busy"
    /\ place' = [place EXCEPT ![w] = "select"]
    /\ UNCHANGED <<server, stopping, polling, updates, chatQueues, chat, queue, last, taken>>

IdleTimer(w) ==
    /\ place[w] = "select"
    /\ place' = [place EXCEPT ![w] = "idle"]
    /\ UNCHANGED <<server, stopping, polling, updates, chatQueues, chat, queue, last, taken>>

(* Mutants: the worker leaves what came while it waited for the lock; it    *)
(* removes its entry before it looks.                                       *)
CleanUpUnchecked(w) ==
    /\ place[w] = "idle"
    /\ chatQueues' = [chatQueues EXCEPT ![chat[w]] = Nil]
    /\ place' = [place EXCEPT ![w] = "none"]
    /\ UNCHANGED <<server, stopping, polling, updates, chat, queue, last, taken>>

(* The locked block: stay when an update came after the timer fired,        *)
(* otherwise take the chat out of the map and return.                       *)
CleanUp(w) ==
    /\ place[w] = "idle"
    /\ IF queue[w] # <<>>
       THEN place' = [place EXCEPT ![w] = "select"] /\ UNCHANGED chatQueues
       ELSE /\ place' = [place EXCEPT ![w] = "none"]
            /\ chatQueues' = [chatQueues EXCEPT ![chat[w]] = Nil]
    /\ UNCHANGED <<server, stopping, polling, updates, chat, queue, last, taken>>

(* The context is done; the map keeps the channel.                          *)
WorkerStops(w) ==
    /\ place[w] = "select"
    /\ stopping
    /\ place' = [place EXCEPT ![w] = "none"]
    /\ UNCHANGED <<server, stopping, polling, updates, chatQueues, chat, queue, last, taken>>

-----------------------------------------------------------------------------
(* The process.                                                             *)

Stop ==
    /\ ~stopping
    /\ DispatcherFault
    /\ stopping' = TRUE
    /\ UNCHANGED <<feed, acked, polling, updates, chatQueues, workers, taken>>

(* It ends, in order or by a crash, and another one starts.                 *)
Restart ==
    /\ \/ stopping /\ UNCHANGED dispatcherFaults
       \/ ~stopping /\ DispatcherFault
    /\ stopping' = FALSE
    /\ poller' = IF Polling THEN "top" ELSE poller
    /\ offset' = 0
    /\ batch' = 0
    /\ updates' = <<>>
    /\ chatQueues' = [c \in Chats |-> Nil]
    /\ queue' = [w \in Workers |-> <<>>]
    /\ place' = [w \in Workers |-> "none"]
    /\ last' = [c \in Chats |-> 0]
    /\ UNCHANGED <<feed, acked, taken, chat>>

Poller ==
    BeginPoll \/ Poll \/ PollFails \/ EndBackoff \/ Deliver \/ Send \/ StopDelivering \/ FinalAck

Worker(w) ==
    Receive(w) \/ Processed(w) \/ IdleTimer(w) \/ CleanUp(w) \/ WorkerStops(w)

DispatcherNext ==
    \/ \E c \in Chats : Arrive(c) \/ Webhook(c)
    \/ Poller
    \/ Ignore
    \/ \E w \in Workers : Dispatch(w) \/ Worker(w)
    \/ Stop
    \/ Restart

DispatcherSpec == DispatcherInit /\ [][DispatcherNext]_dispatcherVars

(* Goroutines that can run do, and the process does not stay stopped.  A    *)
(* worker's timer runs for ten minutes, so against updates that are there   *)
(* it does not win for ever.                                                *)
FairDispatcherSpec ==
    /\ DispatcherSpec
    /\ WF_dispatcherVars(Poller)
    /\ WF_dispatcherVars(~stopping /\ (Ignore \/ \E w \in Workers : Dispatch(w)))
    /\ \A w \in Workers : SF_dispatcherVars(Receive(w)) /\ WF_dispatcherVars(Processed(w) \/ CleanUp(w))
    /\ WF_dispatcherVars(stopping /\ Restart)

-----------------------------------------------------------------------------
Ascending(s) == \A i, j \in DOMAIN s : i < j => s[i] < s[j]

(* Updates of a chat are handled one at a time, whatever workers the chat   *)
(* had: the README's "sequentially within a single chat".                   *)
Sequential ==
    \A v, w \in Workers : place[v] # "none" /\ place[w] # "none" /\ chat[v] = chat[w] => v = w

(* While the process runs, the channel of every chat in the map has its     *)
(* worker, and no update lies in a channel that is not in the map: a worker *)
(* that leaves at the same time as an update arrives does not strand it.    *)
NobodyStranded ==
    stopping \/
    /\ \A c \in Chats :
          chatQueues[c] # Nil => place[chatQueues[c]] # "none" /\ chat[chatQueues[c]] = c
    /\ \A w \in Workers : queue[w] # <<>> => chatQueues[chat[w]] = w

(* A chat's updates reach its handler in the order they came: what waits    *)
(* for it is in order, and comes after everything the handler has had.      *)
InOrder ==
    /\ Ascending(updates)
    /\ \A w \in Workers :
          /\ Ascending(queue[w])
          /\ \A i \in DOMAIN queue[w] : last[chat[w]] < queue[w][i]
          /\ \A i \in DOMAIN queue[w], j \in DOMAIN updates :
                feed[updates[j]] = chat[w] => queue[w][i] < updates[j]
    /\ \A j \in DOMAIN updates : last[feed[updates[j]]] < updates[j]

(* Telegram is never told to drop an update that was not given to           *)
(* waitUpdates, however the poller ends.                                    *)
AckedIsTaken == acked <= taken

(* Every update at Telegram is taken at last, through failed polls and      *)
(* restarts.                                                                *)
EveryUpdateTaken == \A u \in 1..MaxPolled : u <= Len(feed) ~> u <= taken
=============================================================================
