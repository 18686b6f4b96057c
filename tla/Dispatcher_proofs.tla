------------------------- MODULE Dispatcher_proofs -------------------------
(***************************************************************************)
(* Proofs about Dispatcher, for any chats, capacities and updates.          *)
(*                                                                         *)
(* The inductive invariant IInv has three parts besides the types.  Mapped: *)
(* a worker that lives, or whose channel is not empty, is the one the map   *)
(* has for its chat.  Confirmable: the offset never passes what was sent by *)
(* more than the update in the poller's hands.  Queued: whatever waits      *)
(* downstream is older than whatever waits upstream.                        *)
(***************************************************************************)
EXTENDS Dispatcher, TLAPS

Mapped ==
    /\ \A w \in Workers :
          place[w] # "none" \/ queue[w] # <<>> => chatQueues[chat[w]] = w
    /\ \A c \in Chats : chatQueues[c] # Nil =>
          /\ chat[chatQueues[c]] = c
          /\ stopping \/ place[chatQueues[c]] # "none"

Confirmable ==
    /\ acked <= taken
    /\ IF poller \in {"send", "done"} THEN offset <= taken + 2 ELSE offset <= taken + 1
    /\ poller = "send" => offset >= 2

(* The next update that can enter Bot.updates.                              *)
Coming ==
    IF ~Polling THEN Len(feed) + 1 ELSE IF poller = "send" THEN offset - 1 ELSE offset

Queued ==
    /\ Ascending(updates)
    /\ \A j \in DOMAIN updates : updates[j] < Coming
    /\ \A c \in Chats : last[c] < Coming \/ last[c] = 0
    /\ \A c \in Chats : \A j \in DOMAIN updates : last[c] < updates[j]
    /\ \A w \in Workers :
          /\ Ascending(queue[w])
          /\ \A i \in DOMAIN queue[w] :
                /\ queue[w][i] < Coming
                /\ last[chat[w]] < queue[w][i]
                /\ \A j \in DOMAIN updates : queue[w][i] < updates[j]

(* TypeOK without the Boolean.                                              *)
Types ==
    /\ feed \in Seq(Chats)
    /\ acked \in 0..Len(feed)
    /\ poller \in PollerPhases
    /\ offset \in 0..Len(feed) + 1
    /\ batch \in 0..Len(feed)
    /\ updates \in Seq(Nat)
    /\ Len(updates) <= UpdatesCap
    /\ \A j \in DOMAIN updates : updates[j] \in 1..Len(feed)
    /\ chatQueues \in [Chats -> Workers \cup {Nil}]
    /\ chat \in [Workers -> Chats]
    /\ queue \in [Workers -> Seq(Nat)]
    /\ \A w \in Workers :
          /\ Len(queue[w]) <= ChatCap
          /\ \A i \in DOMAIN queue[w] : queue[w][i] \in 1..Len(feed)
    /\ place \in [Workers -> WorkerPhases]
    /\ last \in [Chats -> 0..Len(feed)]
    /\ taken \in 0..Len(feed)
    /\ dispatcherFaults \in Nat

IInv == stopping \in BOOLEAN /\ Types /\ Mapped /\ Confirmable /\ Queued

-----------------------------------------------------------------------------
(* What Tail and Append leave where.                                        *)
LEMMA TailNat ==
    ASSUME NEW s \in Seq(Nat), s # <<>>
    PROVE  /\ Tail(s) \in Seq(Nat)
           /\ Len(Tail(s)) = Len(s) - 1
           /\ Head(s) = s[1] /\ Head(s) \in Nat /\ 1 \in DOMAIN s
           /\ \A j \in DOMAIN Tail(s) : j + 1 \in DOMAIN s /\ Tail(s)[j] = s[j + 1]
OBVIOUS

LEMMA AppendNat ==
    ASSUME NEW s \in Seq(Nat), NEW x \in Nat
    PROVE  /\ Append(s, x) \in Seq(Nat)
           /\ Len(Append(s, x)) = Len(s) + 1
           /\ \A i \in DOMAIN Append(s, x) :
                 \/ i \in DOMAIN s /\ Append(s, x)[i] = s[i]
                 \/ i = Len(s) + 1 /\ Append(s, x)[i] = x
OBVIOUS

(* The rest of an ascending sequence ascends, past the head.                *)
LEMMA AscendingTail ==
    ASSUME NEW s \in Seq(Nat), s # <<>>, Ascending(s)
    PROVE  /\ \A j \in DOMAIN Tail(s) : Head(s) < Tail(s)[j]
           /\ Ascending(Tail(s))
<1>1. \A j \in DOMAIN Tail(s) : Head(s) < Tail(s)[j]
  BY TailNat DEF Ascending
<1>2. Ascending(Tail(s))
  BY TailNat DEF Ascending
<1> QED
  BY <1>1, <1>2

(* A sequence extended by a larger number ascends.                          *)
LEMMA AscendingAppend ==
    ASSUME NEW s \in Seq(Nat), NEW x \in Nat, Ascending(s), \A i \in DOMAIN s : s[i] < x
    PROVE  Ascending(Append(s, x))
BY AppendNat DEF Ascending

LEMMA InitInvariant == DispatcherInit => IInv
<1> SUFFICES ASSUME DispatcherInit PROVE IInv
  OBVIOUS
<1> USE DispatcherAssumption DEF DispatcherInit
<1>0. stopping \in BOOLEAN
  OBVIOUS
<1>1. Types
  BY DEF Types, PollerPhases, WorkerPhases
<1>2. Mapped
  BY DEF Mapped
<1>3. Confirmable
  BY DEF Confirmable
<1>4. Queued
  BY DEF Queued, Ascending, Coming
<1> QED
  BY <1>0, <1>1, <1>2, <1>3, <1>4 DEF IInv

-----------------------------------------------------------------------------
LEMMA Assumptions == UpdatesCap \in Nat \ {0} /\ ChatCap \in Nat \ {0} /\ Nil \notin Workers
BY DispatcherAssumption

LEMMA StoppingStep == IInv /\ [DispatcherNext]_dispatcherVars => stopping' \in BOOLEAN
<1> SUFFICES ASSUME stopping \in BOOLEAN, [DispatcherNext]_dispatcherVars PROVE stopping' \in BOOLEAN
  BY DEF IInv
<1>1. stopping' = stopping \/ stopping' = TRUE \/ stopping' = FALSE
  BY DEF DispatcherNext, dispatcherVars, server, polling, workers, Arrive, Webhook, Poller, BeginPoll, Poll, PollFails,
         EndBackoff, Deliver, Send, StopDelivering, FinalAck, Ignore, Dispatch, Worker, Receive,
         Processed, IdleTimer, CleanUp, WorkerStops, Stop, Restart
<1> QED
  BY <1>1

(* A bot that polls goes on polling, and one on a webhook never does.       *)
LEMMA ModeStep == [DispatcherNext]_dispatcherVars => Polling' = Polling
  BY DEF DispatcherNext, dispatcherVars, server, polling, workers, Arrive, Webhook, Poller, BeginPoll, Poll, PollFails,
         EndBackoff, Deliver, Send, StopDelivering, FinalAck, Ignore, Dispatch, Worker, Receive,
         Processed, IdleTimer, CleanUp, WorkerStops, Stop, Restart, Polling

(* Every step keeps the types.                                              *)
LEMMA TypeStep == IInv /\ [DispatcherNext]_dispatcherVars => Types'
<1> SUFFICES ASSUME Types, Confirmable, [DispatcherNext]_dispatcherVars PROVE Types'
  BY DEF IInv
<1> USE Assumptions
<1> USE DEF Types, server, polling, workers
<1>1. CASE UNCHANGED dispatcherVars
  BY <1>1 DEF dispatcherVars
<1>2. ASSUME NEW c \in Chats, Arrive(c) PROVE Types'
  BY <1>2 DEF Arrive
<1>3. ASSUME NEW c \in Chats, Webhook(c) PROVE Types'
  <2>1. feed' \in Seq(Chats) /\ Len(feed') = Len(feed) + 1
    BY <1>3 DEF Webhook
  <2>2. updates' \in Seq(Nat) /\ Len(updates') <= UpdatesCap
    BY <1>3, AppendNat DEF Webhook
  <2>3. \A j \in DOMAIN updates' : updates'[j] \in 1..Len(feed')
    BY <1>3, <2>1, AppendNat DEF Webhook
  <2> QED
    BY <1>3, <2>1, <2>2, <2>3 DEF Webhook
<1>4. CASE BeginPoll \/ EndBackoff \/ StopDelivering
  BY <1>4 DEF BeginPoll, EndBackoff, StopDelivering, PollerPhases
<1>5. CASE Poll \/ PollFails \/ FinalAck
  <2>1. acked' \in 0..Len(feed)
    BY <1>5 DEF Poll, PollFails, FinalAck, Confirmed
  <2>2. dispatcherFaults' \in Nat /\ batch' \in 0..Len(feed)
    BY <1>5 DEF Poll, PollFails, FinalAck, DispatcherFault
  <2>3. poller' \in PollerPhases
    BY <1>5 DEF Poll, PollFails, FinalAck, PollerPhases
  <2>4. UNCHANGED <<feed, offset, updates, chatQueues, workers, taken>>
    BY <1>5 DEF Poll, PollFails, FinalAck
  <2> QED
    BY <2>1, <2>2, <2>3, <2>4
<1>6. CASE Deliver
  BY <1>6 DEF Deliver, Upcoming, PollerPhases
<1>7. CASE Send
  <2>1. offset - 1 \in 1..Len(feed)
    BY <1>7 DEF Send, Confirmable
  <2>2. updates' \in Seq(Nat) /\ Len(updates') <= UpdatesCap
    BY <1>7, <2>1, AppendNat DEF Send
  <2>3. \A j \in DOMAIN updates' : updates'[j] \in 1..Len(feed)
    BY <1>7, <2>1, AppendNat DEF Send
  <2>4. taken' \in 0..Len(feed) /\ poller' \in PollerPhases
    BY <1>7, <2>1 DEF Send, PollerPhases
  <2>5. UNCHANGED <<server, offset, batch, chatQueues, workers>>
    BY <1>7 DEF Send
  <2> QED
    BY <2>2, <2>3, <2>4, <2>5
<1>8. ASSUME updates # <<>>, updates' = Tail(updates)
      PROVE  /\ updates' \in Seq(Nat)
             /\ Len(updates') <= UpdatesCap
             /\ \A j \in DOMAIN updates' : updates'[j] \in 1..Len(feed)
             /\ Head(updates) \in 1..Len(feed)
  BY <1>8, TailNat
<1>81. CASE Ignore
  <2>1. UNCHANGED <<server, polling, chatQueues, workers, taken>>
    BY <1>81 DEF Ignore
  <2> QED
    BY <1>8, <1>81, <2>1 DEF Ignore
<1> USE DEF Types
<1>f. \A v \in 1..Len(feed) : feed[v] \in Chats
  OBVIOUS
<1>q. /\ chatQueues \in [Chats -> Workers \cup {Nil}]
      /\ chat \in [Workers -> Chats]
      /\ queue \in [Workers -> Seq(Nat)]
      /\ place \in [Workers -> WorkerPhases]
      /\ \A w \in Workers :
            /\ Len(queue[w]) <= ChatCap
            /\ \A i \in DOMAIN queue[w] : queue[w][i] \in 1..Len(feed)
  OBVIOUS
<1> HIDE DEF Types
<1>9. ASSUME NEW w \in Workers, Dispatch(w) PROVE Types'
  <2> DEFINE u == Head(updates)
  <2>1. updates # <<>> /\ updates' = Tail(updates)
    BY <1>9 DEF Dispatch
  <2>2. u \in 1..Len(feed) /\ feed[u] \in Chats
    BY <1>8, <1>f, <2>1
  <2>3. /\ chatQueues' \in [Chats -> Workers \cup {Nil}]
        /\ chat' \in [Workers -> Chats]
        /\ place' \in [Workers -> WorkerPhases]
    <3>1. CASE chatQueues[feed[u]] = Nil
      <4>1. /\ chatQueues' = [chatQueues EXCEPT ![feed[u]] = w]
            /\ chat' = [chat EXCEPT ![w] = feed[u]]
            /\ place' = [place EXCEPT ![w] = "select"]
        BY <1>9, <3>1 DEF Dispatch
      <4> QED
        BY <4>1, <1>q, <2>2 DEF WorkerPhases
    <3>2. CASE chatQueues[feed[u]] # Nil
      BY <1>9, <1>q, <3>2 DEF Dispatch
    <3> QED
      BY <3>1, <3>2
  <2>4. \/ queue' = queue
        \/ Len(queue[w]) # ChatCap /\ queue' = [queue EXCEPT ![w] = Append(queue[w], u)]
    BY <1>9 DEF Dispatch
  <2>a. /\ Append(queue[w], u) \in Seq(Nat)
        /\ Len(queue[w]) # ChatCap => Len(Append(queue[w], u)) <= ChatCap
        /\ \A i \in DOMAIN Append(queue[w], u) : Append(queue[w], u)[i] \in 1..Len(feed)
    <3>1. queue[w] \in Seq(Nat) /\ u \in Nat /\ Len(queue[w]) <= ChatCap
      BY <1>q, <2>2
    <3>2. /\ Append(queue[w], u) \in Seq(Nat)
          /\ Len(Append(queue[w], u)) = Len(queue[w]) + 1
          /\ \A i \in DOMAIN Append(queue[w], u) :
                \/ i \in DOMAIN queue[w] /\ Append(queue[w], u)[i] = queue[w][i]
                \/ i = Len(queue[w]) + 1 /\ Append(queue[w], u)[i] = u
      BY <3>1, AppendNat
    <3> QED
      BY <1>q, <2>2, <3>1, <3>2
  <2>5. /\ queue' \in [Workers -> Seq(Nat)]
        /\ \A v \in Workers : Len(queue'[v]) <= ChatCap
    BY <1>q, <2>4, <2>a
  <2>6. \A v \in Workers : \A i \in DOMAIN queue'[v] : queue'[v][i] \in 1..Len(feed)
    BY <1>q, <2>4, <2>a
  <2>7. UNCHANGED <<server, polling, last, taken>>
    BY <1>9 DEF Dispatch
  <2> QED
    BY <1>8, <2>1, <2>3, <2>5, <2>6, <2>7 DEF Types
<1>10. ASSUME NEW w \in Workers, Worker(w) PROVE Types'
  <2>1. /\ chatQueues' \in [Chats -> Workers \cup {Nil}]
        /\ chat' = chat
        /\ place' \in [Workers -> WorkerPhases]
    BY <1>10, <1>q DEF Worker, Receive, Processed, IdleTimer, CleanUp, WorkerStops, WorkerPhases
  <2>2. UNCHANGED <<server, polling, updates, taken>>
    BY <1>10 DEF Worker, Receive, Processed, IdleTimer, CleanUp, WorkerStops
  <2>3. \/ UNCHANGED <<queue, last>>
        \/ /\ queue[w] # <<>>
           /\ queue' = [queue EXCEPT ![w] = Tail(queue[w])]
           /\ last' = [last EXCEPT ![chat[w]] = Head(queue[w])]
    <3>1. CASE Receive(w)
      BY <3>1 DEF Receive
    <3>2. CASE Processed(w) \/ IdleTimer(w) \/ CleanUp(w) \/ WorkerStops(w)
      BY <3>2 DEF Processed, IdleTimer, CleanUp, WorkerStops
    <3> QED
      BY <1>10, <3>1, <3>2 DEF Worker
  <2>4. queue[w] # <<>> =>
           /\ Tail(queue[w]) \in Seq(Nat) /\ Len(Tail(queue[w])) <= ChatCap
           /\ Head(queue[w]) \in 1..Len(feed)
           /\ \A i \in DOMAIN Tail(queue[w]) : Tail(queue[w])[i] \in 1..Len(feed)
    <3> SUFFICES ASSUME queue[w] # <<>>
        PROVE  /\ Tail(queue[w]) \in Seq(Nat) /\ Len(Tail(queue[w])) <= ChatCap
               /\ Head(queue[w]) \in 1..Len(feed)
               /\ \A i \in DOMAIN Tail(queue[w]) : Tail(queue[w])[i] \in 1..Len(feed)
      OBVIOUS
    <3>1. queue[w] \in Seq(Nat)
      BY <1>q
    <3>2. /\ Tail(queue[w]) \in Seq(Nat)
          /\ Len(Tail(queue[w])) = Len(queue[w]) - 1
          /\ Head(queue[w]) = queue[w][1] /\ 1 \in DOMAIN queue[w]
          /\ \A j \in DOMAIN Tail(queue[w]) :
                j + 1 \in DOMAIN queue[w] /\ Tail(queue[w])[j] = queue[w][j + 1]
      BY <3>1, TailNat
    <3> QED
      BY <1>q, <3>1, <3>2
  <2>5. last' \in [Chats -> 0..Len(feed)]
    <3>1. last \in [Chats -> 0..Len(feed)] /\ feed \in Seq(Chats)
      BY DEF Types
    <3>2. 1..Len(feed) \subseteq 0..Len(feed)
      BY <3>1
    <3> QED
      BY <1>q, <2>3, <2>4, <3>1, <3>2
  <2>6. /\ queue' \in [Workers -> Seq(Nat)]
        /\ \A v \in Workers : Len(queue'[v]) <= ChatCap
    BY <1>q, <2>3, <2>4
  <2>7. \A v \in Workers : \A i \in DOMAIN queue'[v] : queue'[v][i] \in 1..Len(feed)
    BY <1>q, <2>3, <2>4
  <2> QED
    BY <2>1, <2>2, <2>5, <2>6, <2>7 DEF Types
<1> USE DEF Types
<1>11. CASE Stop
  BY <1>11 DEF Stop, DispatcherFault
<1>12. CASE Restart
  <2>1. /\ feed' = feed /\ acked' = acked /\ taken' = taken /\ chat' = chat
        /\ poller' \in {"top", poller} /\ offset' = 0 /\ batch' = 0
        /\ updates' = <<>> /\ chatQueues' = [c \in Chats |-> Nil]
        /\ queue' = [w \in Workers |-> <<>>]
        /\ place' = [w \in Workers |-> "none"] /\ last' = [c \in Chats |-> 0]
    BY <1>12 DEF Restart
  <2>2. dispatcherFaults' \in Nat
    BY <1>12 DEF Restart, DispatcherFault
  <2> QED
    BY <2>1, <2>2 DEF PollerPhases, WorkerPhases
<1> QED
  BY <1>1, <1>2, <1>3, <1>4, <1>5, <1>6, <1>7, <1>81, <1>9, <1>10, <1>11, <1>12 DEF DispatcherNext, Poller

(* Every step keeps the map and the workers together.                       *)
LEMMA MappedStep == IInv /\ [DispatcherNext]_dispatcherVars => Mapped'
<1> SUFFICES ASSUME Types, Mapped, [DispatcherNext]_dispatcherVars PROVE Mapped'
  BY DEF IInv
<1> USE Assumptions
<1>t. /\ chatQueues \in [Chats -> Workers \cup {Nil}]
      /\ chat \in [Workers -> Chats]
      /\ queue \in [Workers -> Seq(Nat)]
      /\ place \in [Workers -> WorkerPhases]
  BY DEF Types
<1> USE DEF Mapped
<1>1. CASE UNCHANGED dispatcherVars
  BY <1>1 DEF dispatcherVars, workers
<1>2. ASSUME NEW c \in Chats, Arrive(c) \/ Webhook(c) PROVE Mapped'
  BY <1>2 DEF Arrive, Webhook, workers
<1>3. CASE Poller
  BY <1>3 DEF Poller, BeginPoll, Poll, PollFails, EndBackoff, Deliver, Send, StopDelivering,
              FinalAck, workers
<1>4. CASE Ignore
  BY <1>4 DEF Ignore, workers
<1>5. ASSUME NEW w \in Workers, Dispatch(w) PROVE Mapped'
  <2> DEFINE u == Head(updates)
  <2>1. feed[u] \in Chats /\ u \in Nat
    BY <1>5, TailNat DEF Dispatch, Types
  <2>2. queue' = queue \/ queue' = [queue EXCEPT ![w] = Append(queue[w], u)]
    BY <1>5 DEF Dispatch
  <2>3. \A v \in Workers : v # w => queue'[v] = queue[v]
    BY <1>t, <2>2
  <2>4. stopping' = stopping
    BY <1>5 DEF Dispatch
  <2>5. CASE chatQueues[feed[u]] = Nil
    <3>1. /\ place[w] = "none" /\ queue[w] = <<>> /\ \A c \in Chats : chatQueues[c] # w
          /\ chatQueues' = [chatQueues EXCEPT ![feed[u]] = w]
          /\ chat' = [chat EXCEPT ![w] = feed[u]]
          /\ place' = [place EXCEPT ![w] = "select"]
      BY <1>5, <2>5 DEF Dispatch, Unused
    <3>2. ASSUME NEW v \in Workers, place'[v] # "none" \/ queue'[v] # <<>>
          PROVE  chatQueues'[chat'[v]] = v
      BY <1>t, <2>1, <2>3, <2>5, <3>1, <3>2
    <3>3. ASSUME NEW c \in Chats, chatQueues'[c] # Nil
          PROVE  /\ chat'[chatQueues'[c]] = c
                 /\ stopping \/ place'[chatQueues'[c]] # "none"
      BY <1>t, <2>1, <2>5, <3>1, <3>3
    <3> QED
      BY <3>2, <3>3, <2>4
  <2>6. CASE chatQueues[feed[u]] # Nil
    <3>1. chatQueues[feed[u]] = w /\ UNCHANGED <<chatQueues, chat, place>>
      BY <1>5, <2>6 DEF Dispatch
    <3>2. chat[w] = feed[u]
      BY <2>1, <2>6, <3>1
    <3>3. ASSUME NEW v \in Workers, place'[v] # "none" \/ queue'[v] # <<>>
          PROVE  chatQueues'[chat'[v]] = v
      <4>1. CASE v = w
        BY <3>1, <3>2, <4>1
      <4>2. CASE v # w
        BY <2>3, <3>1, <3>3, <4>2
      <4> QED
        BY <4>1, <4>2
    <3>4. ASSUME NEW c \in Chats, chatQueues'[c] # Nil
          PROVE  /\ chat'[chatQueues'[c]] = c
                 /\ stopping \/ place'[chatQueues'[c]] # "none"
      BY <3>1, <3>4
    <3> QED
      BY <3>3, <3>4, <2>4
  <2> QED
    BY <2>5, <2>6
<1>6. ASSUME NEW w \in Workers, Worker(w) PROVE Mapped'
  <2>1. CASE Receive(w)
    <3>1. /\ place[w] # "none" /\ UNCHANGED <<stopping, chatQueues, chat>>
          /\ queue' = [queue EXCEPT ![w] = Tail(queue[w])]
          /\ place' = [place EXCEPT ![w] = "busy"]
      BY <2>1 DEF Receive
    <3> QED
      BY <1>t, <3>1
  <2>2. CASE Processed(w) \/ IdleTimer(w)
    <3>1. /\ place[w] # "none" /\ UNCHANGED <<stopping, chatQueues, chat, queue>>
          /\ place' = [place EXCEPT ![w] = "select"] \/ place' = [place EXCEPT ![w] = "idle"]
      BY <2>2 DEF Processed, IdleTimer
    <3> QED
      BY <1>t, <3>1
  <2>3. CASE CleanUp(w) /\ queue[w] # <<>>
    BY <1>t, <2>3 DEF CleanUp
  <2>4. CASE CleanUp(w) /\ queue[w] = <<>>
    <3>1. /\ place[w] # "none" /\ UNCHANGED <<stopping, chat, queue>>
          /\ chatQueues' = [chatQueues EXCEPT ![chat[w]] = Nil]
          /\ place' = [place EXCEPT ![w] = "none"]
      BY <2>4 DEF CleanUp
    <3> QED
      BY <1>t, <2>4, <3>1
  <2>5. CASE WorkerStops(w)
    BY <1>t, <2>5 DEF WorkerStops
  <2> QED
    BY <1>6, <2>1, <2>2, <2>3, <2>4, <2>5 DEF Worker
<1>7. CASE Stop
  BY <1>7 DEF Stop, workers
<1>8. CASE Restart
  BY <1>8, <1>t DEF Restart
<1> QED
  BY <1>1, <1>2, <1>3, <1>4, <1>5, <1>6, <1>7, <1>8 DEF DispatcherNext

(* Every step keeps the offset behind what was sent.                        *)
LEMMA ConfirmableStep == IInv /\ [DispatcherNext]_dispatcherVars => Confirmable'
<1> SUFFICES ASSUME Types, Confirmable, [DispatcherNext]_dispatcherVars PROVE Confirmable'
  BY DEF IInv
<1> USE DEF Confirmable, Types, server, polling, workers
<1>1. CASE UNCHANGED dispatcherVars
  BY <1>1 DEF dispatcherVars
<1>2. ASSUME NEW c \in Chats, Arrive(c) \/ Webhook(c) PROVE Confirmable'
  BY <1>2 DEF Arrive, Webhook
<1>3. CASE Poller
  <2>1. CASE BeginPoll
    BY <2>1 DEF BeginPoll
  <2>2. CASE Poll
    BY <2>2 DEF Poll, Confirmed
  <2>3. CASE PollFails
    <3>1. acked' \in {acked, Confirmed} /\ poller = "request" /\ poller' = "backoff"
          /\ UNCHANGED <<offset, taken>>
      BY <2>3 DEF PollFails
    <3> QED
      BY <3>1 DEF Confirmed
  <2>4. CASE EndBackoff
    BY <2>4 DEF EndBackoff
  <2>5. CASE Deliver
    BY <2>5 DEF Deliver, Upcoming
  <2>6. CASE Send
    BY <2>6 DEF Send
  <2>7. CASE StopDelivering
    BY <2>7 DEF StopDelivering
  <2>8. CASE FinalAck
    <3>1. acked' \in {acked, Confirmed} /\ poller = "top" /\ poller' = "done"
          /\ UNCHANGED <<offset, taken>>
      BY <2>8 DEF FinalAck
    <3> QED
      BY <3>1 DEF Confirmed
  <2> QED
    BY <1>3, <2>1, <2>2, <2>3, <2>4, <2>5, <2>6, <2>7, <2>8 DEF Poller
<1>4. CASE Ignore
  BY <1>4 DEF Ignore
<1>5. ASSUME NEW w \in Workers, Dispatch(w) \/ Worker(w) PROVE Confirmable'
  BY <1>5 DEF Dispatch, Worker, Receive, Processed, IdleTimer, CleanUp, WorkerStops
<1>6. CASE Stop \/ Restart
  BY <1>6 DEF Stop, Restart, Polling
<1> QED
  BY <1>1, <1>2, <1>3, <1>4, <1>5, <1>6 DEF DispatcherNext

(* Every step keeps what waits in the order it came.                        *)
LEMMA QueuedStep == IInv /\ [DispatcherNext]_dispatcherVars => Queued'
<1> SUFFICES ASSUME Types, Types', Mapped, Confirmable, Confirmable', Queued, [DispatcherNext]_dispatcherVars,
                    Polling' = Polling
    PROVE  Queued'
  BY TypeStep, ConfirmableStep, ModeStep DEF IInv
<1>1. /\ updates \in Seq(Nat) /\ queue \in [Workers -> Seq(Nat)]
      /\ chat \in [Workers -> Chats] /\ last \in [Chats -> Nat]
      /\ feed \in Seq(Chats) /\ feed' \in Seq(Chats)
      /\ Len(feed) \in Nat /\ Len(feed') \in Nat
      /\ offset \in Nat /\ acked \in Nat /\ offset' \in Nat
  <2>0. feed \in Seq(Chats) /\ feed' \in Seq(Chats)
    BY DEF Types
  <2>1. /\ feed \in Seq(Chats) /\ feed' \in Seq(Chats)
        /\ Len(feed) \in Nat /\ Len(feed') \in Nat
    BY <2>0
  <2>2. offset \in Nat /\ acked \in Nat /\ offset' \in Nat
    BY <2>1 DEF Types
  <2>3. last \in [Chats -> Nat]
    BY <2>1 DEF Types
  <2> QED
    BY <2>1, <2>2, <2>3 DEF Types
<1>2. /\ Coming \in Nat /\ Coming' \in Nat
  <2>1. (poller = "send" => offset >= 2) /\ (poller' = "send" => offset' >= 2)
    BY DEF Confirmable
  <2>2. CASE ~Polling
    <3>1. Coming = Len(feed) + 1 /\ Coming' = Len(feed') + 1
      BY <2>2, Zenon DEF Coming
    <3> QED
      BY <1>1, <3>1
  <2>3. CASE Polling
    <3>1. Coming = IF poller = "send" THEN offset - 1 ELSE offset
      BY <2>3, Zenon DEF Coming
    <3>2. Coming' = IF poller' = "send" THEN offset' - 1 ELSE offset'
      BY <2>3, Zenon DEF Coming
    <3>3. Coming \in Nat
      BY <1>1, <2>1, <3>1
    <3>4. Coming' \in Nat
      <4>1. CASE poller' = "send"
        <5>1. offset' >= 2 /\ Coming' = offset' - 1
          BY <2>1, <3>2, <4>1
        <5>2. \A o \in Nat : o >= 2 => o - 1 \in Nat
          OBVIOUS
        <5>3. offset' - 1 \in Nat
          BY <1>1, <5>1, <5>2
        <5> QED
          BY <5>1, <5>3
      <4>2. CASE poller' # "send"
        BY <1>1, <3>2, <4>2
      <4> QED
        BY <4>1, <4>2
    <3> QED
      BY <3>3, <3>4
  <2> QED
    BY <2>2, <2>3
<1>q. /\ Ascending(updates)
      /\ \A j \in DOMAIN updates : updates[j] < Coming
      /\ \A c \in Chats : last[c] < Coming \/ last[c] = 0
      /\ \A c \in Chats : \A j \in DOMAIN updates : last[c] < updates[j]
      /\ \A w \in Workers : Ascending(queue[w])
      /\ \A w \in Workers : \A i \in DOMAIN queue[w] :
            queue[w][i] < Coming /\ last[chat[w]] < queue[w][i]
      /\ \A w \in Workers : \A i \in DOMAIN queue[w], j \in DOMAIN updates :
            queue[w][i] < updates[j]
  BY DEF Queued
(* The channels as they are, and the next update no earlier than before.    *)
<1>g. ASSUME Coming <= Coming', UNCHANGED <<updates, chat, queue, last>>
      PROVE  Queued'
  <2>1. \A j \in DOMAIN updates : updates[j] < Coming'
    BY <1>1, <1>2, <1>q, <1>g
  <2>2. \A c \in Chats : last[c] < Coming' \/ last[c] = 0
    BY <1>1, <1>2, <1>q, <1>g
  <2>3. \A w \in Workers : \A i \in DOMAIN queue[w] : queue[w][i] < Coming'
    <3> TAKE w \in Workers
    <3> TAKE i \in DOMAIN queue[w]
    <3>1. queue[w][i] \in Nat
      BY <1>1
    <3> QED
      BY <1>2, <1>q, <1>g, <3>1
  <2> QED
    BY <1>q, <1>g, <2>1, <2>2, <2>3 DEF Queued, Ascending
(* One more update in Bot.updates.                                          *)
<1>a. ASSUME Coming < Coming', 0 < Coming, updates' = Append(updates, Coming),
             UNCHANGED <<chat, queue, last>>
      PROVE  Queued'
  <2>1. \A j \in DOMAIN updates' :
           \/ j \in DOMAIN updates /\ updates'[j] = updates[j]
           \/ updates'[j] = Coming
    BY <1>1, <1>2, <1>a, AppendNat
  <2>2. Ascending(updates')
    BY <1>1, <1>2, <1>q, <1>a, AscendingAppend
  <2>3. \A j \in DOMAIN updates : updates[j] \in Nat
    BY <1>1
  <2>4. \A j \in DOMAIN updates' : updates'[j] < Coming'
    BY <1>2, <1>q, <1>a, <2>1, <2>3
  <2>5. \A c \in Chats : last[c] < Coming' \/ last[c] = 0
    BY <1>1, <1>2, <1>q, <1>a
  <2>6. \A c \in Chats : \A j \in DOMAIN updates' : last[c] < updates'[j]
    BY <1>q, <1>a, <2>1
  <2>7. \A w \in Workers : \A i \in DOMAIN queue[w] :
           queue[w][i] < Coming' /\ \A j \in DOMAIN updates' : queue[w][i] < updates'[j]
    <3> TAKE w \in Workers
    <3> TAKE i \in DOMAIN queue[w]
    <3>1. queue[w][i] \in Nat
      BY <1>1
    <3> QED
      BY <1>2, <1>q, <1>a, <2>1, <3>1
  <2> QED
    BY <1>q, <1>a, <2>2, <2>4, <2>5, <2>6, <2>7 DEF Queued, Ascending
(* The head of Bot.updates is gone, and may have gone to one channel.       *)
<1>d. ASSUME updates # <<>>
      PROVE  LET u == Head(updates)
             IN  /\ u \in Nat /\ u < Coming
                 /\ \A c \in Chats : last[c] < u
                 /\ \A w \in Workers : \A i \in DOMAIN queue[w] : queue[w][i] < u
                 /\ \A j \in DOMAIN Tail(updates) :
                       /\ u < Tail(updates)[j]
                       /\ Tail(updates)[j] < Coming
                       /\ \A c \in Chats : last[c] < Tail(updates)[j]
                       /\ \A w \in Workers : \A i \in DOMAIN queue[w] :
                             queue[w][i] < Tail(updates)[j]
                 /\ Ascending(Tail(updates))
  <2>1. /\ Head(updates) = updates[1] /\ Head(updates) \in Nat /\ 1 \in DOMAIN updates
        /\ \A j \in DOMAIN Tail(updates) :
              j + 1 \in DOMAIN updates /\ Tail(updates)[j] = updates[j + 1]
    BY <1>1, <1>d, TailNat
  <2>2. /\ \A j \in DOMAIN Tail(updates) : Head(updates) < Tail(updates)[j]
        /\ Ascending(Tail(updates))
    BY <1>1, <1>d, <1>q, AscendingTail
  <2> QED
    BY <1>q, <2>1, <2>2
<1>3. CASE UNCHANGED dispatcherVars
  BY <1>2, <1>3, <1>g DEF dispatcherVars, server, polling, workers, Coming
<1>4. ASSUME NEW c \in Chats, Arrive(c) PROVE Queued'
  <2>1. Coming' = Coming
    BY <1>4, Zenon DEF Arrive, polling, Coming
  <2> QED
    BY <1>2, <1>4, <1>g, <2>1 DEF Arrive, workers
<1>5. ASSUME NEW c \in Chats, Webhook(c) PROVE Queued'
  <2>1. Len(feed') = Len(feed) + 1
    BY <1>1, <1>5 DEF Webhook
  <2>2. Coming = Len(feed) + 1 /\ Coming' = Len(feed') + 1
    BY <1>5, Zenon DEF Webhook, Coming
  <2> QED
    BY <1>1, <1>5, <1>a, <2>1, <2>2 DEF Webhook, workers
<1>6. CASE BeginPoll \/ Poll \/ PollFails \/ EndBackoff \/ FinalAck
  <2>1. poller # "send" /\ poller' # "send" /\ UNCHANGED <<feed, offset, updates, workers>>
    BY <1>6 DEF BeginPoll, Poll, PollFails, EndBackoff, FinalAck, server, polling
  <2>2. Coming' = Coming
    BY <2>1, Zenon DEF Coming
  <2> QED
    BY <1>2, <1>g, <2>1, <2>2 DEF workers
<1>7. CASE Deliver \/ StopDelivering
  <2>1. UNCHANGED <<feed, updates, workers>>
    BY <1>7 DEF Deliver, StopDelivering, server
  <2>2. CASE ~Polling
    <3>1. Coming' = Coming
      BY <2>1, <2>2, Zenon DEF Coming
    <3> QED
      BY <1>2, <1>g, <2>1, <3>1 DEF workers
  <2>3. CASE Polling /\ Deliver
    <3>1. Coming = offset
      BY <2>3, Zenon DEF Deliver, Coming
    <3>2. Coming' = IF poller' = "send" THEN offset' - 1 ELSE offset'
      BY <2>3, Zenon DEF Coming
    <3>3. \/ poller' = "send" /\ offset' = Upcoming + 1
          \/ poller' = "top" /\ offset' = offset
      BY <2>3, Zenon DEF Deliver
    <3>4. offset <= Upcoming
      BY <1>1 DEF Upcoming
    <3>5. Coming <= Coming'
      <4>1. Upcoming \in Nat
        BY <1>1 DEF Upcoming
      <4>2. Coming' = Upcoming \/ Coming' = offset
        BY <3>2, <3>3, <4>1
      <4> QED
        BY <1>1, <3>1, <3>4, <4>1, <4>2
    <3> QED
      BY <1>g, <2>1, <3>5 DEF workers
  <2>4. CASE Polling /\ StopDelivering
    <3>1. Coming = offset - 1
      BY <2>4, Zenon DEF StopDelivering, Coming
    <3>2. Coming' = offset
      BY <2>4 DEF StopDelivering, Coming
    <3> QED
      BY <1>1, <1>2, <1>g, <2>1, <3>1, <3>2 DEF workers
  <2> QED
    BY <1>7, <2>2, <2>3, <2>4
<1>8. CASE Send
  <2>1. Polling
    BY <1>8 DEF Send, Polling
  <2>2. Coming = offset - 1
    BY <1>8, <2>1, Zenon DEF Send, Coming
  <2>3. Coming' = offset
    BY <1>8, <2>1 DEF Send, Coming
  <2>4. offset >= 2
    BY <1>8 DEF Send, Confirmable
  <2>5. updates' = Append(updates, Coming) /\ UNCHANGED workers
    BY <1>8, <2>2 DEF Send
  <2> QED
    BY <1>1, <1>a, <2>2, <2>3, <2>4, <2>5 DEF workers
<1>9. CASE Ignore
  <2>1. updates # <<>> /\ updates' = Tail(updates) /\ UNCHANGED <<feed, poller, offset, workers>>
    BY <1>9 DEF Ignore, server, polling
  <2>2. Coming' = Coming
    BY <2>1, Zenon DEF Coming
  <2> QED
    BY <1>d, <1>q, <2>1, <2>2 DEF Queued, workers, Ascending
<1>10. ASSUME NEW w \in Workers, Dispatch(w) PROVE Queued'
  <2> DEFINE u == Head(updates)
  <2>1. updates # <<>> /\ updates' = Tail(updates) /\ UNCHANGED <<feed, poller, offset, last>>
    BY <1>10 DEF Dispatch, server, polling
  <2>2. Coming' = Coming
    BY <2>1, Zenon DEF Coming
  <2>3. queue' = queue \/ queue' = [queue EXCEPT ![w] = Append(queue[w], u)]
    BY <1>10 DEF Dispatch
  <2>4. \/ chat' = chat
        \/ queue[w] = <<>> /\ chat' = [chat EXCEPT ![w] = feed[u]]
    <3>1. CASE chatQueues[feed[u]] = Nil
      BY <1>10, <3>1 DEF Dispatch, Unused
    <3>2. CASE chatQueues[feed[u]] # Nil
      <4>1. UNCHANGED <<chatQueues, chat, place>>
        BY <1>10, <3>2 DEF Dispatch
      <4> QED
        BY <4>1
    <3> QED
      BY <3>1, <3>2
  <2>5. feed[u] \in Chats
    <3>1. Head(updates) = updates[1] /\ 1 \in DOMAIN updates
      BY <1>1, <2>1, TailNat
    <3>2. feed \in Seq(Chats) /\ updates[1] \in 1..Len(feed)
      BY <3>1 DEF Types
    <3> QED
      BY <3>1, <3>2
  <2>6. \A v \in Workers : chat'[v] \in Chats
    BY <1>1, <2>4, <2>5
  <2>7. /\ Ascending(updates')
        /\ \A j \in DOMAIN updates' : updates'[j] < Coming'
        /\ \A c \in Chats : last'[c] < Coming' \/ last'[c] = 0
        /\ \A c \in Chats : \A j \in DOMAIN updates' : last'[c] < updates'[j]
    BY <1>d, <1>q, <2>1, <2>2
  <2>8. ASSUME NEW v \in Workers
        PROVE  /\ Ascending(queue'[v])
               /\ \A i \in DOMAIN queue'[v] :
                     /\ queue'[v][i] < Coming'
                     /\ last'[chat'[v]] < queue'[v][i]
                     /\ \A j \in DOMAIN updates' : queue'[v][i] < updates'[j]
    <3>1. CASE queue'[v] = queue[v]
      <4>1. chat'[v] = chat[v] \/ queue[v] = <<>>
        BY <1>1, <2>4
      <4>2. CASE chat'[v] = chat[v]
        BY <1>d, <1>q, <2>1, <2>2, <3>1, <4>2
      <4>3. CASE queue[v] = <<>>
        BY <1>q, <3>1, <4>3
      <4> QED
        BY <4>1, <4>2, <4>3
    <3>2. CASE v = w /\ queue'[w] = Append(queue[w], u)
      <4>1. /\ u \in Nat /\ u < Coming
            /\ \A c \in Chats : last[c] < u
            /\ \A i \in DOMAIN queue[w] : queue[w][i] < u
            /\ \A j \in DOMAIN updates' : u < updates'[j]
            /\ \A i \in DOMAIN queue[w], j \in DOMAIN updates' : queue[w][i] < updates'[j]
        BY <1>d, <2>1
      <4>2. Ascending(queue'[w])
        BY <1>1, <1>q, <3>2, <4>1, AscendingAppend
      <4>3. \A i \in DOMAIN queue'[w] :
               \/ i \in DOMAIN queue[w] /\ queue'[w][i] = queue[w][i]
               \/ queue'[w][i] = u
        BY <1>1, <3>2, <4>1, AppendNat
      <4>4. chat'[w] = chat[w] \/ queue[w] = <<>>
        BY <2>4
      <4>5. ASSUME NEW i \in DOMAIN queue'[w]
            PROVE  /\ queue'[w][i] < Coming'
                   /\ last'[chat'[w]] < queue'[w][i]
                   /\ \A j \in DOMAIN updates' : queue'[w][i] < updates'[j]
        <5>1. CASE queue'[w][i] = u
          BY <2>1, <2>2, <2>6, <4>1, <5>1
        <5>2. CASE i \in DOMAIN queue[w] /\ queue'[w][i] = queue[w][i]
          <6>1. chat'[w] = chat[w]
            BY <4>4, <5>2
          <6> QED
            BY <1>q, <2>1, <2>2, <4>1, <5>2, <6>1
        <5> QED
          BY <4>3, <5>1, <5>2
      <4> QED
        BY <3>2, <4>2, <4>5
    <3> QED
      BY <1>1, <2>3, <3>1, <3>2
  <2> QED
    BY <2>7, <2>8 DEF Queued
<1>11. ASSUME NEW w \in Workers, Receive(w) PROVE Queued'
  <2> DEFINE u == Head(queue[w])
  <2>1. /\ queue[w] # <<>>
        /\ last' = [last EXCEPT ![chat[w]] = u]
        /\ queue' = [queue EXCEPT ![w] = Tail(queue[w])]
        /\ UNCHANGED <<feed, poller, offset, updates, chat>>
    BY <1>11 DEF Receive, server, polling
  <2>2. Coming' = Coming
    BY <2>1, Zenon DEF Coming
  <2>3. /\ u = queue[w][1] /\ 1 \in DOMAIN queue[w] /\ u \in Nat
        /\ \A i \in DOMAIN Tail(queue[w]) :
              i + 1 \in DOMAIN queue[w] /\ Tail(queue[w])[i] = queue[w][i + 1]
    BY <1>1, <2>1, TailNat
  <2>4. /\ \A i \in DOMAIN Tail(queue[w]) : u < Tail(queue[w])[i]
        /\ Ascending(Tail(queue[w]))
    BY <1>1, <1>q, <2>1, AscendingTail
  <2>5. u < Coming /\ \A j \in DOMAIN updates : u < updates[j]
    BY <1>q, <2>3
  <2>6. /\ \A c \in Chats : last'[c] < Coming' \/ last'[c] = 0
        /\ \A c \in Chats : \A j \in DOMAIN updates' : last'[c] < updates'[j]
    BY <1>1, <1>q, <2>1, <2>2, <2>5
  <2>7. ASSUME NEW v \in Workers, v # w, queue[v] # <<>>
        PROVE  chat[v] # chat[w]
    BY <2>1, <2>7 DEF Mapped
  <2>8. ASSUME NEW v \in Workers
        PROVE  /\ Ascending(queue'[v])
               /\ \A i \in DOMAIN queue'[v] :
                     /\ queue'[v][i] < Coming'
                     /\ last'[chat'[v]] < queue'[v][i]
                     /\ \A j \in DOMAIN updates' : queue'[v][i] < updates'[j]
    <3>1. CASE v = w
      <4>1. queue'[w] = Tail(queue[w]) /\ last'[chat[w]] = u
        BY <1>1, <2>1
      <4>2. ASSUME NEW i \in DOMAIN Tail(queue[w])
            PROVE  /\ Tail(queue[w])[i] < Coming
                   /\ u < Tail(queue[w])[i]
                   /\ \A j \in DOMAIN updates : Tail(queue[w])[i] < updates[j]
        BY <1>q, <2>3, <2>4
      <4> QED
        BY <2>1, <2>2, <2>4, <3>1, <4>1, <4>2
    <3>2. CASE v # w
      <4>1. queue'[v] = queue[v]
        BY <1>1, <2>1, <3>2
      <4>2. CASE queue[v] = <<>>
        BY <1>q, <4>1, <4>2
      <4>3. CASE queue[v] # <<>>
        <5>1. last'[chat'[v]] = last[chat[v]]
          BY <1>1, <2>1, <2>7, <3>2, <4>3
        <5> QED
          BY <1>q, <2>1, <2>2, <4>1, <5>1
      <4> QED
        BY <4>2, <4>3
    <3> QED
      BY <3>1, <3>2
  <2> QED
    BY <1>q, <2>1, <2>2, <2>6, <2>8 DEF Queued
<1>12. ASSUME NEW w \in Workers, Processed(w) \/ IdleTimer(w) \/ CleanUp(w) \/ WorkerStops(w)
       PROVE  Queued'
  <2>1. UNCHANGED <<feed, poller, offset, updates, chat, queue, last>>
    BY <1>12 DEF Processed, IdleTimer, CleanUp, WorkerStops, server, polling
  <2>2. Coming' = Coming
    BY <2>1, Zenon DEF Coming
  <2> QED
    BY <1>2, <1>g, <2>1, <2>2
<1>13. CASE Stop
  <2>1. UNCHANGED <<feed, poller, offset, updates, chat, queue, last>>
    BY <1>13 DEF Stop, polling, workers
  <2>2. Coming' = Coming
    BY <2>1, Zenon DEF Coming
  <2> QED
    BY <1>2, <1>g, <2>1, <2>2
<1>14. CASE Restart
  BY <1>14 DEF Restart, Queued, Ascending
<1> QED
  BY <1>3, <1>4, <1>5, <1>6, <1>7, <1>8, <1>9, <1>10, <1>11, <1>12, <1>13, <1>14
     DEF DispatcherNext, Poller, Worker

-----------------------------------------------------------------------------
(* IInv holds in every state: types, one worker per chat in the map, the    *)
(* offset behind what was sent, and every queue in order.                   *)
THEOREM DispatcherInvariant == DispatcherSpec => []IInv
<1>1. IInv /\ [DispatcherNext]_dispatcherVars => IInv'
  BY StoppingStep, TypeStep, MappedStep, ConfirmableStep, QueuedStep DEF IInv
<1> QED
  BY <1>1, InitInvariant, PTL DEF DispatcherSpec

(* Two live workers are never on the same chat, for any number of chats.    *)
THEOREM DispatcherSequential == DispatcherSpec => []Sequential
<1>1. IInv => Sequential
  BY DEF IInv, Mapped, Sequential
<1> QED
  BY <1>1, DispatcherInvariant, PTL

(* A chat in the map has its worker and no channel outside the map holds    *)
(* an update, until the process stops.                                      *)
THEOREM DispatcherNobodyStranded == DispatcherSpec => []NobodyStranded
<1>1. IInv => NobodyStranded
  BY DEF IInv, Mapped, NobodyStranded
<1> QED
  BY <1>1, DispatcherInvariant, PTL

(* What waits for a chat's handler is in the order it came, for any         *)
(* capacities.                                                              *)
THEOREM DispatcherInOrder == DispatcherSpec => []InOrder
<1>1. IInv => InOrder
  <2> SUFFICES ASSUME Types, Queued PROVE InOrder
    BY DEF IInv
  <2>1. \A j \in DOMAIN updates : feed[updates[j]] \in Chats
    BY DEF Types
  <2> QED
    BY <2>1 DEF Queued, InOrder
<1> QED
  BY <1>1, DispatcherInvariant, PTL

(* Telegram drops only updates that waitUpdates was given, for any faults.  *)
THEOREM DispatcherAckedIsTaken == DispatcherSpec => []AckedIsTaken
<1>1. IInv => AckedIsTaken
  BY DEF IInv, Confirmable, AckedIsTaken
<1> QED
  BY <1>1, DispatcherInvariant, PTL
=============================================================================
