------------------------------ MODULE Delivery ------------------------------
(***************************************************************************)
(* What caliban tells of a run while it goes on and when it has ended:     *)
(* executeRun emits events that the Telegram transport and the web page's  *)
(* event stream follow (internal/engine/run.go, internal/telegram/         *)
(* telegram.go, internal/web/web.go), and a reminder or a scheduled turn   *)
(* is pushed to the browsers that subscribed (internal/web/push.go).  One  *)
(* conversation belongs to Telegram, the other to the web; the lanes run   *)
(* beside each other, and every subscriber hears of both.                  *)
(***************************************************************************)
EXTENDS Integers, Sequences

CONSTANTS EventBuffer,    \* eventBuffer
          Endpoints,      \* push endpoints of browsers
          MaxTold,        \* bound on runs
          MaxDeliveryFaults

VARIABLES told,     \* the runs: conversation, source and status
          teller,     \* what each conversation's worker does
          typing,   \* telegram.Transport.typing: runs with an indicator
          outbox,   \* runs whose reply a goroutine is about to send
          browser,   \* the browser's event stream
          push,     \* subscriptions, and the notification that is under way
          deliveryFaults

deliveryVars == <<told, teller, typing, outbox, browser, push, deliveryFaults>>

Convs == {"telegram", "web"}
IdleLane == [at |-> "idle", run |-> 0]
Closed == [open |-> FALSE, conv |-> "web", scope |-> "runs", buffer |-> <<>>, following |-> {}, ended |-> {}, lost |-> {}]
NoPush == [at |-> "idle", todo |-> {}]

DeliveryInit ==
    /\ told = <<>> /\ teller = [c \in Convs |-> IdleLane]
    /\ typing = {} /\ outbox = {} /\ browser = Closed
    /\ push = [subscribed |-> {}, now |-> NoPush]
    /\ deliveryFaults = 0

DeliveryFault == deliveryFaults < MaxDeliveryFaults /\ deliveryFaults' = deliveryFaults + 1
Event(c, run, kind) == [conv |-> c, run |-> run, kind |-> kind]

-----------------------------------------------------------------------------
(* onEvent: any event but a stored row keeps the indicator up, done ends it
   and sends the reply. *)
TelegramHears(ev) ==
    /\ typing' = IF ev.conv # "telegram" \/ ev.kind = "row" THEN typing
                 ELSE IF ev.kind = "done" THEN typing \ {ev.run} ELSE typing \cup {ev.run}
    /\ outbox' = IF ev.conv = "telegram" /\ ev.kind = "done" THEN outbox \cup {ev.run} ELSE outbox
(* The stream's callback never blocks: what does not fit is dropped. *)
StreamHears(ev) ==
    browser' = IF ~browser.open THEN browser
              ELSE IF Len(browser.buffer) < EventBuffer
              THEN [browser EXCEPT !.buffer = Append(@, ev)]
              ELSE [browser EXCEPT !.lost = @ \cup {ev.run}]
Emit(ev) == TelegramHears(ev) /\ StreamHears(ev)
Quiet == UNCHANGED <<typing, outbox, browser>>

(* executeRun: the row of the run; a scheduled one's input is published. *)
StartToldRun(c, source) ==
    /\ teller[c].at = "idle" /\ Len(told) < MaxTold
    /\ told' = Append(told, [conv |-> c, source |-> source, status |-> "running"])
    /\ teller' = [teller EXCEPT ![c] = [at |-> "model", run |-> Len(told) + 1]]
    /\ IF source = "schedule" THEN Emit(Event(c, Len(told) + 1, "row")) ELSE Quiet
    /\ UNCHANGED <<push, deliveryFaults>>
(* The model streams; its own done is held back. *)
EmitDelta(c) ==
    /\ teller[c].at = "model"
    /\ Emit(Event(c, teller[c].run, "delta"))
    /\ UNCHANGED <<told, teller, push, deliveryFaults>>

StoreRun(c, status) ==
    /\ teller[c].at = "model"
    /\ told' = [told EXCEPT ![teller[c].run].status = status]
    /\ teller' = [teller EXCEPT ![c].at = IF told[teller[c].run].source = "schedule" THEN "publish"
                                      ELSE IF status = "failed" THEN "apologise" ELSE "tell"]
    /\ Quiet /\ UNCHANGED <<push, deliveryFaults>>
(* Neither the answer nor the failure can be stored: nobody is told. *)
SettleFails(c) ==
    /\ teller[c].at = "model" /\ DeliveryFault
    /\ teller' = [teller EXCEPT ![c] = IdleLane]
    /\ Quiet /\ UNCHANGED <<told, push>>
PublishRows(c) ==
    /\ teller[c].at = "publish"
    /\ Emit(Event(c, teller[c].run, "row"))
    /\ teller' = [teller EXCEPT ![c].at = IF told[teller[c].run].status = "failed" THEN "apologise" ELSE "tell"]
    /\ UNCHANGED <<told, push, deliveryFaults>>
(* Mutant: a failed run ends without a done. *)
ApologiseOnly(c) ==
    /\ teller[c].at = "apologise"
    /\ Emit(Event(c, teller[c].run, "delta"))
    /\ teller' = [teller EXCEPT ![c] = IdleLane]
    /\ UNCHANGED <<told, push, deliveryFaults>>
(* failRun streams the failure's text, as if the model had said it. *)
Apologise(c) ==
    /\ teller[c].at = "apologise"
    /\ Emit(Event(c, teller[c].run, "delta"))
    /\ teller' = [teller EXCEPT ![c].at = "tell"]
    /\ UNCHANGED <<told, push, deliveryFaults>>
(* done; a scheduled turn is then pushed to the conversation's browsers. *)
Tell(c) ==
    /\ teller[c].at = "tell"
    /\ Emit(Event(c, teller[c].run, "done"))
    /\ teller' = [teller EXCEPT ![c] = IF told[teller[c].run].source = "schedule" /\ c = "web"
                                      /\ told[teller[c].run].status = "done"
                                   THEN [teller[c] EXCEPT !.at = "notify"] ELSE IdleLane]
    /\ UNCHANGED <<told, push, deliveryFaults>>

SendTelegram(r) ==
    /\ r \in outbox /\ outbox' = outbox \ {r}
    /\ UNCHANGED <<told, teller, typing, browser, push, deliveryFaults>>

(* The process stops; the next one fails the runs it finds running. *)
Restart ==
    /\ \E c \in Convs : teller[c].at # "idle"
    /\ DeliveryFault
    /\ told' = [r \in DOMAIN told |-> IF told[r].status = "running" THEN [told[r] EXCEPT !.status = "failed"]
                                      ELSE told[r]]
    /\ teller' = [c \in Convs |-> IdleLane]
    /\ typing' = {} /\ outbox' = {} /\ browser' = Closed
    /\ push' = [push EXCEPT !.now = NoPush]

-----------------------------------------------------------------------------
(* resolveChat: without a name it is the web's own conversation; any other is
   found by its uuid when it is active and nobody's child, and else not at all
   (a bare id is no name while there is a store). *)
Chats == Convs \cup {"unnamed", "child", "archived", "bare id"}
ResolveChat(id) == {c \in Convs : id = c \/ (id = "unnamed" /\ c = "web")}
(* GET events: one stream, of what the runs stream or of stored rows. *)
OpenStream(id, scope) ==
    /\ ~browser.open
    /\ \E c \in ResolveChat(id) :
          browser' = [Closed EXCEPT !.open = TRUE, !.conv = c, !.scope = scope]
    /\ UNCHANGED <<told, teller, typing, outbox, push, deliveryFaults>>
CloseStream ==
    /\ browser.open /\ browser' = Closed
    /\ UNCHANGED <<told, teller, typing, outbox, push, deliveryFaults>>
(* The handler's loop: a translator per run, until its done. *)
Heard(ev) == ev.conv = browser.conv /\ (ev.kind = "row" <=> browser.scope = "messages")
SendEvent ==
    /\ browser.open /\ browser.buffer # <<>>
    /\ LET ev == Head(browser.buffer) IN
       browser' = [browser EXCEPT
          !.buffer = Tail(@),
          !.following = IF ~Heard(ev) \/ ev.kind = "row" THEN @
                        ELSE IF ev.kind = "done" THEN @ \ {ev.run} ELSE @ \cup {ev.run},
          !.ended = IF Heard(ev) /\ ev.kind = "done" THEN @ \cup {ev.run} ELSE @]
    /\ UNCHANGED <<told, teller, typing, outbox, push, deliveryFaults>>

-----------------------------------------------------------------------------
(* PUT and DELETE of a browser's subscription. *)
Subscribe(e) ==
    /\ e \notin push.subscribed
    /\ push' = [push EXCEPT !.subscribed = @ \cup {e}]
    /\ UNCHANGED <<told, teller, typing, outbox, browser, deliveryFaults>>
Unsubscribe(e) ==
    /\ e \in push.subscribed
    /\ push' = [push EXCEPT !.subscribed = @ \ {e}]
    /\ UNCHANGED <<told, teller, typing, outbox, browser, deliveryFaults>>
(* sendPushPayload: the subscriptions at one moment, then one after the other,
   whatever comes of each; what the push service has forgotten is deleted. *)
BeginPush ==
    /\ teller["web"].at = "notify" /\ push.now = NoPush
    /\ push' = [push EXCEPT !.now = [at |-> "sending", todo |-> push.subscribed]]
    /\ Quiet /\ UNCHANGED <<told, teller, deliveryFaults>>
SendPush(e, outcome) ==
    /\ push.now.at = "sending" /\ e \in push.now.todo
    /\ push' = [push EXCEPT !.now.todo = @ \ {e},
                            !.subscribed = IF outcome = "gone" THEN @ \ {e} ELSE @]
    /\ Quiet /\ UNCHANGED <<told, teller, deliveryFaults>>
EndPush ==
    /\ push.now.at = "sending" /\ push.now.todo = {}
    /\ push' = [push EXCEPT !.now = NoPush]
    /\ teller' = [teller EXCEPT !["web"] = IdleLane]
    /\ Quiet /\ UNCHANGED <<told, deliveryFaults>>

DeliveryNext ==
    \/ \E c \in Convs : \/ \E source \in {"typed", "schedule"} : StartToldRun(c, source)
                        \/ EmitDelta(c) \/ SettleFails(c) \/ PublishRows(c) \/ Apologise(c) \/ Tell(c)
                        \/ \E status \in {"done", "failed"} : StoreRun(c, status)
    \/ \E r \in outbox : SendTelegram(r)
    \/ \E id \in Chats, scope \in {"runs", "messages"} : OpenStream(id, scope)
    \/ CloseStream \/ SendEvent \/ Restart \/ BeginPush \/ EndPush
    \/ \E e \in Endpoints : \/ Subscribe(e) \/ Unsubscribe(e)
                            \/ \E outcome \in {"sent", "failed", "gone"} : SendPush(e, outcome)

DeliverySpec == DeliveryInit /\ [][DeliveryNext]_deliveryVars

-----------------------------------------------------------------------------
TellerPhases == {"idle", "model", "publish", "apologise", "tell", "notify"}
ToldRuns == [conv : Convs, source : {"typed", "schedule"}, status : {"running", "done", "failed"}]
Tellers == [at : TellerPhases, run : Nat]
Events == [conv : Convs, run : Nat, kind : {"row", "delta", "done"}]
Browsers == [open : BOOLEAN, conv : Convs, scope : {"runs", "messages"}, buffer : Seq(Events),
             following : SUBSET Nat, ended : SUBSET Nat, lost : SUBSET Nat]

(* Only the web's lane pushes. *)
DeliveryTypeOK ==
    /\ told \in Seq(ToldRuns) /\ teller \in [Convs -> Tellers] /\ teller["telegram"].at # "notify"
    /\ push \in [subscribed : SUBSET Endpoints, now : [at : {"idle", "sending"}, todo : SUBSET Endpoints]]
    /\ browser \in Browsers /\ deliveryFaults \in Nat

(* Who is told that a run has ended, on either transport, finds its answer or
   its failure in the chat: a reload shows it (run.go:139-175). *)
ToldIsStored == \A r \in outbox \cup browser.ended : told[r].status # "running"

(* An indicator or a stream that still waits for a run waits for one that is in
   its lane, or whose done is on its way; unless the buffer was full, or the
   store failed twice (run.go:211-242, web.go:275-345, telegram.go:118-160). *)
InLane == {teller[c].run : c \in {k \in Convs : teller[k].at \in {"model", "publish", "apologise", "tell"}}}
OnItsWay == {browser.buffer[i].run : i \in {k \in DOMAIN browser.buffer : browser.buffer[k].kind = "done"}}
WaitersAreTold ==
    deliveryFaults = 0 =>
        /\ typing \subseteq InLane
        /\ browser.following \subseteq InLane \cup OnItsWay \cup browser.lost
=============================================================================
