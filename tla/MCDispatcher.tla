---------------------------- MODULE MCDispatcher ----------------------------
(***************************************************************************)
(* What caliban's host keeps beside its conversations, for TLC: the        *)
(* updates of Telegram, and the background shells of a task.  In each      *)
(* behaviour one of the two moves.                                         *)
(***************************************************************************)
EXTENDS Dispatcher, Shells, TLC

VARIABLE hosted  \* "updates" or "shells"

hostVars == <<hosted, dispatcherVars, shellVars>>

HostInit ==
    /\ hosted \in {"updates", "shells"}
    /\ DispatcherInit /\ ShellsInit
    /\ hosted = "shells" => /\ poller = CHOOSE w \in Ways : TRUE
                            /\ chat = [w \in Workers |-> CHOOSE c \in Chats : TRUE]

HostNext ==
    \/ hosted = "updates" /\ DispatcherNext /\ UNCHANGED <<hosted, shellVars>>
    \/ hosted = "shells" /\ ShellsNext /\ UNCHANGED <<hosted, dispatcherVars>>

(* The fairness of FairDispatcherSpec, where the updates move.              *)
Updates(A) == hosted = "updates" /\ A

HostSpec ==
    /\ HostInit /\ [][HostNext]_hostVars
    /\ WF_dispatcherVars(Updates(Poller))
    /\ WF_dispatcherVars(Updates(~stopping /\ (Ignore \/ \E w \in Workers : Dispatch(w))))
    /\ \A w \in Workers : /\ SF_dispatcherVars(Updates(Receive(w)))
                          /\ WF_dispatcherVars(Updates(Processed(w) \/ CleanUp(w)))
    /\ WF_dispatcherVars(Updates(stopping /\ Restart))
=============================================================================
