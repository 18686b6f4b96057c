----------------------------- MODULE MCServices -----------------------------
(***************************************************************************)
(* The components that share no state, for TLC: in each behaviour one of   *)
(* them moves and the others stay as they begin.                           *)
(***************************************************************************)
EXTENDS GroupLimiter, Firing, Requester, Ann, WebSessions, WebChat, Agent, SshPool,
        Delegation, Workspace, Delivery, CompletionStream, MCSchedules, TLC

VARIABLE focus  \* the component that moves

services == <<focus, limiterVars, firingVars, requestVars, annVars, webVars,
              chatVars, agentVars, poolVars, delegationVars, workspaceVars, deliveryVars,
              streamVars, scheduleVars>>

RetryCounts == {-1, 0, 2}

Components == {"limiter", "firing", "requester", "ann", "web", "chat", "agent", "pool",
               "delegation", "workspace", "delivery", "stream", "schedules"}

ServicesInit ==
    /\ focus \in Components
    /\ LimiterInit
    /\ focus # "limiter" => group = [c \in Callers |-> CHOOSE g \in Groups : TRUE]
    /\ FiringInit
    /\ focus # "firing" => kind = "turn" /\ ~recurring
    /\ RequesterInit
    /\ focus # "requester" => policy = CHOOSE p \in Policies : TRUE
    /\ WebInit
    /\ focus # "web" => password = 0
    /\ CompletionInit
    /\ focus # "stream" => provider.calls = 0 /\ provider.style = "ids"
    /\ AnnInit /\ ChatInit /\ AgentInit /\ PoolInit
    /\ DelegationInit /\ WorkspaceInit /\ DeliveryInit
    /\ IF focus = "schedules" THEN SchedulesInit ELSE Scheduled(ScheduleOfOnce)

Kept(component, v) == IF focus = component THEN TRUE ELSE UNCHANGED v
Others ==
    /\ UNCHANGED focus
    /\ Kept("limiter", limiterVars) /\ Kept("firing", firingVars)
    /\ Kept("requester", requestVars)
    /\ Kept("ann", annVars) /\ Kept("web", webVars) /\ Kept("chat", chatVars) /\ Kept("agent", agentVars)
    /\ Kept("pool", poolVars) /\ Kept("delegation", delegationVars)
    /\ Kept("workspace", workspaceVars) /\ Kept("delivery", deliveryVars)
    /\ Kept("stream", streamVars) /\ Kept("schedules", scheduleVars)

ServicesNext ==
    \/ focus = "limiter" /\ LimiterNext /\ Others
    \/ focus = "firing" /\ FiringNext /\ Others
    \/ focus = "requester" /\ RequesterNext /\ Others
    \/ focus = "ann" /\ AnnNext /\ Others
    \/ focus = "web" /\ WebNext /\ Others
    \/ focus = "chat" /\ ChatNext /\ Others
    \/ focus = "agent" /\ AgentNext /\ Others
    \/ focus = "pool" /\ PoolNext /\ Others
    \/ focus = "delegation" /\ DelegationNext /\ Others
    \/ focus = "workspace" /\ WorkspaceNext /\ Others
    \/ focus = "delivery" /\ DeliveryNext /\ Others
    \/ focus = "stream" /\ CompletionNext /\ Others
    \/ focus = "schedules" /\ SchedulesNext /\ Others

(* What tells two states apart: the component that moves.  The others are as *)
(* they began, and no action or invariant of one component reads another.  *)
View ==
    <<focus,
      CASE focus = "limiter" -> limiterVars [] focus = "firing" -> firingVars
        [] focus = "requester" -> requestVars
        [] focus = "ann" -> annVars [] focus = "web" -> webVars [] focus = "chat" -> chatVars
        [] focus = "agent" -> agentVars [] focus = "pool" -> poolVars
        [] focus = "delegation" -> delegationVars [] focus = "workspace" -> workspaceVars
        [] focus = "delivery" -> deliveryVars [] focus = "stream" -> streamVars
        [] focus = "schedules" -> scheduleVars>>

ServicesSpec == ServicesInit /\ [][ServicesNext]_services
=============================================================================
