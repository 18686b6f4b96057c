------------------------------- MODULE Inbox -------------------------------
(***************************************************************************)
(* What a caliban conversation promises the people who write to it: every   *)
(* message that was accepted is answered by exactly one reply, a burst of   *)
(* messages by one reply together, whatever fails or restarts in between.   *)
(***************************************************************************)
EXTENDS Naturals

VARIABLES
    asked,     \* ids of the messages accepted
    answered,  \* those that a reply covers
    replies    \* the replies: pairs of the reply's own id and its input

vars == <<asked, answered, replies>>

Init == asked = {} /\ answered = {} /\ replies = {}

(* A message is accepted under a new id.                                    *)
Ask ==
    /\ \E id \in asked' : id \notin asked /\ asked' = asked \cup {id}
    /\ UNCHANGED <<answered, replies>>

(* A new reply to one unanswered message also answers the ones before it.   *)
Answer ==
    /\ \E new \in replies' :
          /\ \A old \in replies : old[1] # new[1]
          /\ new[2] \in asked \ answered
          /\ replies' = replies \cup {new}
          /\ answered' = answered \cup {id \in asked : id <= new[2]}
    /\ UNCHANGED asked

Next == Ask \/ Answer

Spec == Init /\ [][Next]_vars
=============================================================================
