-------------------------- MODULE ReliableDelivery --------------------------
(***************************************************************************)
(* What sync promises in either direction, whatever the network does: the  *)
(* receiver projects only what the sender recorded, projects nothing       *)
(* twice, and the sender calls confirmed only what the receiver has        *)
(* projected.  The sender may forget a confirmation (and resend); the      *)
(* receiver never forgets a projection.                                    *)
(***************************************************************************)
CONSTANT Events

VARIABLES
    recorded,   \* events the sender has committed, with the business data at a store
    projected,  \* events whose effects the receiver has committed, each once
    confirmed   \* events the sender believes the receiver has

vars == <<recorded, projected, confirmed>>

Init == recorded = {} /\ projected = {} /\ confirmed = {}

Record(e) == /\ e \notin recorded
             /\ recorded' = recorded \cup {e}
             /\ UNCHANGED <<projected, confirmed>>

Project(S) == /\ projected' = projected \cup S
              /\ UNCHANGED <<recorded, confirmed>>

Report(S) == /\ confirmed' = S
             /\ UNCHANGED <<recorded, projected>>

Next == \/ \E e \in Events : Record(e)
        \/ \E S \in SUBSET (recorded \ projected) : Project(S)
        \/ \E S \in SUBSET projected : Report(S)

Spec == Init /\ [][Next]_vars
=============================================================================
