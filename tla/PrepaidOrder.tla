---------------------------- MODULE PrepaidOrder ----------------------------
(***************************************************************************)
(* What a prepaid order promises, whatever is verified twice, arrives late *)
(* or fails: money is recorded only when the gateway has it, an order is   *)
(* accepted only after money has been recorded, and it comes to a till     *)
(* only after it was accepted.  None of this is ever taken back.           *)
(***************************************************************************)
CONSTANT Payments

VARIABLES
    held,       \* payments of which the gateway has the money
    recorded,   \* payments recorded for the order
    accepted,   \* staff have accepted the order
    delivered   \* a till knows the order

vars == <<held, recorded, accepted, delivered>>

Init == held = {} /\ recorded = {} /\ ~accepted /\ ~delivered

Pay(p) == /\ p \notin held
          /\ held' = held \cup {p}
          /\ UNCHANGED <<recorded, accepted, delivered>>

Record(p) == /\ p \in held
             /\ recorded' = recorded \cup {p}
             /\ UNCHANGED <<held, accepted, delivered>>

Accept == /\ recorded # {}
          /\ accepted' = TRUE
          /\ UNCHANGED <<held, recorded, delivered>>

Deliver == /\ accepted
           /\ delivered' = TRUE
           /\ UNCHANGED <<held, recorded, accepted>>

Next == \/ \E p \in Payments : Pay(p) \/ Record(p)
        \/ Accept
        \/ Deliver

Spec == Init /\ [][Next]_vars
=============================================================================
