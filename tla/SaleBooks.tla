----------------------------- MODULE SaleBooks -----------------------------
(***************************************************************************)
(* What HQ's books promise of the sales and stock movements stores deliver *)
(* to it, however often a delivery fails halfway and is repeated.  A sale  *)
(* moves its variants and charges its customer only as it is completed, in *)
(* that order; only a completed sale has revenue; cash is written with the *)
(* revenue or never; costs are those of movements that are entered.  One   *)
(* transaction touches one sale, and nothing is ever taken back.           *)
(***************************************************************************)
CONSTANTS Sales, Moves, SaleOf

VARIABLES
    completed,  \* sales HQ holds as completed
    moved,      \* sales that moved their variants
    charged,    \* sales posted to their customer's account
    revenue,    \* sales with a revenue journal
    cash,       \* sales with cashbook entries
    entered,    \* movements in the inventory ledger
    cost        \* movements with a cost journal

books == <<revenue, cash, cost>>
vars  == <<completed, moved, charged, entered, books>>

Init == /\ completed = {} /\ moved = {} /\ charged = {} /\ entered = {}
        /\ revenue = {} /\ cash = {} /\ cost = {}

\* The accounting of one sale, once it is completed: costs follow the revenue.
Account(s) ==
    /\ s \in completed'
    /\ revenue' \in {revenue, revenue \cup {s}}
    /\ cash' \in {cash, cash \cup (revenue' \ revenue)}
    /\ \/ cost' = cost
       \/ s \in revenue' /\ cost' = cost \cup {m \in entered' : SaleOf[m] = s}

Complete(s) ==
    /\ s \notin completed
    /\ completed' = completed \cup {s}
    /\ moved' \in {moved, moved \cup {s}}
    /\ charged' \in {charged, charged \cup (moved' \ moved)}
    /\ (s \in charged' /\ Account(s)) \/ UNCHANGED books
    /\ UNCHANGED entered

Enter(m) ==
    /\ m \notin entered
    /\ entered' = entered \cup {m}
    /\ UNCHANGED <<completed, moved, charged>>
    /\ Account(SaleOf[m]) \/ UNCHANGED books

CatchUp(s) ==
    /\ UNCHANGED <<completed, moved, charged, entered>>
    /\ Account(s)

CostOf(m) ==
    /\ m \in entered
    /\ cost' = cost \cup {m}
    /\ UNCHANGED <<completed, moved, charged, entered, revenue, cash>>

Next == \/ \E s \in Sales : Complete(s) \/ CatchUp(s)
        \/ \E m \in Moves : Enter(m) \/ CostOf(m)

Spec == Init /\ [][Next]_vars
=============================================================================
