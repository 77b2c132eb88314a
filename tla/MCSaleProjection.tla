-------------------------- MODULE MCSaleProjection --------------------------
(* Two sales: s1 was parked at HQ, may meet a hurdle at every later stage   *)
(* and draws m1 from two batches; s2 may lack its product and draws m2 from *)
(* the second batch.  Two hurdles are left out: customer is met where       *)
(* product is, serials just before credit.                                  *)
EXTENDS SaleProjection

CONSTANTS s1, s2, m1, m2, b1, b2

MCSaleOf == [m \in Moves |-> IF m = m1 THEN s1 ELSE s2]
MCTakes == [m \in Moves |-> IF m = m1 THEN {b1, b2} ELSE {b2}]
MCOrder == [b \in Batches |-> IF b = b1 THEN 1 ELSE 2]
MCShelf == [b \in Batches |-> 1]
MCParked == {s1}
MCHurdles == ({s1} \X {"variant", "credit", "posting", "numbering", "cost"})
             \cup {<<s2, "product">>}
=============================================================================
