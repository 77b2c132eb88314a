--------------------------- MODULE MCUpstreamSync ---------------------------
(* Values for model checking: e3, which HQ refuses, outranks e1 and e2.    *)
EXTENDS UpstreamSync

CONSTANTS e1, e2, e3, w1, w2

MCRank == [e \in Events |-> IF e = e3 THEN 1 ELSE IF e = e1 THEN 2 ELSE 3]
MCNumber == [e \in Events |-> IF e = e1 THEN "ecommerce" ELSE "legacy"]
MCForeign == Events \cap {e3}
=============================================================================
