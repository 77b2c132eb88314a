--------------------------- MODULE MCSharedCache ---------------------------
(* Both loads are w1's, so that one whose entry was deleted meets the next    *)
(* one; w2 changes the data too, but does not read the key.                   *)
EXTENDS SharedCache

CONSTANTS w1, w2, l1, l2

MCAt == [l \in Loads |-> w1]
=============================================================================
