--------------------------- MODULE MCOnlineOrder ---------------------------
(* The instances of OnlineOrder that are model checked.                     *)
EXTENDS OnlineOrder

CONSTANTS p1, p2, v1, v2, s1

=============================================================================
