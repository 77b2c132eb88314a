-------------------------- MODULE MCDownstreamSync --------------------------
(* Two or three versions of one record; whether it carries a version is up to the cfg. *)
EXTENDS DownstreamSync

CONSTANT price

OneRecord == [p \in Packets |-> price]
=============================================================================
