-------------------------- MODULE BoundedStaleness --------------------------
(***************************************************************************)
(* What a cache in front of a database promises its readers, whatever it   *)
(* is made of: a value it holds may be old, but it was once committed, and *)
(* it is never older than the newest commit its holder has been told of.   *)
(* A holder that is told of a commit holds nothing right after that.       *)
(***************************************************************************)
EXTENDS Naturals

CONSTANT Workers

VARIABLES
    db,     \* commits so far; a value is the number of commits it reflects
    heard,  \* heard[w]: the newest commit w has been told of
    held    \* held[w]: the values w may answer a read with, at most one

vars == <<db, heard, held>>

Init == /\ db = 0
        /\ heard = [w \in Workers |-> 0]
        /\ held = [w \in Workers |-> {}]

Commit == /\ db' = db + 1
          /\ UNCHANGED <<heard, held>>

Hear(w, c) == /\ heard' = [heard EXCEPT ![w] = IF c > @ THEN c ELSE @]
              /\ held' = [held EXCEPT ![w] = {}]
              /\ UNCHANGED db

Hold(w, v) == /\ held' = [held EXCEPT ![w] = {v}]
              /\ UNCHANGED <<db, heard>>

Drop(w) == /\ held' = [held EXCEPT ![w] = {}]
           /\ UNCHANGED <<db, heard>>

Next == \/ Commit
        \/ \E w \in Workers : \/ \E c \in 1 .. db : Hear(w, c)
                              \/ \E v \in heard[w] .. db : Hold(w, v)
                              \/ Drop(w)

Spec == Init /\ [][Next]_vars
=============================================================================
