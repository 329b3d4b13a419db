------------------------------ MODULE KeyStore ------------------------------
(***************************************************************************)
(* What the shards promise together: one store.  Every key has a value     *)
(* and the timestamp of the write that gave it, and the one step there is  *)
(* gives a key a value at a later timestamp.                               *)
(***************************************************************************)
EXTENDS Integers

CONSTANTS Key, Value, Nothing

VARIABLES
    val,    \* val[k]: what a reader of k finds
    last    \* last[k]: the timestamp of the newest write of k

vars == <<val, last>>

Init == val \in [Key -> Value \cup {Nothing}] /\ last \in [Key -> Nat]

Write(k) ==
    /\ last'[k] > last[k]
    /\ \E v \in Value \cup {Nothing} : val' = [val EXCEPT ![k] = v]
    /\ last' = [last EXCEPT ![k] = last'[k]]

Next == \E k \in Key : Write(k)

Spec == Init /\ [][Next]_vars
=============================================================================
