-------------------------- MODULE UniqueTimestamps --------------------------
(***************************************************************************)
(* What the timestamp oracle promises: a timestamp is handed out once, to  *)
(* one client, and the timestamps of a client increase.  Nothing is        *)
(* promised on the order of timestamps of different clients.               *)
(***************************************************************************)
EXTENDS Integers

CONSTANT Client

VARIABLE given    \* given[c]: the timestamps client c has been handed

Init == given = [c \in Client |-> {}]

Give(c, t) ==
    /\ t \in Nat
    /\ \A d \in Client : t \notin given[d]
    /\ \A u \in given[c] : u < t
    /\ given' = [given EXCEPT ![c] = @ \cup {t}]

Next == \E c \in Client : \E t \in given'[c] : Give(c, t)

Spec == Init /\ [][Next]_given
=============================================================================
