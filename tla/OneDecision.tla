---------------------------- MODULE OneDecision -----------------------------
(***************************************************************************)
(* What a transaction promises to its client: it is decided once, nothing  *)
(* of it shows before it has committed, and what the client is told is     *)
(* what was decided.                                                       *)
(***************************************************************************)
CONSTANTS Txn, Key

VARIABLES
    outcome,   \* outcome[t]: "open", "committed" or "aborted"
    told,      \* told[t]: what the client has been told, "nothing" at first
    shown      \* shown[t]: the keys on which t has written

vars == <<outcome, told, shown>>

Init ==
    /\ outcome = [t \in Txn |-> "open"]
    /\ told = [t \in Txn |-> "nothing"]
    /\ shown = [t \in Txn |-> {}]

\* The client may be told at once, later, or never.
Hears(t, what) == told' \in {told, [told EXCEPT ![t] = what]}

Commit(t) ==
    /\ outcome[t] = "open"
    /\ outcome' = [outcome EXCEPT ![t] = "committed"]
    /\ \E ks \in SUBSET Key : shown' = [shown EXCEPT ![t] = ks]
    /\ Hears(t, "committed")

Abort(t) ==
    /\ outcome[t] = "open"
    /\ outcome' = [outcome EXCEPT ![t] = "aborted"]
    /\ Hears(t, "aborted")
    /\ UNCHANGED shown

Tell(t) ==
    /\ outcome[t] # "open" /\ told[t] = "nothing"
    /\ told' = [told EXCEPT ![t] = outcome[t]]
    /\ UNCHANGED <<outcome, shown>>

Show(t) ==
    /\ outcome[t] = "committed"
    /\ \E k \in Key : shown' = [shown EXCEPT ![t] = @ \cup {k}]
    /\ UNCHANGED <<outcome, told>>

Next == \E t \in Txn : Commit(t) \/ Abort(t) \/ Tell(t) \/ Show(t)

Spec == Init /\ [][Next]_vars
=============================================================================
