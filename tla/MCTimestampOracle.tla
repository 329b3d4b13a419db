------------------------- MODULE MCTimestampOracle --------------------------
(* TimestampOracle for TLC. *)
EXTENDS TimestampOracle, TLC

Symmetry == Permutations(Replica) \cup Permutations(Client \ Direct)
=============================================================================
