--------------------------- MODULE DefaultRanges ----------------------------
(***************************************************************************)
(* The ranges a cluster starts with (default_range_map of shard/router.py),*)
(* for every number of shards a configuration may name.                    *)
(***************************************************************************)
EXTENDS RoutingTable

CONSTANT MaxShards   \* bound: shards of a configuration

VARIABLE num   \* num_shards

Init == num = 1

\* The next configuration: one shard more.
Next == num < MaxShards /\ num' = num + 1

Spec == Init /\ [][Next]_num

Byte == 0 .. 254
Owns(i, b) == Covers(DefaultRange(num, i), b)

\* The ranges of num shards give every first byte below 0xff exactly one owner, also
\* where num does not divide the keyspace and where it is larger than it.
EveryByteOneOwner ==
    \A b \in Byte : \E i \in 0 .. num - 1 :
        Owns(i, b) /\ \A j \in 0 .. num - 1 : Owns(j, b) => i = j

\* Every shard has part of the keyspace ("Split the keyspace into equal-width ranges").
EveryShardOwns == \A i \in 0 .. num - 1 : \E b \in Byte : Owns(i, b)
=============================================================================
