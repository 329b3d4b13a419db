-------------------------- MODULE MCMetadataGroup ---------------------------
(* The routing table for TLC: the commands and the clients' copies of         *)
(* MetadataGroup, and, as the scenario "ranges", the ranges of DefaultRanges  *)
(* for every number of shards up to 260.                                      *)
EXTENDS MetadataGroup, TLC

CONSTANT Scenarios

VARIABLES
    scenario,
    num   \* of DefaultRanges; 0 in the scenario "table"

OneRange == (0 :> [start |-> 0, end |-> 3])
AllOrNone == {[n \in Node |-> a] : a \in Address \cup {Nobody}}

Configured == INSTANCE DefaultRanges WITH MaxShards <- 260

ScenarioInit ==
    /\ Init
    /\ \/ scenario \in Scenarios \cap {"table"} /\ num = 0
       \/ scenario \in Scenarios \cap {"ranges"} /\ Configured!Init

GroupStep == scenario = "table" /\ Next /\ UNCHANGED <<scenario, num>>
RangesStep == scenario = "ranges" /\ Configured!Next /\ UNCHANGED <<scenario, vars>>

ScenarioNext == GroupStep \/ RangesStep

ScenarioSpec == ScenarioInit /\ [][ScenarioNext]_<<scenario, vars, num>>

\* DefaultRanges!EveryByteOneOwner: every first byte below 0xff has exactly one owner
\* (default_range_map).
EveryByteOneOwner == scenario = "ranges" => Configured!EveryByteOneOwner

\* DefaultRanges!EveryShardOwns: every shard has part of the keyspace (default_range_map).
EveryShardOwns == scenario = "ranges" => Configured!EveryShardOwns

NodeSymmetry == Permutations(Node)
=============================================================================
