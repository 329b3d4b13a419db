---------------------------- MODULE RoutingTable ----------------------------
(***************************************************************************)
(* The routing table and the commands that change it                       *)
(* (MetadataStateMachine of metadata/service.py), and the routing rule     *)
(* over its ranges (shard/router.py).                                      *)
(*                                                                         *)
(* A key is a position in the keyspace.  The callers sort and deduplicate  *)
(* the replica sets they propose, so `nodes` is a set here.                *)
(***************************************************************************)
EXTENDS Integers

CONSTANTS
    Shard,     \* shard ids, of which 0 is one
    Node,      \* nodes of the cluster
    Address,   \* where nodes listen
    Nobody     \* no leader, no address, and the placement of a shard not in the table

\* ShardPlacement
Placement ==
    [start : Nat, end : Nat, nodes : SUBSET Node,
     address : [Node -> Address \cup {Nobody}],
     leader : Node \cup {Nobody}, term : Nat]

ASSUME ShardAssumption ==
    /\ 0 \in Shard
    /\ Nobody \notin Node /\ Nobody \notin Address /\ Nobody \notin Placement

Placed(from, to, nodes, address) ==
    [start |-> from, end |-> to, nodes |-> nodes, address |-> address,
     leader |-> Nobody, term |-> 0]

NoAddresses == [n \in Node |-> Nobody]

\* shard_id in self._shards
Named(t, s) == t.at[s] # Nobody

EmptyTable == [version |-> 0, at |-> [s \in Shard |-> Nobody]]

-----------------------------------------------------------------------------
(* The routing rule *)

Covers(p, k) == p.start <= k /\ k < p.end

\* locate, and route_for: a key outside every range goes to shard 0.
Locate(t, k) ==
    IF \E s \in Shard : Named(t, s) /\ Covers(t.at[s], k)
    THEN CHOOSE s \in Shard : Named(t, s) /\ Covers(t.at[s], k)
    ELSE 0

MutantDefaultRange(num, i) ==   \* the last range is as wide as the others
    LET chunk == 256 \div num
    IN  [start |-> i * chunk, end |-> (i + 1) * chunk]

\* default_range_map of num_shards, in first bytes: shard i as a placement
DefaultRange(num, i) ==
    LET chunk == 256 \div num
    IN  IF num <= 1 THEN [start |-> 0, end |-> 255]
        ELSE [start |-> i * chunk, end |-> IF i < num - 1 THEN (i + 1) * chunk ELSE 255]

-----------------------------------------------------------------------------
(* The commands: the answer's code and the table they leave *)

Accept(t, at) == [code |-> 0, t |-> [version |-> t.version + 1, at |-> at]]
Same(t) == [code |-> 0, t |-> t]
Refuse(t, code) == [code |-> code, t |-> t]

\* _apply_init_routes: `ranges` gives a placement to the shards of the cluster.
InitRoutes(t, ranges) ==
    IF \E s \in Shard : Named(t, s) THEN Refuse(t, 3)
    ELSE Accept(t, [s \in Shard |-> IF s \in DOMAIN ranges
                                    THEN Placed(ranges[s].start, ranges[s].end, {}, NoAddresses)
                                    ELSE Nobody])

\* _apply_set_shard_nodes
SetShardNodes(t, s, nodes, address) ==
    IF ~Named(t, s) THEN Refuse(t, 4)
    ELSE LET p == t.at[s]
             stays == p.leader = Nobody \/ p.leader \in nodes
         IN  Accept(t, [t.at EXCEPT ![s] =
                 [p EXCEPT !.nodes = nodes, !.address = address,
                           !.leader = IF stays THEN p.leader ELSE Nobody,
                           !.term = IF stays THEN p.term ELSE 0]])

MutantReportLeader(t, s, n, term) ==   \* a report of the same term is taken
    IF ~Named(t, s) THEN Refuse(t, 4)
    ELSE IF t.at[s].nodes # {} /\ n \notin t.at[s].nodes THEN Refuse(t, 5)
    ELSE IF t.at[s].leader # Nobody /\ term < t.at[s].term THEN Refuse(t, 6)
    ELSE Accept(t, [t.at EXCEPT ![s] = [@ EXCEPT !.leader = n, !.term = term]])

\* _apply_report_leader
ReportLeader(t, s, n, term) ==
    IF ~Named(t, s) THEN Refuse(t, 4)
    ELSE IF t.at[s].nodes # {} /\ n \notin t.at[s].nodes THEN Refuse(t, 5)
    ELSE IF t.at[s].leader # Nobody /\ term <= t.at[s].term THEN Refuse(t, 6)
    ELSE Accept(t, [t.at EXCEPT ![s] = [@ EXCEPT !.leader = n, !.term = term]])

\* _split_again: is this the split that took the new id?
SplitAgain(t, s, new, at, nodes) ==
    IF Named(t, s) /\ t.at[s].end = at /\ t.at[new].start = at
    THEN IF t.at[new].nodes = nodes THEN Same(t) ELSE Refuse(t, 10)
    ELSE Refuse(t, 9)

Overlap(p, from, to) == p.start < to /\ from < p.end

MutantSplit(t, s, new, at, nodes, address) ==   \* the left half is not cut back
    IF Named(t, new) THEN SplitAgain(t, s, new, at, nodes)
    ELSE IF ~Named(t, s) THEN Refuse(t, 7)
    ELSE IF ~(t.at[s].start < at /\ at < t.at[s].end) THEN Refuse(t, 8)
    ELSE Accept(t, [t.at EXCEPT ![new] = Placed(at, t.at[s].end, nodes, address)])

MutantSplitTaken(t, s, new, at, nodes, address) ==   \* a new id that is taken is no matter
    IF ~Named(t, s) THEN Refuse(t, 7)
    ELSE IF ~(t.at[s].start < at /\ at < t.at[s].end) THEN Refuse(t, 8)
    ELSE Accept(t, [t.at EXCEPT ![s] = [t.at[s] EXCEPT !.end = at],
                                ![new] = Placed(at, t.at[s].end, nodes, address)])

\* _apply_split: the left half keeps the id, the replica set and the leader.
Split(t, s, new, at, nodes, address) ==
    IF Named(t, new) THEN SplitAgain(t, s, new, at, nodes)
    ELSE IF ~Named(t, s) THEN Refuse(t, 7)
    ELSE IF ~(t.at[s].start < at /\ at < t.at[s].end) THEN Refuse(t, 8)
    ELSE IF \E o \in Shard \ {s} :
                /\ Named(t, o)
                /\ Overlap(t.at[o], t.at[s].start, at) \/ Overlap(t.at[o], at, t.at[s].end)
    THEN Refuse(t, 11)
    ELSE Accept(t, [t.at EXCEPT ![s] = [t.at[s] EXCEPT !.end = at],
                                ![new] = Placed(at, t.at[s].end, nodes, address)])

\* _apply_move_shard: the leader goes with the group that leaves.
MoveShard(t, s, from, nodes, address) ==
    IF ~Named(t, s) THEN Refuse(t, 12)
    ELSE IF nodes = {} \/ \E n \in nodes : address[n] = Nobody THEN Refuse(t, 13)
    ELSE IF t.at[s].nodes = nodes
         THEN IF t.at[s].address = address THEN Same(t) ELSE Refuse(t, 16)
    ELSE IF t.at[s].nodes # from THEN Refuse(t, 14)
    ELSE IF nodes \cap from # {} THEN Refuse(t, 15)
    ELSE Accept(t, [t.at EXCEPT ![s] =
             Placed(t.at[s].start, t.at[s].end, nodes, address)])
=============================================================================
