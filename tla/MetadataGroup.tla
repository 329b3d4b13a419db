--------------------------- MODULE MetadataGroup ----------------------------
(***************************************************************************)
(* The group that holds the routing table, and its clients with the copy   *)
(* of the table each of them keeps (metadata/service.py).                  *)
(*                                                                         *)
(* The group's log is taken as RaftNode leaves it, so a command that       *)
(* commits is one step; whether its caller learns of it is another matter. *)
(* A client is used by several threads, unless OneThread says otherwise: a *)
(* refresh then is two steps, the read and the keeping of what was read.   *)
(***************************************************************************)
EXTENDS RoutingTable

CONSTANTS
    Client,      \* clients of the group (MetadataClient)
    Ranges,      \* the ranges the cluster starts with
    Addresses,   \* the addresses a command may carry
    MaxKey,      \* bound: the keyspace is 0 .. MaxKey
    MaxTerm,     \* bound: terms of the shards' groups
    MaxVersion,  \* bound: changes of the table
    OneThread    \* is every client used by one thread?

Table == [version : Nat, at : [Shard -> Placement \cup {Nobody}]]

ASSUME RangesAssumption ==
    /\ MaxKey \in Nat /\ MaxTerm \in Nat /\ MaxVersion \in Nat /\ OneThread \in BOOLEAN
    /\ Ranges \in [DOMAIN Ranges -> [start : Nat, end : Nat]]
    /\ DOMAIN Ranges \subseteq Shard
    /\ Addresses \subseteq [Node -> Address \cup {Nobody}]
    /\ \A s \in DOMAIN Ranges, o \in DOMAIN Ranges :
           s # o => ~Overlap(Ranges[s], Ranges[o].start, Ranges[o].end)
    /\ Nobody \notin Table

VARIABLES
    table,    \* the group's table
    cache,    \* cache[c]: the table client c holds, or Nobody
    read,     \* read[c]: what a refresh of c has read and not kept yet, or Nobody
    wrote     \* wrote[c]: the version c's last successful write left

vars == <<table, cache, read, wrote>>

Key == 0 .. MaxKey

\* Every variable has its shape.
TypeOK ==
    /\ table \in Table
    /\ cache \in [Client -> Table \cup {Nobody}] /\ read \in [Client -> Table \cup {Nobody}]
    /\ wrote \in [Client -> Nat]

Init ==
    /\ table = EmptyTable
    /\ cache = [c \in Client |-> Nobody] /\ read = [c \in Client |-> Nobody]
    /\ wrote = [c \in Client |-> 0]

-----------------------------------------------------------------------------
(* Writes: _propose *)

MutantProposed(c, result) ==   \* a success leaves the copy the client holds
    /\ OneThread => read[c] = Nobody
    /\ result.t.version <= MaxVersion
    /\ table' = result.t
    /\ wrote' = [wrote EXCEPT ![c] = IF result.code = 0 THEN result.t.version ELSE @]
    /\ UNCHANGED <<cache, read>>

\* The command commits.  Its caller learns of a success and drops the copy it holds, or
\* was refused, or heard nothing (a lost leader, a timeout).
Proposed(c, result) ==
    /\ OneThread => read[c] = Nobody
    /\ result.t.version <= MaxVersion
    /\ table' = result.t
    /\ \/ /\ result.code = 0
          /\ cache' = [cache EXCEPT ![c] = Nobody]
          /\ wrote' = [wrote EXCEPT ![c] = result.t.version]
       \/ UNCHANGED <<cache, wrote>>
    /\ UNCHANGED read

ProposeInit(c) == Proposed(c, InitRoutes(table, Ranges))

ProposeNodes(c, s, nodes, address) ==
    Proposed(c, SetShardNodes(table, s, nodes, address))

ProposeLeader(c, s, n, term) == Proposed(c, ReportLeader(table, s, n, term))

ProposeSplit(c, s, new, at, nodes, address) ==
    Proposed(c, Split(table, s, new, at, nodes, address))

ProposeMove(c, s, from, nodes, address) ==
    Proposed(c, MoveShard(table, s, from, nodes, address))

-----------------------------------------------------------------------------
(* Reads *)

\* refresh: the read of the group, which goes through its ReadIndex path ...
Refresh(c) ==
    /\ read[c] = Nobody
    /\ read' = [read EXCEPT ![c] = table]
    /\ UNCHANGED <<table, cache, wrote>>

\* ... and the copy of it that is kept.
Keep(c) ==
    /\ read[c] # Nobody
    /\ cache' = [cache EXCEPT ![c] = read[c]]
    /\ read' = [read EXCEPT ![c] = Nobody]
    /\ UNCHANGED <<table, wrote>>

Next ==
    \/ \E c \in Client : ProposeInit(c) \/ Refresh(c) \/ Keep(c)
    \/ \E c \in Client, s \in Shard, nodes \in SUBSET Node,
          address \in Addresses :
          \/ nodes # {} /\ ProposeNodes(c, s, nodes, address)
          \/ \E new \in Shard, at \in Key : ProposeSplit(c, s, new, at, nodes, address)
          \/ \E from \in SUBSET Node : ProposeMove(c, s, from, nodes, address)
    \/ \E c \in Client, s \in Shard, n \in Node, term \in 1 .. MaxTerm :
          ProposeLeader(c, s, n, term)

Spec == Init /\ [][Next]_vars

-----------------------------------------------------------------------------
(* Properties *)

Owners(t, k) == {s \in Shard : Named(t, s) /\ Covers(t.at[s], k)}

\* Once the table has ranges, a key the cluster started with has exactly one owner and
\* any other key has none, whatever splits, moves and repeats of them have been applied
\* ("a half-applied split would leave a range nobody owns", _apply_split).
OneOwner ==
    (\E s \in Shard : Named(table, s)) =>
        \A k \in Key :
            /\ \A s, o \in Owners(table, k) : s = o
            /\ Owners(table, k) # {} <=> \E s \in DOMAIN Ranges : Covers(Ranges[s], k)

\* A key changes hands only when a shard that was not in the table takes it: no command
\* gives a range to a shard that already answers for another (_apply_split).
HandsOverToNew ==
    [][\A k \in Key : \A s \in Owners(table, k), o \in Owners(table', k) :
            s # o => ~Named(table, o)]_vars

\* The leader the table names is a member of the set it names ("the table would be
\* pointing at a stranger", _apply_set_shard_nodes).
LeaderServes ==
    \A s \in Shard :
        Named(table, s) /\ table.at[s].leader # Nobody /\ table.at[s].nodes # {}
            => table.at[s].leader \in table.at[s].nodes

\* While a shard keeps its replica set, its leader is only replaced by one of a later
\* term ("applying it would move the table backwards", _apply_report_leader).
TermsAdvance ==
    [][\A s \in Shard :
         LET p == table.at[s]
             q == table'.at[s]
         IN  Named(table, s) /\ Named(table', s) /\ p.nodes = q.nodes
             /\ p.leader # Nobody /\ <<p.leader, p.term>> # <<q.leader, q.term>>
               => q.leader # Nobody /\ q.term > p.term]_vars

\* Two tables of one version are one table, so a client tells a refresh from a no-op by
\* the version it carries (MetadataStateMachine.get).
VersionNamesTable ==
    \A c \in Client :
        cache[c] # Nobody /\ cache[c].version = table.version => cache[c] = table

\* A client does not route by a table from before its own last write ("any successful
\* write drops the cache so the next read cannot serve a table from before it",
\* MetadataClient).
CacheCoversWrites ==
    \A c \in Client : cache[c] # Nobody => cache[c].version >= wrote[c]
=============================================================================
