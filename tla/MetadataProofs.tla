--------------------------- MODULE MetadataProofs ---------------------------
(***************************************************************************)
(* What every command does to the routing table, for every cluster,        *)
(* keyspace and sequence of commands, and what follows for the group and   *)
(* the copies its clients keep.                                            *)
(***************************************************************************)
EXTENDS MetadataGroup, TLAPS

\* A leaf that names no prover is tried with these, in this order.
USE SMTT(30), Z3T(30), ZenonT(40)

Started(k) == \E s \in DOMAIN Ranges : Covers(Ranges[s], k)

\* No position has two owners, and the owned ones are those the cluster started with.
Exclusive(t) == \A k \in Nat : \A s, o \in Owners(t, k) : s = o
Whole(t) ==
    (\E s \in Shard : Named(t, s)) => \A k \in Nat : Owners(t, k) # {} <=> Started(k)

\* A placement's leader is one of its replicas.
Headed(p) == p.leader # Nobody /\ p.nodes # {} => p.leader \in p.nodes
Serves(t) == \A s \in Shard : Named(t, s) => Headed(t.at[s])

Good(t) == t \in Table /\ Exclusive(t) /\ Whole(t) /\ Serves(t)

\* p keeps its replica set and its leader changes: to one of a later term.
Later(p, q) ==
    p.nodes = q.nodes /\ p.leader # Nobody /\ <<p.leader, p.term>> # <<q.leader, q.term>> =>
        q.leader # Nobody /\ q.term > p.term

\* What a command may do to the table: nothing, or a change that has a version of its own.
Changes(t, u) ==
    /\ u.version = t.version + 1
    /\ \A k \in Nat : \A s \in Owners(t, k), o \in Owners(u, k) : s # o => ~Named(t, o)
    /\ \A s \in Shard : Named(t, s) /\ Named(u, s) => Later(t.at[s], u.at[s])

Fine(t, u) == Good(u) /\ (u = t \/ Changes(t, u))

-----------------------------------------------------------------------------
\* A table that differs in a placement of one shard, whose range is the same (the commands
\* that leave the ranges alone: _apply_set_shard_nodes, _apply_report_leader,
\* _apply_move_shard).
LEMMA SameRange ==
    ASSUME NEW t, Good(t), NEW s \in Shard, Named(t, s), NEW q \in Placement,
           q.start = t.at[s].start, q.end = t.at[s].end, Headed(q), Later(t.at[s], q)
    PROVE  Fine(t, Accept(t, [t.at EXCEPT ![s] = q]).t)
<1>1. PICK u : u = [version |-> t.version + 1, at |-> [t.at EXCEPT ![s] = q]]
  BY Zenon
<1>2. t \in Table
  BY DEF Good
<1>3. u.version = t.version + 1 /\ u.at = [t.at EXCEPT ![s] = q] /\ u \in Table
  BY <1>1, <1>2 DEF Table
<1>4. u.at[s] = q /\ \A o \in Shard : o # s => u.at[o] = t.at[o]
  BY <1>2, <1>3 DEF Table
<1>5. q # Nobody
  BY ShardAssumption
<1>6. \A o \in Shard : Named(u, o) <=> Named(t, o)
  BY <1>4, <1>5, Zenon DEF Named
<1>7. \A k \in Nat : Owners(u, k) = Owners(t, k)
  BY <1>4, <1>6 DEF Owners, Covers
<1>8. Good(u)
  BY <1>3, <1>4, <1>6, <1>7 DEF Good, Exclusive, Whole, Serves
<1>9. Changes(t, u)
  <2>1. \A o \in Shard : Named(t, o) => Later(t.at[o], u.at[o])
    BY <1>4 DEF Later
  <2>2. \A k \in Nat : \A a \in Owners(t, k), b \in Owners(u, k) : a = b
    BY <1>7 DEF Good, Exclusive
  <2> QED
    BY <1>3, <2>1, <2>2 DEF Changes
<1> QED
  BY <1>1, <1>8, <1>9 DEF Fine, Accept

\* A command that answers without a change.
LEMMA Unchanged == ASSUME NEW t, Good(t), NEW code PROVE Fine(t, Same(t).t) /\ Fine(t, Refuse(t, code).t)
BY DEF Fine, Same, Refuse

\* The replica set (_apply_set_shard_nodes): the leader stays if it is in the new set.
LEMMA SetShardNodesFine ==
    ASSUME NEW t, Good(t), NEW s \in Shard, NEW nodes \in SUBSET Node, nodes # {},
           NEW address \in [Node -> Address \cup {Nobody}]
    PROVE  Fine(t, SetShardNodes(t, s, nodes, address).t)
<1>1. CASE ~Named(t, s)
  BY <1>1, Unchanged DEF SetShardNodes
<1>2. CASE Named(t, s)
  <2> DEFINE p == t.at[s]
             stays == p.leader = Nobody \/ p.leader \in nodes
             q == [p EXCEPT !.nodes = nodes, !.address = address,
                            !.leader = IF stays THEN p.leader ELSE Nobody,
                            !.term = IF stays THEN p.term ELSE 0]
  <2>1. p \in Placement
    BY <1>2 DEF Good, Table, Named
  <2>2. q \in Placement /\ q.start = p.start /\ q.end = p.end /\ q.nodes = nodes
    BY <2>1, Zenon DEF Placement
  <2>3. stays => q.leader = p.leader /\ q.term = p.term
    BY <2>1 DEF Placement
  <2>4. ~stays => q.leader = Nobody
    BY <2>1 DEF Placement
  <2>5. Headed(p)
    BY <1>2 DEF Good, Serves
  <2>6. SetShardNodes(t, s, nodes, address) = Accept(t, [t.at EXCEPT ![s] = q])
    BY <1>2 DEF SetShardNodes
  <2> HIDE DEF q
  <2>7. Headed(q) /\ Later(p, q)
    BY <2>2, <2>3, <2>4, <2>5 DEF Headed, Later
  <2> QED
    BY <1>2, <2>2, <2>6, <2>7, SameRange
<1> QED
  BY <1>1, <1>2

\* A leader's report (_apply_report_leader).
LEMMA ReportLeaderFine ==
    ASSUME NEW t, Good(t), NEW s \in Shard, NEW n \in Node, NEW term \in Nat
    PROVE  Fine(t, ReportLeader(t, s, n, term).t)
<1> DEFINE p == t.at[s]
           q == [p EXCEPT !.leader = n, !.term = term]
           taken == /\ Named(t, s) /\ ~(p.nodes # {} /\ n \notin p.nodes)
                    /\ ~(p.leader # Nobody /\ term <= p.term)
<1>1. CASE ~taken
  BY <1>1, Unchanged DEF ReportLeader
<1>2. CASE taken
  <2>1. p \in Placement
    BY <1>2 DEF Good, Table, Named
  <2>2. q \in Placement /\ q.start = p.start /\ q.end = p.end /\ q.nodes = p.nodes
        /\ q.leader = n /\ q.term = term
    BY <2>1, Zenon DEF Placement
  <2>3. ReportLeader(t, s, n, term) = Accept(t, [t.at EXCEPT ![s] = q])
    BY <1>2 DEF ReportLeader
  <2>4. n # Nobody /\ p.term \in Nat
    BY <2>1, ShardAssumption DEF Placement
  <2> HIDE DEF q
  <2>5. Headed(q) /\ Later(p, q)
    BY <1>2, <2>2, <2>4 DEF Headed, Later
  <2> QED
    BY <1>2, <2>2, <2>3, <2>5, SameRange
<1> QED
  BY <1>1, <1>2

\* A move (_apply_move_shard): another replica set, and no leader yet.
LEMMA MoveShardFine ==
    ASSUME NEW t, Good(t), NEW s \in Shard, NEW from, NEW nodes \in SUBSET Node,
           NEW address \in [Node -> Address \cup {Nobody}]
    PROVE  Fine(t, MoveShard(t, s, from, nodes, address).t)
<1> DEFINE p == t.at[s]
           q == Placed(p.start, p.end, nodes, address)
           taken == /\ Named(t, s) /\ ~(nodes = {} \/ \E n \in nodes : address[n] = Nobody)
                    /\ p.nodes # nodes /\ p.nodes = from /\ nodes \cap from = {}
<1>1. CASE ~taken
  BY <1>1, Unchanged DEF MoveShard
<1>2. CASE taken
  <2>1. p \in Placement
    BY <1>2 DEF Good, Table, Named
  <2>2. q \in Placement /\ q.start = p.start /\ q.end = p.end /\ q.nodes = nodes
        /\ q.leader = Nobody
    BY <2>1 DEF Placement, Placed
  <2>3. MoveShard(t, s, from, nodes, address) = Accept(t, [t.at EXCEPT ![s] = q])
    BY <1>2 DEF MoveShard
  <2> HIDE DEF q
  <2>4. Headed(q) /\ Later(p, q)
    BY <1>2, <2>2 DEF Headed, Later
  <2> QED
    BY <1>2, <2>2, <2>3, <2>4, SameRange
<1> QED
  BY <1>1, <1>2

\* A split (_apply_split): the left half is cut back to where the new shard starts.
LEMMA SplitFine ==
    ASSUME NEW t, Good(t), NEW s \in Shard, NEW new \in Shard, NEW at \in Nat,
           NEW nodes \in SUBSET Node, NEW address \in [Node -> Address \cup {Nobody}]
    PROVE  Fine(t, Split(t, s, new, at, nodes, address).t)
<1> DEFINE p == t.at[s]
           left == [p EXCEPT !.end = at]
           right == Placed(at, p.end, nodes, address)
           clash == \E o \in Shard \ {s} :
                        Named(t, o) /\ (Overlap(t.at[o], p.start, at) \/ Overlap(t.at[o], at, p.end))
           taken == ~Named(t, new) /\ Named(t, s) /\ p.start < at /\ at < p.end /\ ~clash
<1>1. CASE Named(t, new)
  BY <1>1, Unchanged DEF Split, SplitAgain
<1>2. CASE ~Named(t, new) /\ ~taken
  BY <1>2, Unchanged DEF Split
<1>3. CASE taken
  <2>1. p \in Placement /\ t \in Table /\ s # new
    BY <1>3 DEF Good, Table, Named
  <2>2. /\ left \in Placement /\ left.start = p.start /\ left.end = at
        /\ left.nodes = p.nodes /\ left.leader = p.leader /\ left.term = p.term
    BY <2>1 DEF Placement
  <2>3. /\ right \in Placement /\ right.start = at /\ right.end = p.end
        /\ right.leader = Nobody
    BY <2>1 DEF Placement, Placed
  <2>4. Split(t, s, new, at, nodes, address) =
            Accept(t, [t.at EXCEPT ![s] = left, ![new] = right])
    BY <1>3 DEF Split
  <2>5. p.start \in Nat /\ p.end \in Nat
    BY <2>1 DEF Placement
  <2> HIDE DEF left, right
  <2>6. PICK u : u = [version |-> t.version + 1, at |-> [t.at EXCEPT ![s] = left, ![new] = right]]
    BY Zenon
  <2>7. /\ u.version = t.version + 1 /\ u \in Table
        /\ u.at = [t.at EXCEPT ![s] = left, ![new] = right]
    BY <2>1, <2>2, <2>3, <2>6 DEF Table
  <2>8. /\ u.at[s] = left /\ u.at[new] = right
        /\ \A o \in Shard : o # s /\ o # new => u.at[o] = t.at[o]
    BY <2>1, <2>7 DEF Table
  <2>9. left # Nobody /\ right # Nobody
    BY <2>2, <2>3, ShardAssumption
  <2>10. \A o \in Shard : Named(u, o) <=> Named(t, o) \/ o = new
    BY <1>3, <2>8, <2>9, Zenon DEF Named
  <2>11. ASSUME NEW k \in Nat, NEW o \in Shard
         PROVE  o \in Owners(u, k) <=>
                  \/ o # s /\ o # new /\ o \in Owners(t, k)
                  \/ o = s /\ s \in Owners(t, k) /\ k < at
                  \/ o = new /\ s \in Owners(t, k) /\ at <= k
    <3>1. CASE o # s /\ o # new
      BY <3>1, <2>8, <2>10 DEF Owners
    <3>2. CASE o = s
      <4>1. Named(u, s) /\ Named(t, s)
        BY <1>3, <2>10
      <4> QED
        BY <3>2, <4>1, <1>3, <2>1, <2>2, <2>5, <2>8 DEF Owners, Covers
    <3>3. CASE o = new
      <4>1. Named(u, new) /\ Named(t, s)
        BY <1>3, <2>10
      <4> QED
        BY <3>3, <4>1, <1>3, <2>1, <2>3, <2>5, <2>8 DEF Owners, Covers
    <3> QED
      BY <3>1, <3>2, <3>3
  <2>12. \A k \in Nat : \A a, b \in Owners(t, k) : a = b
    BY DEF Good, Exclusive
  <2>13. \A k \in Nat : \A o : o \in Owners(u, k) \/ o \in Owners(t, k) => o \in Shard
    BY DEF Owners
  <2>14. \A k \in Nat : \A o \in Shard : o = new => o \notin Owners(t, k)
    BY <1>3 DEF Owners
  <2>15. Exclusive(u)
    BY <2>1, <2>11, <2>12, <2>13 DEF Exclusive
  <2>16. \A k \in Nat : Owners(u, k) # {} <=> Owners(t, k) # {}
    <3> SUFFICES ASSUME NEW k \in Nat PROVE Owners(u, k) # {} <=> Owners(t, k) # {}
      OBVIOUS
    <3>1. ASSUME NEW o \in Owners(u, k) PROVE Owners(t, k) # {}
      BY <3>1, <2>11, <2>13
    <3>2. ASSUME NEW o \in Owners(t, k) PROVE Owners(u, k) # {}
      BY <3>2, <2>11, <2>13, <2>14
    <3> QED
      BY <3>1, <3>2
  <2>17. Whole(u)
    BY <1>3, <2>16 DEF Good, Whole
  <2>18. Serves(u)
    <3> SUFFICES ASSUME NEW o \in Shard, Named(u, o) PROVE Headed(u.at[o])
      BY DEF Serves
    <3>1. Headed(left)
      BY <1>3, <2>2 DEF Good, Serves, Headed
    <3>2. Headed(right)
      BY <2>3 DEF Headed
    <3> QED
      BY <3>1, <3>2, <2>8, <2>10 DEF Good, Serves
  <2>19. Changes(t, u)
    <3>1. \A o \in Shard : Named(t, o) => Later(t.at[o], u.at[o])
      BY <1>3, <2>2, <2>8 DEF Later
    <3>2. \A k \in Nat : \A a \in Owners(t, k), b \in Owners(u, k) : a # b => ~Named(t, b)
      BY <1>3, <2>11, <2>12, <2>13
    <3> QED
      BY <2>7, <3>1, <3>2 DEF Changes
  <2> QED
    BY <2>4, <2>6, <2>7, <2>15, <2>17, <2>18, <2>19 DEF Fine, Good, Accept
<1> QED
  BY <1>1, <1>2, <1>3

\* The cluster's ranges (_apply_init_routes).
LEMMA InitRoutesFine == ASSUME NEW t, Good(t) PROVE Fine(t, InitRoutes(t, Ranges).t)
<1>1. CASE \E s \in Shard : Named(t, s)
  BY <1>1, Unchanged DEF InitRoutes
<1>2. CASE ~ \E s \in Shard : Named(t, s)
  <2> DEFINE at(s) == IF s \in DOMAIN Ranges
                      THEN Placed(Ranges[s].start, Ranges[s].end, {}, NoAddresses) ELSE Nobody
  <2>1. \A s \in DOMAIN Ranges :
            /\ at(s) \in Placement /\ at(s).start = Ranges[s].start /\ at(s).end = Ranges[s].end
            /\ at(s).leader = Nobody
    BY RangesAssumption DEF Placed, Placement, NoAddresses
  <2>2. \A s \in Shard : s \notin DOMAIN Ranges => at(s) = Nobody
    OBVIOUS
  <2>3. InitRoutes(t, Ranges) = Accept(t, [s \in Shard |-> at(s)])
    BY <1>2 DEF InitRoutes
  <2> HIDE DEF at
  <2>4. PICK u : u = [version |-> t.version + 1, at |-> [s \in Shard |-> at(s)]]
    BY Zenon
  <2>5. u.version = t.version + 1 /\ u \in Table /\ \A s \in Shard : u.at[s] = at(s)
    BY <2>1, <2>2, <2>4 DEF Good, Table
  <2>6. \A s \in Shard : Named(u, s) <=> s \in DOMAIN Ranges
    BY <2>1, <2>2, <2>5, ShardAssumption, Zenon DEF Named
  <2>7. \A k \in Nat : \A s : s \in Owners(u, k) <=> s \in DOMAIN Ranges /\ Covers(Ranges[s], k)
    BY <2>1, <2>5, <2>6, RangesAssumption, Zenon DEF Owners, Covers
  <2>8. Exclusive(u)
    <3> SUFFICES ASSUME NEW k \in Nat, NEW s \in DOMAIN Ranges, NEW o \in DOMAIN Ranges,
                        Covers(Ranges[s], k), Covers(Ranges[o], k), s # o
                 PROVE  FALSE
      BY <2>7 DEF Exclusive
    <3>1. /\ Ranges[s].start \in Nat /\ Ranges[s].end \in Nat
          /\ Ranges[o].start \in Nat /\ Ranges[o].end \in Nat
      BY RangesAssumption
    <3>2. Overlap(Ranges[s], Ranges[o].start, Ranges[o].end)
      BY <3>1 DEF Covers, Overlap
    <3> QED
      BY <3>2, RangesAssumption
  <2>9. Whole(u)
    BY <2>7 DEF Whole, Started
  <2>10. Serves(u)
    BY <2>1, <2>5, <2>6 DEF Serves, Headed
  <2>11. Changes(t, u)
    BY <1>2, <2>5 DEF Changes, Owners
  <2> QED
    BY <2>3, <2>4, <2>5, <2>8, <2>9, <2>10, <2>11 DEF Fine, Good, Accept
<1> QED
  BY <1>1, <1>2

-----------------------------------------------------------------------------
\* x, a copy of the table, is no later than the table, and is the table if as late.
Copy(x) == x # Nobody => x.version <= table.version /\ (x.version = table.version => x = table)

\* x is no earlier than the last write of c.
Covering(c, x) == OneThread /\ x # Nobody => wrote[c] <= x.version

IInv ==
    /\ TypeOK /\ Good(table)
    /\ \A c \in Client :
          /\ Copy(cache[c]) /\ Copy(read[c]) /\ wrote[c] <= table.version
          /\ Covering(c, cache[c]) /\ Covering(c, read[c])

\* The group starts with an empty table (MetadataStateMachine.__init__).
LEMMA InitInv == Init => IInv
<1> SUFFICES ASSUME Init PROVE IInv
  OBVIOUS
<1>1. EmptyTable \in Table /\ \A s \in Shard : ~Named(EmptyTable, s)
  BY DEF EmptyTable, Table, Named
<1>2. Good(EmptyTable)
  BY <1>1 DEF Good, Exclusive, Whole, Serves, Owners
<1>3. TypeOK
  BY <1>1 DEF Init, TypeOK
<1>4. table.version = 0
  BY DEF Init, EmptyTable
<1> QED
  BY <1>2, <1>3, <1>4 DEF Init, IInv, Copy, Covering

\* A command that commits (_propose): the table goes on, the copies fall behind it.
LEMMA ProposedInv ==
    ASSUME IInv, NEW c \in Client, NEW result, Fine(table, result.t), Proposed(c, result)
    PROVE  IInv' /\ Fine(table, table')
<1>1. /\ Fine(table, table') /\ read' = read /\ (OneThread => read[c] = Nobody)
      /\ \/ /\ cache' = [cache EXCEPT ![c] = Nobody]
            /\ wrote' = [wrote EXCEPT ![c] = table'.version]
         \/ UNCHANGED <<cache, wrote>>
  BY DEF Proposed
<1>2. table' \in Table /\ table \in Table /\ Good(table')
  BY <1>1 DEF Fine, Good, IInv
<1>3. table'.version \in Nat /\ table.version \in Nat
  BY <1>2 DEF Table
<1>4. TypeOK'
  BY <1>1, <1>2, <1>3 DEF IInv, TypeOK
<1>5. table' = table \/ table'.version = table.version + 1
  BY <1>1 DEF Fine, Changes
<1>6. ASSUME NEW x \in Table \cup {Nobody}, Copy(x) PROVE Copy(x)'
  <2>1. CASE table' = table
    BY <1>6, <2>1 DEF Copy
  <2>2. CASE table'.version = table.version + 1 /\ x # Nobody
    <3>1. x.version \in Nat /\ x.version <= table.version
      BY <1>6, <2>2 DEF Copy, Table
    <3> QED
      BY <1>3, <2>2, <3>1 DEF Copy
  <2> QED
    BY <1>5, <2>1, <2>2 DEF Copy
<1>7. ASSUME NEW d \in Client
      PROVE  /\ Copy(cache[d])' /\ Copy(read[d])' /\ wrote'[d] <= table'.version
             /\ Covering(d, cache[d])' /\ Covering(d, read[d])'
  <2>1. /\ cache[d] \in Table \cup {Nobody} /\ read[d] \in Table \cup {Nobody}
        /\ wrote[d] \in Nat
    BY DEF IInv, TypeOK
  <2>2. /\ Copy(cache[d]) /\ Copy(read[d]) /\ wrote[d] <= table.version
        /\ Covering(d, cache[d]) /\ Covering(d, read[d])
    BY DEF IInv
  <2>3. read'[d] = read[d] /\ Copy(read[d])'
    <3>1. read'[d] = read[d]
      BY <1>1
    <3>2. PICK x \in Table \cup {Nobody} : x = read[d]
      BY <2>1
    <3>3. Copy(x)'
      BY <1>6, <2>2, <3>2
    <3> QED
      BY <3>1, <3>2, <3>3 DEF Copy
  <2>4. CASE cache'[d] = cache[d] /\ wrote'[d] = wrote[d]
    <3>1. PICK x \in Table \cup {Nobody} : x = cache[d]
      BY <2>1
    <3>2. Copy(x)'
      BY <1>6, <2>2, <3>1
    <3>3. Copy(cache[d])'
      BY <2>4, <3>1, <3>2 DEF Copy
    <3>4. wrote[d] <= table'.version
      BY <1>3, <1>5, <2>1, <2>2
    <3> QED
      BY <2>2, <2>3, <2>4, <3>3, <3>4 DEF Covering
  <2>5. CASE cache'[d] = Nobody /\ wrote'[d] = table'.version /\ d = c
    <3>1. OneThread => read'[d] = Nobody
      BY <1>1, <2>5
    <3> QED
      BY <1>3, <2>3, <2>5, <3>1 DEF Copy, Covering
  <2> QED
    BY <1>1, <2>4, <2>5 DEF IInv, TypeOK
<1> QED
  BY <1>1, <1>2, <1>4, <1>7 DEF IInv

\* Every step of the group and its clients keeps the invariant, and changes the table, if
\* at all, as a command does.
LEMMA StepInv == ASSUME IInv, [Next]_vars PROVE IInv' /\ Fine(table, table')
<1> USE DEF Key
<1>0. Good(table) /\ MaxKey \in Nat /\ Addresses \subseteq [Node -> Address \cup {Nobody}]
  BY RangesAssumption DEF IInv
<1>1. ASSUME NEW c \in Client, ProposeInit(c) PROVE IInv' /\ Fine(table, table')
  BY <1>0, <1>1, InitRoutesFine, ProposedInv DEF ProposeInit
<1>2. ASSUME NEW c \in Client, NEW s \in Shard, NEW nodes \in SUBSET Node,
             NEW address \in Addresses, nodes # {}, ProposeNodes(c, s, nodes, address)
      PROVE  IInv' /\ Fine(table, table')
  <2>1. address \in [Node -> Address \cup {Nobody}]
    BY <1>0
  <2>2. Fine(table, SetShardNodes(table, s, nodes, address).t)
    BY <1>0, <1>2, <2>1, SetShardNodesFine
  <2> QED
    BY <1>2, <2>2, ProposedInv DEF ProposeNodes
<1>3. ASSUME NEW c \in Client, NEW s \in Shard, NEW nodes \in SUBSET Node,
             NEW address \in Addresses, NEW new \in Shard, NEW at \in Key,
             ProposeSplit(c, s, new, at, nodes, address)
      PROVE  IInv' /\ Fine(table, table')
  <2>1. at \in Nat /\ address \in [Node -> Address \cup {Nobody}]
    BY <1>0
  <2> QED
    BY <1>0, <1>3, <2>1, SplitFine, ProposedInv DEF ProposeSplit
<1>4. ASSUME NEW c \in Client, NEW s \in Shard, NEW nodes \in SUBSET Node,
             NEW address \in Addresses, NEW from \in SUBSET Node,
             ProposeMove(c, s, from, nodes, address)
      PROVE  IInv' /\ Fine(table, table')
  <2>1. address \in [Node -> Address \cup {Nobody}]
    BY <1>0
  <2>2. Fine(table, MoveShard(table, s, from, nodes, address).t)
    BY <1>0, <2>1, MoveShardFine
  <2> QED
    BY <1>4, <2>2, ProposedInv DEF ProposeMove
<1>5. ASSUME NEW c \in Client, NEW s \in Shard, NEW n \in Node, NEW term \in 1 .. MaxTerm,
             ProposeLeader(c, s, n, term)
      PROVE  IInv' /\ Fine(table, table')
  <2>1. term \in Nat
    BY RangesAssumption
  <2> QED
    BY <1>0, <1>5, <2>1, ReportLeaderFine, ProposedInv DEF ProposeLeader
<1>6. table' = table => Fine(table, table')
  BY <1>0 DEF Fine
<1>7. ASSUME NEW c \in Client, Refresh(c) PROVE IInv'
  <2>1. /\ table' = table /\ cache' = cache /\ wrote' = wrote
        /\ read' = [read EXCEPT ![c] = table]
    BY <1>7 DEF Refresh
  <2>2. TypeOK'
    BY <2>1 DEF IInv, TypeOK
  <2>3. table.version \in Nat /\ \A d \in Client : wrote[d] \in Nat
    BY DEF IInv, TypeOK, Table
  <2>4. read'[c] = table /\ \A d \in Client : d # c => read'[d] = read[d]
    BY <2>1 DEF IInv, TypeOK
  <2> QED
    BY <2>1, <2>2, <2>3, <2>4 DEF IInv, Copy, Covering
<1>8. ASSUME NEW c \in Client, Keep(c) PROVE IInv'
  <2>1. /\ table' = table /\ wrote' = wrote
        /\ cache' = [cache EXCEPT ![c] = read[c]] /\ read' = [read EXCEPT ![c] = Nobody]
    BY <1>8 DEF Keep
  <2>2. TypeOK'
    BY <2>1 DEF IInv, TypeOK
  <2>3. /\ cache'[c] = read[c] /\ read'[c] = Nobody
        /\ \A d \in Client : d # c => read'[d] = read[d] /\ cache'[d] = cache[d]
    BY <2>1 DEF IInv, TypeOK
  <2> QED
    BY <2>1, <2>2, <2>3 DEF IInv, Copy, Covering
<1>9. CASE UNCHANGED vars
  BY <1>6, <1>9 DEF vars, IInv, TypeOK, Copy, Covering
<1>10. \A c \in Client : Refresh(c) \/ Keep(c) => table' = table
  BY DEF Refresh, Keep
<1> QED
  BY <1>1, <1>2, <1>3, <1>4, <1>5, <1>6, <1>7, <1>8, <1>9, <1>10 DEF Next, vars

\* The invariant of the group and its clients' copies.
LEMMA Invariance == Spec => []IInv
<1>1. IInv /\ [Next]_vars => IInv'
  BY StepInv
<1> QED
  BY InitInv, <1>1, PTL DEF Spec

\* Every key the cluster started with has one owner and no other key has any, whatever
\* commands the group applies (_apply_split, _apply_move_shard and the others).
THEOREM TableHasOneOwner == Spec => []OneOwner
<1>1. IInv => OneOwner
  <2>1. Key \subseteq Nat
    BY RangesAssumption DEF Key
  <2> QED
    BY <2>1, Zenon DEF IInv, Good, Exclusive, Whole, Started, OneOwner
<1> QED
  BY Invariance, <1>1, PTL

\* The leader the table names is one of the shard's replicas (_apply_set_shard_nodes).
THEOREM TableLeaderServes == Spec => []LeaderServes
<1>1. IInv => LeaderServes
  BY DEF IInv, Good, Serves, Headed, LeaderServes
<1> QED
  BY Invariance, <1>1, PTL

\* A key changes hands only to a shard that was not in the table (_apply_split).
THEOREM TableHandsOverToNew == Spec => HandsOverToNew
<1> DEFINE New == \A k \in Key : \A s \in Owners(table, k), o \in Owners(table', k) :
                      s # o => ~Named(table, o)
<1>1. IInv /\ [Next]_vars => [New]_vars
  <2> SUFFICES ASSUME IInv, [Next]_vars PROVE New
    OBVIOUS
  <2>1. Key \subseteq Nat
    BY RangesAssumption DEF Key
  <2>2. \A k \in Nat : \A s, o \in Owners(table, k) : s = o
    BY DEF IInv, Good, Exclusive
  <2>3. Fine(table, table')
    BY StepInv
  <2> QED
    BY <2>1, <2>2, <2>3 DEF Fine, Changes
<1> QED
  BY Invariance, <1>1, PTL DEF Spec, HandsOverToNew

\* While a shard keeps its replica set its leader gives way only to one of a later term
\* (_apply_report_leader).
THEOREM TableTermsAdvance == Spec => TermsAdvance
<1> DEFINE Up == \A s \in Shard :
                     LET p == table.at[s]
                         q == table'.at[s]
                     IN  Named(table, s) /\ Named(table', s) /\ p.nodes = q.nodes
                         /\ p.leader # Nobody /\ <<p.leader, p.term>> # <<q.leader, q.term>>
                           => q.leader # Nobody /\ q.term > p.term
<1>1. IInv /\ [Next]_vars => [Up]_vars
  <2> SUFFICES ASSUME IInv, [Next]_vars PROVE Up
    OBVIOUS
  <2>1. Fine(table, table')
    BY StepInv
  <2> QED
    BY <2>1 DEF Fine, Changes, Later
<1> QED
  BY Invariance, <1>1, PTL DEF Spec, TermsAdvance

\* A version names one table (MetadataStateMachine's version counter).
THEOREM TableVersionNamesTable == Spec => []VersionNamesTable
<1>1. IInv => VersionNamesTable
  BY DEF IInv, Copy, VersionNamesTable
<1> QED
  BY Invariance, <1>1, PTL

\* A client one thread uses never routes by a table from before its last write
\* (MetadataClient._propose).
THEOREM CacheIsNotBehind == ASSUME OneThread PROVE Spec => []CacheCoversWrites
<1>1. IInv => CacheCoversWrites
  <2> SUFFICES ASSUME IInv, NEW c \in Client, cache[c] # Nobody
               PROVE  cache[c].version >= wrote[c]
    BY DEF CacheCoversWrites
  <2>1. wrote[c] <= cache[c].version /\ cache[c].version \in Nat /\ wrote[c] \in Nat
    BY DEF IInv, Covering, TypeOK, Table
  <2> QED
    BY <2>1
<1> QED
  BY Invariance, <1>1, PTL
=============================================================================
