-------------------------- MODULE RaftNodeElection --------------------------
(* Election safety of RaftNode: no two nodes lead in the same term when no *)
(* vote reply outlives its caller's term.  Then log matching, from it and  *)
(* from what the calls do to logs, for groups that take no snapshots.      *)
EXTENDS RaftNodeVotes, FiniteSetTheorems

\* A leaf that names no prover is tried with these, in this order.
USE SMTT(30), Z3T(30), ZenonT(40)

-----------------------------------------------------------------------------
(* Who has been elected.                                                   *)

\* A majority is at least one node.
LEMMA MajorityType == Majority \in Nat \ {0}
  <1>1. Cardinality(Node) \in Nat
    BY NodeAssumption, FS_CardinalityType
  <1> QED
    BY <1>1 DEF Majority

\* Two majorities share a node.
LEMMA QuorumsMeet ==
    ASSUME NEW P \in Quorum, NEW Q \in Quorum
    PROVE  P \cap Q # {}
  <1>1. IsFiniteSet(Node) /\ Cardinality(Node) \in Nat
    BY NodeAssumption, FS_CardinalityType
  <1>2. P \subseteq Node /\ Q \subseteq Node
        /\ Cardinality(P) >= Majority /\ Cardinality(Q) >= Majority
    BY DEF Quorum
  <1>3. Cardinality(P) \in Nat /\ Cardinality(Q) \in Nat
    BY <1>1, <1>2, FS_Subset, FS_CardinalityType
  <1>4. \A c \in Nat : 2 * (c \div 2 + 1) > c
    OBVIOUS
  <1>5. 2 * Majority > Cardinality(Node)
    BY <1>1, <1>4 DEF Majority
  <1>6. Cardinality(P) + Cardinality(Q) > Cardinality(Node)
    BY <1>1, <1>2, <1>3, <1>5, MajorityType
  <1> QED
    BY <1>1, <1>2, <1>6, FS_MajoritiesIntersect

\* A trace of a leader names a node and a term.
LEMMA LedType ==
    ASSUME TypeOK
    PROVE  \A a \in Led : a.term \in Nat /\ a.node \in Node
  <1>1. \A m \in LeaderCalls : m.from \in Node /\ m.term \in Nat
    <2>1. \A m \in rpcs : m.from \in Node /\ m.term \in Nat
      BY RpcKinds DEF TypeOK
    <2>2. \A m \in read.todo : m.from \in Node /\ m.term \in Nat
      BY Zenon DEF TypeOK, Read, AppendRequest, SnapshotRequest
    <2> QED
      BY <2>1, <2>2 DEF LeaderCalls
  <1>2. \A n \in Node : term[n] \in Nat /\ leader[n] \in Node \cup {None}
    BY DEF TypeOK
  <1> QED
    BY <1>1, <1>2 DEF Led

\* A node that leads after the step led before it, in the same term.
StillLeads(n) == role'[n] = "leader" => role[n] = "leader" /\ term'[n] = term[n]

\* A step leaves no trace of a leader that was not there, or one of a node that is elected in
\* a term in which nobody was.
OneNewLeader ==
    \/ Led' \subseteq Led /\ \A k \in Node : StillLeads(k)
    \/ \E t \in Nat, n \in Node :
          /\ Led' \subseteq Led \cup {[term |-> t, node |-> n]}
          /\ term'[n] = t /\ Elected(t, n)'
          /\ \A l \in Node : ~Elected(t, l)
          /\ \A k \in Node : k # n => StillLeads(k)

\* What a node says of leaders was so before the step.
Echoes(n) ==
    /\ StillLeads(n)
    /\ leader'[n] # None => [term |-> term'[n], node |-> leader'[n]] \in Led

\* A node whose term, role and leader stay, or that has no leader any more, says nothing new.
LEMMA EchoesOld ==
    ASSUME NEW n \in Node,
           \/ term'[n] = term[n] /\ role'[n] = role[n] /\ leader'[n] = leader[n]
           \/ role'[n] # "leader" /\ leader'[n] = None
    PROVE  Echoes(n)
  BY Zenon DEF Echoes, StillLeads, Led

\* The calls of leaders leave no trace of a leader that was not there.
LEMMA CallsEcho ==
    ASSUME NEW m, Made(m)
    PROVE  [term |-> m.term, node |-> m.from] \in Led
  <1>1. CASE \E r \in LeaderCalls : SameCall(m, r)
    BY <1>1 DEF SameCall, Led
  <1>2. CASE \E n, p \in Node, b \in BOOLEAN :
                 role[n] = "leader" /\ SameCall(m, ReplicateRequest(n, p, b))
    <2>1. PICK n \in Node : role[n] = "leader" /\ m.from = n /\ m.term = term[n]
      BY <1>2, RequestFrom DEF SameCall
    <2> QED
      BY <2>1 DEF Led
  <1> QED
    BY <1>1, <1>2 DEF Made

\* If every node but n echoes, the leaders there is a trace of are those there were and n.
LEMMA LedAfter ==
    ASSUME TypeOK, [Next]_vars, NEW S,
           \A k \in Node : Echoes(k) \/ (leader'[k] = k /\ [term |-> term'[k], node |-> k] \in S)
    PROVE  Led' \subseteq Led \cup S
  <1> SUFFICES ASSUME NEW a \in Led'
               PROVE  a \in Led \cup S
    OBVIOUS
  <1>1. CASE \E n \in Node : role'[n] = "leader" /\ a = [term |-> term'[n], node |-> n]
    BY <1>1, ZenonT(40) DEF Echoes, StillLeads, Led
  <1>2. CASE \E n \in Node : leader'[n] # None /\ a = [term |-> term'[n], node |-> leader'[n]]
    BY <1>2, Zenon DEF Echoes
  <1>3. CASE \E m \in LeaderCalls' : a = [term |-> m.term, node |-> m.from]
    BY <1>3, CallsStep, CallsEcho
  <1> QED
    BY <1>1, <1>2, <1>3, ZenonT(40) DEF Led

\* Nobody is elected.
LEMMA NobodyElected ==
    ASSUME TypeOK, [Next]_vars, \A k \in Node : Echoes(k)
    PROVE  OneNewLeader
  <1>1. Led' \subseteq Led \cup {}
    BY LedAfter
  <1> QED
    BY <1>1, Zenon DEF OneNewLeader, Echoes

\* A node alone that starts an election leads at once.  Nobody was elected in the term: its
\* majority would have this node in it, whose storage has not reached the term.
LEMMA StartElectionLed ==
    ASSUME TypeOK, TypeOK', ElectionInv, OneNewVote, [Next]_vars, NEW n \in Node, StartElection(n)
    PROVE  OneNewLeader
  <1>1. \A k \in Node : term[k] \in Nat /\ disk[k].term \in Nat /\ disk[k].term <= term[k]
    BY TermsAreNumbers DEF ElectionInv, MemoryAgrees
  <1>2. \A k \in Node : k # n => Echoes(k)
    BY EchoesOld, StartElectionFacts, ZenonT(40)
  <1>3. CASE role'[n] = "candidate" /\ leader'[n] = None
    BY <1>2, <1>3, EchoesOld, NobodyElected
  <1>4. CASE Majority = 1 /\ role'[n] = "leader" /\ leader'[n] = n
    <2>1. PICK t \in Nat : t = term[n] + 1
      BY <1>1
    <2>2. term'[n] = t /\ disk'[n].term = t /\ disk'[n].vote = n
      BY <2>1, StartElectionFacts
    <2>3. Led' \subseteq Led \cup {[term |-> t, node |-> n]}
      BY <1>2, <1>4, <2>2, LedAfter, ZenonT(40)
    <2>4. {n} \in Quorum
      <3>1. Cardinality({n}) = 1
        BY FS_Singleton, Zenon
      <3> QED
        BY <1>4, <3>1 DEF Quorum
    <2>5. \A x \in Node : ~Firm(n, t, x)
      BY <1>1, <2>1 DEF Firm
    <2>6. \A l \in Node : ~Elected(t, l)
      <3> SUFFICES ASSUME NEW l \in Node, NEW Q \in Quorum, Backs(Q, t, l)
                   PROVE  FALSE
        BY DEF Elected
      <3>1. n \in Q
        BY <2>4, QuorumsMeet
      <3> QED
        BY <2>5, <3>1 DEF Backs
    <2>7. VotesCast' \subseteq VotesCast
      BY <1>4, StartElectionFacts DEF VotesCast
    <2>8. \A c \in VotesCast' : c.voter = n => c.term # t
      BY <2>5, <2>7, VotesCastType DEF ElectionInv, VotesAreFirm
    <2>9. Backs({n}, t, n)'
      BY <2>2, <2>8 DEF Backs, Firm
    <2>10. {n} \in Quorum'
      BY <2>4 DEF Quorum, Majority
    <2>11. Elected(t, n)'
      BY <1>1, <1>4, <2>1, <2>2, <2>9, <2>10 DEF Elected
    <2> QED
      BY <1>2, <2>2, <2>3, <2>6, <2>11, ZenonT(40) DEF OneNewLeader, Echoes
  <1> QED
    BY <1>3, <1>4, StartElectionFacts

\* A candidate with a majority of votes leads.  Nobody was elected in the term: another
\* majority shares a voter with this one, which has cast no vote in the term but for whoever
\* was elected, and the candidate was not.
LEMMA HandleVoteReplyLed ==
    ASSUME ~LateVotes, TypeOK, TypeOK', ElectionInv, Remembers, [Next]_vars,
           NEW m \in rpcs, HandleVoteReply(m)
    PROVE  OneNewLeader
  <1> DEFINE n == m.from
  <1>1. m \in VoteReply /\ m.kind = "voteReply"
    BY RpcKinds, ZenonT(40) DEF TypeOK, HandleVoteReply
  <1>2. /\ n \in Node /\ m.to \in Node /\ m.rterm \in Nat /\ m.term \in Nat /\ term[n] \in Nat
        /\ disk[n] \in Disk
    BY <1>1 DEF VoteReply, TypeOK
  <1>3. CASE UNCHANGED <<term, role, leader>>
    BY <1>3, EchoesOld, NobodyElected, ZenonT(40)
  <1>4. CASE StepDown(n, m.rterm)
    <2>1. \A k \in Node : \/ term'[k] = term[k] /\ role'[k] = role[k] /\ leader'[k] = leader[k]
                          \/ role'[k] # "leader" /\ leader'[k] = None
      BY <1>2, <1>4 DEF StepDown, TypeOK
    <2> QED
      BY <2>1, EchoesOld, NobodyElected
  <1>5. CASE /\ m.rterm <= term[n] /\ role[n] = "candidate" /\ m.granted
             /\ (votes[n] \cup {m.to}) \in Quorum /\ Lead(n, term[n], disk[n]) /\ term' = term
    <2>1. PICK in \in Quorum : in = votes[n] \cup {m.to}
      BY <1>5
    <2>2. m.term = term[n]
      <3>1. m.term = term[n] \/ m.rterm > term[n]
        BY Zenon DEF HandleVoteReply
      <3> QED
        BY <1>2, <1>5, <3>1
    <2>0. PICK t \in Nat : t = term[n]
      BY <1>2
    <2>3. \A v \in in : [voter |-> v, term |-> t, for |-> n] \in VotesCast
      BY <1>1, <1>5, <2>0, <2>1, <2>2, VotesIn
    <2>4. /\ \A k \in Node : k # n => role'[k] = role[k] /\ leader'[k] = leader[k]
          /\ role'[n] = "leader" /\ leader'[n] = n
          /\ \A k \in Node : disk'[k].term = disk[k].term /\ disk'[k].vote = disk[k].vote
      <3>1. /\ role' = [role EXCEPT ![n] = "leader"] /\ leader' = [leader EXCEPT ![n] = n]
            /\ disk'[n].term = disk[n].term /\ disk'[n].vote = disk[n].vote
            /\ \A k \in Node : k # n => disk'[k] = disk[k]
        BY <1>2, <1>5, LeadFacts
      <3>2. role \in [Node -> {"follower", "candidate", "leader"}]
            /\ leader \in [Node -> Node \cup {None}]
        BY DEF TypeOK
      <3> QED
        BY <1>2, <3>1, <3>2
    <2>5. \A k \in Node : k # n => Echoes(k)
      BY <1>5, <2>4, EchoesOld
    <2>11. Led' \subseteq Led \cup {[term |-> t, node |-> n]}
      BY <1>5, <2>0, <2>4, <2>5, LedAfter, ZenonT(40)
    <2>6. \A l \in Node : ~Elected(t, l)
      <3> SUFFICES ASSUME NEW l \in Node, Elected(t, l)
                   PROVE  FALSE
        OBVIOUS
      <3>1. PICK Q \in Quorum : Backs(Q, t, l)
        BY DEF Elected
      <3>2. PICK v \in in : v \in Q
        BY QuorumsMeet
      <3>3. l = n
        BY <2>3, <3>1, <3>2, ZenonT(40) DEF Backs
      <3> QED
        BY <1>5, <2>0, <3>3, ZenonT(40) DEF Elected
    <2>7. VotesCast' \subseteq VotesCast
      BY HandleVoteReplyVotes
    <2>8. Backs(in, t, n)'
      <3>1. \A v \in in : disk[v].term > t \/ (disk[v].term = t /\ disk[v].vote = n)
        BY <2>3, ZenonT(40) DEF ElectionInv, VotesAreFirm, Firm
      <3>2. \A v \in in : Firm(v, t, n)'
        BY <2>4, <3>1 DEF Firm, Quorum
      <3>3. \A c \in VotesCast' : c.voter \in in /\ c.term = t => c.for = n
        BY <2>3, <2>7, ZenonT(40) DEF ElectionInv, OneVotePerTerm
      <3> QED
        BY <3>2, <3>3 DEF Backs, Firm
    <2>9. in \in Quorum'
      BY DEF Quorum, Majority
    <2>10. Elected(t, n)'
      <3>1. disk[n].term = t /\ t > 0
        BY <1>2, <1>5, <2>0, ZenonT(40) DEF ElectionInv, MemoryAgrees
      <3> QED
        BY <1>2, <2>4, <2>8, <2>9, <3>1 DEF Elected, Disk
    <2> QED
      BY <1>2, <1>5, <2>0, <2>5, <2>6, <2>10, <2>11, ZenonT(40) DEF OneNewLeader, Echoes
  <1> QED
    BY <1>3, <1>4, <1>5, ZenonT(40) DEF HandleVoteReply, nodeVars

\* Every step leaves one new leader at most.
LEMMA LeadersStep ==
    ASSUME ~LateVotes, TypeOK, TypeOK', ElectionInv, Remembers, OneNewVote, [Next]_vars
    PROVE  OneNewLeader
  <1>1. \A m \in rpcs : m.from \in Node /\ m.to \in Node /\ m.term \in Nat
    BY RpcKinds DEF TypeOK
  <1>2. ASSUME \A k \in Node :
                   \/ term'[k] = term[k] /\ role'[k] = role[k] /\ leader'[k] = leader[k]
                   \/ role'[k] # "leader" /\ leader'[k] = None
        PROVE  OneNewLeader
    BY <1>2, EchoesOld, NobodyElected
  <1>3. CASE UNCHANGED nodeVars
    BY <1>2, <1>3 DEF nodeVars
  <1>4. ASSUME NEW m \in rpcs, HandleVote(m)
        PROVE  OneNewLeader
    <2>1. term[m.to] \in Nat
      BY <1>1, TermsAreNumbers
    <2> QED
      BY <1>2, <1>4, <2>1, HandleVoteFacts, ZenonT(40) DEF Larger
  <1>5. ASSUME NEW m \in rpcs, HandleAppend(m) \/ HandleSnapshot(m)
        PROVE  OneNewLeader
    <2>1. m \in LeaderCalls
      BY <1>5, ZenonT(40) DEF HandleAppend, HandleSnapshot, LeaderCalls
    <2>2. CASE FollowLeader(m)
      <3>1. \A k \in Node : k # m.to =>
                term'[k] = term[k] /\ role'[k] = role[k] /\ leader'[k] = leader[k]
        <4>1. /\ term = [k \in Node |-> term[k]] /\ role = [k \in Node |-> role[k]]
              /\ leader = [k \in Node |-> leader[k]]
          BY DEF TypeOK
        <4> QED
          BY <1>1, <2>2, <4>1, ZenonT(40) DEF FollowLeader
      <3>2. role'[m.to] = "follower" /\ leader'[m.to] = m.from /\ term'[m.to] = m.term
        BY <1>1, <2>2 DEF FollowLeader, TypeOK
      <3>3. Echoes(m.to)
        <4>1. StillLeads(m.to)
          BY <3>2 DEF StillLeads
        <4> QED
          BY <2>1, <3>2, <4>1, ZenonT(40) DEF Echoes, Led
      <3> QED
        BY <3>1, <3>3, EchoesOld, NobodyElected
    <2> QED
      BY <1>3, <1>5, <2>2, ZenonT(40) DEF HandleAppend, HandleSnapshot
  <1>6. ASSUME NEW m \in rpcs, HandleReply(m)
        PROVE  OneNewLeader
    <2>1. CASE StepDown(m.from, m.rterm)
      BY <1>1, <1>2, <2>1 DEF StepDown, TypeOK
    <2> QED
      BY <1>3, <1>6, <2>1, ZenonT(40) DEF HandleReply
  <1>7. ASSUME NEW n \in Node, NEW s, RestartWith(n, s)
        PROVE  OneNewLeader
    BY <1>2, <1>7 DEF RestartWith, TypeOK
  <1>8. ASSUME NEW m \in rpcs, CrashInAppend(m)
        PROVE  OneNewLeader
    BY <1>1, <1>7, <1>8, ZenonT(40) DEF CrashInAppend
  <1>9. ASSUME (\E n \in Node, v \in Value : Propose(n, v)) \/ ReadEnd \/ UNCHANGED vars
        PROVE  UNCHANGED nodeVars
    BY <1>9, ZenonT(40) DEF Propose, ReadEnd, vars
  <1>10. ASSUME NEW n \in Node, StartElection(n)
         PROVE  OneNewLeader
    BY <1>10, StartElectionLed
  <1>11. ASSUME NEW m \in rpcs, HandleVoteReply(m)
         PROVE  OneNewLeader
    BY <1>11, HandleVoteReplyLed
  <1> QED
    BY <1>3, <1>4, <1>5, <1>6, <1>7, <1>8, <1>9, <1>10, <1>11, QuietCalls, ZenonT(40)
    DEF Next, Restart

-----------------------------------------------------------------------------
(* The theorems.                                                           *)

\* The inductive invariant of the elections.
SafeElections == TypeOK /\ ElectionInv

\* Every step keeps it, when a vote reply is read in the term it was asked in.
LEMMA SafeElectionsStep ==
    ASSUME ~LateVotes, SafeElections, [Next]_vars
    PROVE  SafeElections' /\ Remembers /\ OneNewVote /\ OneNewLeader
  <1> USE DEF SafeElections
  <1>1. TypeOK'
    BY TypeStep
  <1>2. Remembers
    BY MemoryStep DEF ElectionInv
  <1>3. OneNewVote
    BY VotesStep DEF ElectionInv
  <1>4. OneNewLeader
    BY <1>1, <1>2, <1>3, LeadersStep
  <1>5. VotesAreFirm' /\ OneVotePerTerm'
    BY <1>1, <1>2, <1>3, VotesKeep DEF ElectionInv, Remembers
  <1>6. \A a \in Led : a.term \in Nat /\ a.node \in Node
    BY LedType
  <1>7. \A a \in Led : Elected(a.term, a.node)'
    <2> SUFFICES ASSUME NEW a \in Led
                 PROVE  Elected(a.term, a.node)'
      OBVIOUS
    <2>1. PICK t \in Nat, n \in Node : t = a.term /\ n = a.node
      BY <1>6
    <2>2. Elected(t, n)
      BY <2>1 DEF ElectionInv, LeadersAreElected
    <2>3. Elected(t, n)'
      BY <1>1, <1>2, <1>3, <2>2, ElectedStays DEF ElectionInv
    <2> QED
      BY <2>1, <2>3 DEF Elected, Backs, Firm
  <1>8. LeadersAreElected'
    <2>1. CASE Led' \subseteq Led
      BY <1>7, <2>1 DEF ElectionInv, LeadersAreElected, Elected, Backs, Firm
    <2>2. ASSUME NEW t \in Nat, NEW n \in Node, Led' \subseteq Led \cup {[term |-> t, node |-> n]},
                 Elected(t, n)', \A l \in Node : ~Elected(t, l)
          PROVE  LeadersAreElected'
      <3>1. \A a \in Led : a.term # t
        BY <1>6, <2>2, Zenon DEF ElectionInv, LeadersAreElected
      <3>2. \A a \in Led' : a \in Led \/ (a.term = t /\ a.node = n)
        BY <2>2
      <3>3. \A a \in Led' : Elected(a.term, a.node)'
        BY <1>7, <2>2, <3>2 DEF Elected, Backs, Firm
      <3>4. \A a, b \in Led' : a.term = b.term => a.node = b.node
        BY <3>1, <3>2 DEF ElectionInv, LeadersAreElected
      <3> QED
        BY <3>3, <3>4 DEF LeadersAreElected
    <2> QED
      BY <1>4, <2>1, <2>2 DEF OneNewLeader
  <1> QED
    BY <1>1, <1>2, <1>3, <1>4, <1>5, <1>8 DEF ElectionInv, Remembers

\* It holds at the start: nobody leads and no vote is cast.
LEMMA SafeElectionsInit == Init => SafeElections
  <1> SUFFICES ASSUME Init PROVE SafeElections
    OBVIOUS
  <1>1. VotesCast = {} /\ Led = {}
    BY Zenon DEF Init, VotesCast, Led, LeaderCalls, NoRead
  <1>2. \A n \in Node : role[n] = "follower" /\ term[n] = 0 /\ vote[n] = None
                        /\ disk[n].term = 0 /\ disk[n].vote = None
    <2>1. disk = [n \in Node |-> [term |-> 0, vote |-> None, commit |-> 0]]
      BY Zenon DEF Init
    <2>2. /\ role = [n \in Node |-> "follower"] /\ term = [n \in Node |-> 0]
          /\ vote = [n \in Node |-> None]
      BY Zenon DEF Init
    <2> QED
      BY <2>1, <2>2
  <1>3. MemoryAgrees
    BY <1>2 DEF MemoryAgrees
  <1>4. VotesAreFirm /\ OneVotePerTerm /\ LeadersAreElected
    BY <1>1, Zenon DEF VotesAreFirm, OneVotePerTerm, LeadersAreElected
  <1> QED
    BY <1>3, <1>4, TypeInit DEF SafeElections, ElectionInv

\* Of two traces of leaders in one term, both are of the same node.
LEMMA TracesAgree ==
    ASSUME LeadersAreElected
    PROVE  /\ \A l, k \in Node : role[l] = "leader" /\ role[k] = "leader" /\ term[l] = term[k]
                                 => l = k
           /\ \A n, l \in Node : leader[n] # None /\ role[l] = "leader" /\ term[l] = term[n]
                                 => leader[n] = l
  <1>1. \A n \in Node : role[n] = "leader" => [term |-> term[n], node |-> n] \in Led
    BY DEF Led
  <1>2. \A n \in Node : leader[n] # None => [term |-> term[n], node |-> leader[n]] \in Led
    BY DEF Led
  <1>3. \A t, n, k : [term |-> t, node |-> n] \in Led /\ [term |-> t, node |-> k] \in Led => n = k
    BY DEF LeadersAreElected
  <1> QED
    BY <1>1, <1>2, <1>3, ZenonT(40)

\* Election safety: whatever the group, the losses and the restarts, no term
\* has two leaders, provided _request_vote reads no reply of an earlier term.
THEOREM ElectionSafety ==
    ASSUME ~LateVotes
    PROVE  Spec => []OneLeaderPerTerm
  <1>1. SafeElections => OneLeaderPerTerm
    BY TracesAgree DEF SafeElections, ElectionInv, OneLeaderPerTerm
  <1>2. SafeElections /\ [Next]_vars => SafeElections'
    BY SafeElectionsStep
  <1> QED
    BY <1>1, <1>2, SafeElectionsInit, PTL DEF Spec

\* The invariant the run checks is the one of the proof: every vote that counts, or may
\* still come to count, is in its voter's storage, and a majority's storage is behind every
\* leader there is a trace of (save_meta before the answer in request_vote).
THEOREM ElectionsAreBacked ==
    ASSUME ~LateVotes
    PROVE  Spec => []ElectionInv
  <1>1. SafeElections => ElectionInv
    BY DEF SafeElections
  <1>2. SafeElections /\ [Next]_vars => SafeElections'
    BY SafeElectionsStep
  <1> QED
    BY <1>1, <1>2, SafeElectionsInit, PTL DEF Spec

\* A node reports no leader but the one of its term: what append_entries and install_snapshot
\* put into _leader_id is the sender of a call that only an elected leader makes, however
\* late the call comes.
THEOREM ReportsAreRight ==
    ASSUME ~LateVotes
    PROVE  Spec => []ReportedLeaderLeads
  <1>1. SafeElections => ReportedLeaderLeads
    BY TracesAgree DEF SafeElections, ElectionInv, ReportedLeaderLeads
  <1>2. SafeElections /\ [Next]_vars => SafeElections'
    BY SafeElectionsStep
  <1> QED
    BY <1>1, <1>2, SafeElectionsInit, PTL DEF Spec

-----------------------------------------------------------------------------
(* The logs, in a group that takes no snapshots.                           *)

\* The numbers below which a search in a log may look have a least one.
LEMMA NumbersHaveLeast == LeastNumber
  <1> SUFFICES ASSUME NEW T \in SUBSET Nat, T # {}
               PROVE  \E x \in T : \A y \in T : x <= y
    BY DEF LeastNumber
  <1> DEFINE R == OpToRel(<, Nat)
  <1>1. IsWellFoundedOn(R, Nat)
    BY NatLessThanWellFounded
  <1>2. \A x, y \in Nat : y < x => <<y, x>> \in R
    BY DEF OpToRel
  <1> HIDE DEF R
  <1>3. PICK x \in T : \A y \in T : ~ (<<y, x>> \in R)
    BY <1>1, WFMin, ZenonT(40)
  <1>4. \A y \in T : x \in Nat /\ y \in Nat /\ ~(y < x)
    BY <1>2, <1>3, ZenonT(40)
  <1> QED
    BY <1>4

\* After the step, two nodes that lead in one term are one.
LEMMA LeadTheirTerms ==
    ASSUME LeadersAreElected', NEW l \in Node, NEW k \in Node,
           role'[l] = "leader", role'[k] = "leader", term'[l] = term'[k]
    PROVE  l = k
  <1>1. [term |-> term'[l], node |-> l] \in Led' /\ [term |-> term'[k], node |-> k] \in Led'
    BY Zenon DEF Led
  <1>2. \A a, b \in Led' : a.term = b.term => a.node = b.node
    BY Zenon DEF LeadersAreElected
  <1> QED
    BY <1>1, <1>2

\* The step that adds the log there is new to the history.
LEMMA HistoryStep ==
    ASSUME ~LateVotes, SnapshotInterval = 0, SafeElections, NEW H, History(H), [Next]_vars
    PROVE  \E G : History(G)'
  <1>1. TypeOK /\ ElectionInv /\ SafeElections' /\ Remembers /\ OneNewVote /\ OneNewLeader
    BY SafeElectionsStep DEF SafeElections
  <1>2. TypeOK' /\ LeadersAreElected'
    BY <1>1 DEF SafeElections, ElectionInv
  <1>3. OneLogChanges(H)
    BY <1>1, LogsStep, NumbersHaveLeast
  <1>4. \A m \in LeaderCalls' : m.kind = "append" /\ \E L \in H : Carries(m, L)
    BY <1>1, CallsCarry
  <1>5. H \subseteq Seq(Entry) /\ \A L, M \in H : Match(L, M)
    BY Zenon DEF History
  <1>6. \A k \in Node : rep[k].snap = EmptySnapshot /\ rep[k].log \in H
    BY Zenon DEF History
  <1>7. \A L \in H : \A i \in DOMAIN L : L[i].term \in Nat
    BY <1>5, EntryTerm
  <1>8. \A L \in H : \A i \in DOMAIN L : \E l \in Node : Elected(L[i].term, l)'
    <2> SUFFICES ASSUME NEW L \in H, NEW i \in DOMAIN L
                 PROVE  \E l \in Node : Elected(L[i].term, l)'
      OBVIOUS
    <2>1. PICK l \in Node : Elected(L[i].term, l)
      BY Zenon DEF History
    <2>2. Elected(L[i].term, l)'
      BY <1>1, <1>2, <1>7, <2>1, ElectedStays DEF ElectionInv
    <2> QED
      BY <2>2
  <1>9. ASSUME NEW L \in H, NEW i \in DOMAIN L, NEW l \in Node,
               role'[l] = "leader", term'[l] = L[i].term
        PROVE  i <= Len(rep[l].log)
    <2>1. PICK k \in Node : Elected(L[i].term, k)
      BY Zenon DEF History
    <2>2. StillLeads(l)
      BY <1>1, <1>9, <2>1, ZenonT(40) DEF OneNewLeader
    <2> QED
      BY <1>9, <2>2, Zenon DEF StillLeads, History
  <1>10. \A k \in Node : Len(rep[k].log) \in Nat /\ Len(rep'[k].log) \in Nat
                         /\ rep'[k].log \in Seq(Entry)
    <2>1. \A k \in Node : rep[k] \in Replica /\ rep'[k] \in Replica
      BY <1>1, <1>2, ZenonT(40) DEF TypeOK
    <2>2. \A r \in Replica : r.log \in Seq(Entry)
      BY DEF Replica
    <2>3. \A L \in Seq(Entry) : Len(L) \in Nat
      OBVIOUS
    <2> QED
      BY <2>1, <2>2, <2>3, ZenonT(40)
  <1>11. CASE \A k \in Node : SameLog(k)
    <2>1. \A k \in Node : rep'[k].snap = EmptySnapshot /\ rep'[k].log \in H
      BY <1>6, <1>11, ZenonT(40) DEF SameLog
    <2>2. \A L \in H : \A i \in DOMAIN L : \A l \in Node :
              role'[l] = "leader" /\ term'[l] = L[i].term => i <= Len(rep'[l].log)
      BY <1>9, <1>11, ZenonT(40) DEF SameLog
    <2>3. History(H)'
      BY <1>4, <1>5, <1>8, <2>1, <2>2, ZenonT(40) DEF History
    <2> QED
      BY <2>3
  <1>12. ASSUME NEW n \in Node, \A k \in Node : k # n => SameLog(k),
                rep'[n].snap = EmptySnapshot, Grows(n) \/ Cuts(n, H)
         PROVE  \E G : History(G)'
    <2>1. PICK q \in Seq(Entry) : q = rep'[n].log
      BY <1>10
    <2>13. PICK A \in H, c \in Nat : NewFrom(q, A, c, n)
      BY <1>1, <1>12, <2>1, NewLog, ZenonT(40)
    <2>2. /\ c <= Len(A) /\ c <= Len(q)
          /\ \A i \in 1..c : q[i] = A[i]
          /\ \A i \in c+1..Len(q) :
                role'[n] = "leader" /\ q[i].term = term'[n] /\ i > Len(rep[n].log)
      BY <2>13 DEF NewFrom
    <2>3. ASSUME NEW i \in c+1..Len(q), NEW M \in H, i \in DOMAIN M
          PROVE  M[i].term # q[i].term
      <3>1. role'[n] = "leader" /\ q[i].term = term'[n] /\ i > Len(rep[n].log)
        BY <2>2
      <3>2. ASSUME M[i].term = q[i].term
            PROVE  FALSE
        <4>1. i <= Len(rep[n].log) /\ i \in Int
          BY <1>9, <2>3, <3>1, <3>2
        <4> QED
          BY <1>10, <3>1, <4>1
      <3> QED
        BY <3>2
    <2> DEFINE G == H \cup {q}
    <2>4. G \subseteq Seq(Entry) /\ \A L, M \in G : Match(L, M)
      <3>1. \A L, M \in H \cup {q} : Match(L, M)
        BY <1>5, <2>2, <2>3, AddLog
      <3> QED
        BY <1>5, <3>1, ZenonT(40)
    <2>5. \A k \in Node : rep'[k].snap = EmptySnapshot /\ rep'[k].log \in G
      BY <1>6, <1>12, <2>1, Zenon DEF SameLog
    <2>6. \A m \in LeaderCalls' : m.kind = "append" /\ \E L \in G : Carries(m, L)
      BY <1>4, Zenon
    <2>7. ASSUME NEW l \in Node, role'[l] = "leader"
          PROVE  Len(rep[l].log) <= Len(rep'[l].log)
      <3>1. CASE l # n
        BY <1>10, <1>12, <3>1 DEF SameLog
      <3>2. CASE l = n
        <4>1. PICK e : rep'[n].log = Append(rep[n].log, e)
          BY <1>12, <2>7, <3>2, ZenonT(40) DEF Grows, Cuts
        <4>2. rep[n].log \in Seq(Entry)
          BY <1>5, <1>6
        <4> QED
          BY <3>2, <4>1, <4>2
      <3> QED
        BY <3>1, <3>2
    <2>8. ASSUME NEW L \in H, NEW i \in DOMAIN L, NEW l \in Node,
                 role'[l] = "leader", term'[l] = L[i].term
          PROVE  i <= Len(rep'[l].log)
      <3>1. i \in Int
        BY <1>5
      <3> QED
        BY <1>9, <1>10, <2>7, <2>8, <3>1
    <2>9. ASSUME NEW i \in DOMAIN q
          PROVE  /\ \E l \in Node : Elected(q[i].term, l)'
                 /\ \A l \in Node : role'[l] = "leader" /\ term'[l] = q[i].term
                                    => i <= Len(rep'[l].log)
      <3>1. CASE i \in 1..c
        <4>1. i \in DOMAIN A /\ q[i] = A[i]
          BY <1>5, <2>2, <3>1
        <4> QED
          BY <1>8, <2>8, <4>1, ZenonT(40)
      <3>2. CASE i \in c+1..Len(q)
        <4>1. role'[n] = "leader" /\ q[i].term = term'[n]
          BY <2>2, <3>2
        <4>2. \A l \in Node : role'[l] = "leader" /\ term'[l] = term'[n] => l = n
          BY <1>2, <4>1, LeadTheirTerms, ZenonT(40)
        <4>3. i <= Len(q)
          BY <3>2
        <4>4. Elected(q[i].term, n)'
          <5>1. [term |-> term'[n], node |-> n] \in Led'
            BY <4>1, Zenon DEF Led
          <5>2. \A a \in Led' : Elected(a.term, a.node)'
            BY <1>2, Zenon DEF LeadersAreElected
          <5>3. PICK t : t = q[i].term
            OBVIOUS
          <5>4. Elected(t, n)'
            BY <4>1, <5>1, <5>2, <5>3
          <5> QED
            BY <5>3, <5>4
        <4> QED
          BY <2>1, <4>1, <4>2, <4>3, <4>4, ZenonT(40)
      <3> QED
        BY <3>1, <3>2, <2>2
    <2>10. \A L \in G : \A i \in DOMAIN L :
              /\ \E l \in Node : Elected(L[i].term, l)'
              /\ \A l \in Node : role'[l] = "leader" /\ term'[l] = L[i].term
                                 => i <= Len(rep'[l].log)
      BY <1>8, <2>8, <2>9, ZenonT(40)
    <2> HIDE DEF G
    <2>11. History(G)'
      BY <2>4, <2>5, <2>6, <2>10, ZenonT(40) DEF History
    <2> QED
      BY <2>11
  <1> QED
    BY <1>3, <1>11, <1>12, ZenonT(40) DEF OneLogChanges

\* Log matching: whatever the group, the losses, the restarts and the crashes inside
\* append_entries, two logs that agree on the term of an index agree on everything up to it,
\* provided elections are safe and nobody takes a snapshot.
THEOREM LogsMatch ==
    ASSUME ~LateVotes, SnapshotInterval = 0
    PROVE  Spec => []LogMatching
  <1> DEFINE IInv == SafeElections /\ \E H : History(H)
  <1>1. Init => IInv
    BY SafeElectionsInit, HistoryInit
  <1>2. IInv /\ [Next]_vars => IInv'
    BY SafeElectionsStep, HistoryStep
  <1>3. IInv => LogMatching
    BY HistoryMatches DEF SafeElections
  <1> QED
    BY <1>1, <1>2, <1>3, PTL DEF Spec

=============================================================================
