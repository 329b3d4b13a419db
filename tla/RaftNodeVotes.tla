---------------------------- MODULE RaftNodeVotes ---------------------------
(* The votes of RaftNode.  First what the storages keep of a vote,         *)
(* whatever replies are late; then which calls a leader has in flight;     *)
(* then that a voter casts one vote a term when no vote reply outlives its *)
(* caller's term; and last what an election and a call leave behind.       *)
EXTENDS RaftNodeTypes

\* A leaf that names no prover is tried with these, in this order.
USE SMTT(30), Z3T(30), ZenonT(40)

-----------------------------------------------------------------------------
(* Storages and votes.                                                     *)

\* What may happen to a storage: its term grows, or it keeps its term and the
\* vote in it, if there was one.
DiskAdvances ==
    \A v \in Node :
        \/ disk'[v].term > disk[v].term
        \/ /\ disk'[v].term = disk[v].term
           /\ disk[v].vote = None \/ disk'[v].vote = disk[v].vote

\* A storage that advances stays firm.
LEMMA FirmStays ==
    ASSUME TypeOK, TypeOK', DiskAdvances,
           NEW v \in Node, NEW t \in Nat, NEW n \in Node, Firm(v, t, n)
    PROVE  Firm(v, t, n)'
  <1>1. disk[v] \in Disk /\ disk'[v] \in Disk
    BY DEF TypeOK
  <1>2. disk[v].term \in Nat /\ disk'[v].term \in Nat
    BY <1>1 DEF Disk
  <1>3. n # None
    BY NodeAssumption
  <1> QED
    BY <1>2, <1>3 DEF DiskAdvances, Firm

\* Saving a commit index leaves the term and the vote in storage alone.
LEMMA CommitSaved ==
    ASSUME TypeOK, NEW n \in Node, NEW s, NEW r,
           disk' = [disk EXCEPT ![n] = SaveCommit(@, s, r)]
    PROVE  \A v \in Node : disk'[v].term = disk[v].term /\ disk'[v].vote = disk[v].vote
  <1>1. disk[n] \in Disk
    BY DEF TypeOK
  <1> QED
    BY <1>1 DEF TypeOK, SaveCommit, Disk

\* What _check_vote_count does to the variables the election is about.
LEMMA LeadFacts ==
    ASSUME TypeOK, NEW n \in Node, NEW t, NEW d \in Disk, Lead(n, t, d)
    PROVE  /\ role' = [role EXCEPT ![n] = "leader"]
           /\ votes' = [votes EXCEPT ![n] = {}]
           /\ leader' = [leader EXCEPT ![n] = n]
           /\ disk'[n].term = d.term /\ disk'[n].vote = d.vote
           /\ \A k \in Node : k # n => disk'[k] = disk[k]
  <1>1. PICK r : disk' = [disk EXCEPT ![n] = SaveCommit(d, rep[n], r)]
    BY Zenon DEF Lead
  <1>2. SaveCommit(d, rep[n], r).term = d.term /\ SaveCommit(d, rep[n], r).vote = d.vote
    BY DEF SaveCommit, Disk
  <1> QED
    BY <1>1, <1>2 DEF Lead, TypeOK

\* A node follows the sender of m, and its storage has the term of m if that is new.
Follows(m) ==
    /\ m.term >= term[m.to] /\ FollowLeader(m)
    /\ \A v \in Node : v # m.to => disk'[v] = disk[v]
    /\ disk'[m.to].term = SaveTerm(disk[m.to], m).term
    /\ disk'[m.to].vote = SaveTerm(disk[m.to], m).vote

\* append_entries refuses an old term and touches nothing, or follows.
LEMMA HandleAppendFollows ==
    ASSUME TypeOK, NEW m \in rpcs, HandleAppend(m)
    PROVE  UNCHANGED <<nodeVars, disk>> \/ Follows(m)
  <1> DEFINE n == m.to
  <1>1. m.to \in Node /\ m.term \in Nat
    BY RpcKinds DEF TypeOK
  <1>2. disk[n] \in Disk
    BY <1>1 DEF TypeOK
  <1>3. ASSUME m.term >= term[n], FollowLeader(m), NEW d \in Disk,
               disk' = [disk EXCEPT ![n] = SaveTerm(d, m)],
               d.term = disk[n].term, d.vote = disk[n].vote
        PROVE  Follows(m)
    <2>1. disk'[n] = SaveTerm(d, m) /\ \A v \in Node : v # n => disk'[v] = disk[v]
      BY <1>1, <1>3 DEF TypeOK
    <2>2. /\ SaveTerm(d, m).term = SaveTerm(disk[n], m).term
          /\ SaveTerm(d, m).vote = SaveTerm(disk[n], m).vote
      BY <1>2, <1>3 DEF SaveTerm, SaveMeta, Disk
    <2> QED
      BY <1>3, <2>1, <2>2 DEF Follows
  <1>4. \A c \in Nat : /\ [disk[n] EXCEPT !.commit = c] \in Disk
                       /\ [disk[n] EXCEPT !.commit = c].term = disk[n].term
                       /\ [disk[n] EXCEPT !.commit = c].vote = disk[n].vote
    BY <1>2 DEF Disk
  <1>5. Smaller(m.commit, LastIndex(Merged(rep[n], m))) \in Nat
    <2>1. m \in AppendRequest
      BY RpcKinds DEF TypeOK, HandleAppend
    <2>2. m.commit \in Nat
      BY <2>1 DEF AppendRequest
    <2>3. LastIndex(Merged(rep[n], m)) \in Nat
      BY <1>1, <2>1, MergedType, IndexType DEF TypeOK
    <2> QED
      BY <2>2, <2>3 DEF Smaller
  <1>6. \/ UNCHANGED <<nodeVars, disk>>
        \/ /\ m.term >= term[n] /\ FollowLeader(m)
           /\ \/ disk' = [disk EXCEPT ![n] = SaveTerm(disk[n], m)]
              \/ \E c \in Nat : disk' = [disk EXCEPT ![n] =
                                            SaveTerm([disk[n] EXCEPT !.commit = c], m)]
    BY <1>5, Zenon DEF HandleAppend
  <1> QED
    BY <1>2, <1>3, <1>4, <1>6, Zenon

\* install_snapshot likewise.
LEMMA HandleSnapshotFollows ==
    ASSUME TypeOK, NEW m \in rpcs, HandleSnapshot(m)
    PROVE  UNCHANGED <<nodeVars, disk>> \/ Follows(m)
  <1> DEFINE n == m.to
  <1>1. m.to \in Node /\ m.term \in Nat
    BY RpcKinds DEF TypeOK
  <1>2. ASSUME m.term >= term[n], FollowLeader(m), NEW c,
               \/ disk' = [disk EXCEPT ![n] = SaveTerm(@, m)]
               \/ disk' = [disk EXCEPT ![n] = SaveTerm([@ EXCEPT !.commit = c], m)]
        PROVE  Follows(m)
    <2>1. disk[n] \in Disk /\ \A v \in Node : v # n => disk'[v] = disk[v]
      BY <1>1, <1>2 DEF TypeOK
    <2>2. \/ disk'[n] = SaveTerm(disk[n], m)
          \/ disk'[n] = SaveTerm([disk[n] EXCEPT !.commit = c], m)
      BY <1>1, <1>2 DEF TypeOK
    <2>3. disk'[n].term = SaveTerm(disk[n], m).term /\ disk'[n].vote = SaveTerm(disk[n], m).vote
      BY <2>1, <2>2, Zenon DEF SaveTerm, SaveMeta, Disk
    <2> QED
      BY <1>2, <2>1, <2>3 DEF Follows
  <1> QED
    BY <1>2, Zenon DEF HandleSnapshot

\* A request_vote handled by m.to: whether it grants.
Grants(m) ==
    /\ m.term >= term[m.to]
    /\ m.term > term[m.to] \/ vote[m.to] \in {None, m.from}
    /\ LogOk(rep[m.to], m)

\* What request_vote does to the variables the election is about.
LEMMA HandleVoteFacts ==
    ASSUME TypeOK, NEW m \in rpcs, HandleVote(m)
    PROVE  /\ m.to \in Node /\ m.from \in Node /\ m.term \in Nat
           /\ \A k \in Node : k # m.to => /\ disk'[k] = disk[k] /\ term'[k] = term[k]
                                          /\ vote'[k] = vote[k] /\ role'[k] = role[k]
                                          /\ votes'[k] = votes[k] /\ leader'[k] = leader[k]
           /\ term'[m.to] = Larger(term[m.to], m.term)
           /\ vote'[m.to] = IF Grants(m) THEN m.from
                            ELSE IF m.term > term[m.to] THEN None ELSE vote[m.to]
           /\ role'[m.to] = (IF m.term > term[m.to] THEN "follower" ELSE role[m.to])
           /\ votes'[m.to] = (IF m.term > term[m.to] THEN {} ELSE votes[m.to])
           /\ leader'[m.to] = (IF m.term > term[m.to] THEN None ELSE leader[m.to])
           /\ m.term > term[m.to] \/ Grants(m) =>
                 disk'[m.to].term = m.term /\ disk'[m.to].vote = vote'[m.to]
           /\ ~(m.term > term[m.to] \/ Grants(m)) => disk'[m.to] = disk[m.to]
           /\ \A r \in rpcs' : r.kind = "voteReply" /\ r.granted =>
                 r \in rpcs \/ (Grants(m) /\ r.to = m.to /\ r.term = m.term /\ r.from = m.from)
  <1> DEFINE n == m.to
             newer == m.term > term[n]
             voted == IF newer THEN None ELSE vote[n]
             grant == m.term >= term[n] /\ voted \in {None, m.from} /\ LogOk(rep[n], m)
             v == IF grant THEN m.from ELSE voted
  <1>1. n \in Node /\ m.from \in Node /\ m.term \in Nat /\ m.kind = "vote"
    BY RpcKinds DEF TypeOK, HandleVote
  <1>2. grant <=> Grants(m)
    BY DEF Grants
  <1>3. /\ term' = [term EXCEPT ![n] = Larger(@, m.term)]
        /\ vote' = [vote EXCEPT ![n] = v]
        /\ role' = [role EXCEPT ![n] = IF newer THEN "follower" ELSE @]
        /\ votes' = [votes EXCEPT ![n] = IF newer THEN {} ELSE @]
        /\ leader' = [leader EXCEPT ![n] = IF newer THEN None ELSE @]
        /\ disk' = [disk EXCEPT ![n] =
                       IF newer \/ grant THEN SaveMeta(@, m.term, v) ELSE @]
        /\ rpcs' = (rpcs \ {m}) \cup
                   (IF m.wait THEN {VoteAnswer(m, Larger(term[n], m.term), grant)} ELSE {})
    BY DEF HandleVote, Answer
  <1>4. grant \in BOOLEAN /\ newer \in BOOLEAN
    OBVIOUS
  <1>5. \A k \in Node : k # n => /\ disk'[k] = disk[k] /\ term'[k] = term[k]
                                 /\ vote'[k] = vote[k] /\ role'[k] = role[k]
                                 /\ votes'[k] = votes[k] /\ leader'[k] = leader[k]
    BY <1>1, <1>3 DEF TypeOK
  <1>6. /\ term'[n] = Larger(term[n], m.term) /\ vote'[n] = v
        /\ role'[n] = (IF newer THEN "follower" ELSE role[n])
        /\ votes'[n] = (IF newer THEN {} ELSE votes[n])
        /\ leader'[n] = (IF newer THEN None ELSE leader[n])
        /\ newer \/ grant => disk'[n].term = m.term /\ disk'[n].vote = v
        /\ ~(newer \/ grant) => disk'[n] = disk[n]
    <2>1. disk[n] \in Disk
      BY <1>1 DEF TypeOK
    <2>2. SaveMeta(disk[n], m.term, v).term = m.term /\ SaveMeta(disk[n], m.term, v).vote = v
      BY <1>1, <2>1 DEF SaveMeta, Disk
    <2> QED
      BY <1>1, <1>3, <2>2, ZenonT(40) DEF TypeOK
  <1>7. \A r \in rpcs' : r.kind = "voteReply" /\ r.granted =>
            r \in rpcs \/ (grant /\ r.to = n /\ r.term = m.term /\ r.from = m.from)
    <2>1. LET a == VoteAnswer(m, Larger(term[n], m.term), grant)
          IN  a.granted = grant /\ a.to = n /\ a.term = m.term /\ a.from = m.from
      BY DEF VoteAnswer
    <2> QED
      BY <1>3, <2>1, Zenon
  <1> HIDE DEF grant
  <1> QED
    BY <1>1, <1>2, <1>5, <1>6, <1>7

\* What _start_election does to them: the node is in a term its storage had not reached.
LEMMA StartElectionFacts ==
    ASSUME TypeOK, NEW n \in Node, StartElection(n)
    PROVE  /\ term'[n] = term[n] + 1 /\ vote'[n] = n /\ rpcs' = rpcs
           /\ disk'[n].term = term[n] + 1 /\ disk'[n].vote = n
           /\ \A k \in Node : k # n => /\ disk'[k] = disk[k] /\ term'[k] = term[k]
                                       /\ vote'[k] = vote[k] /\ role'[k] = role[k]
                                       /\ votes'[k] = votes[k] /\ leader'[k] = leader[k]
           /\ \/ Majority = 1 /\ role'[n] = "leader" /\ votes'[n] = {} /\ leader'[n] = n
              \/ role'[n] = "candidate" /\ votes'[n] = {n} /\ leader'[n] = None
  <1>1. disk[n] \in Disk /\ term[n] \in Nat
    BY DEF TypeOK
  <1>2. PICK t \in Nat : t = term[n] + 1
    BY <1>1
  <1> DEFINE d == SaveMeta(disk[n], t, n)
  <1>3. d \in Disk /\ d.term = t /\ d.vote = n
    BY <1>1, Zenon DEF Disk, SaveMeta
  <1> HIDE DEF d
  <1>4. /\ term' = [term EXCEPT ![n] = t] /\ vote' = [vote EXCEPT ![n] = n] /\ rpcs' = rpcs
        /\ \/ Majority = 1 /\ Lead(n, t, d)
           \/ /\ role' = [role EXCEPT ![n] = "candidate"]
              /\ votes' = [votes EXCEPT ![n] = {n}]
              /\ leader' = [leader EXCEPT ![n] = None]
              /\ disk' = [disk EXCEPT ![n] = d]
    BY <1>2 DEF StartElection, d
  <1>5. /\ disk'[n].term = t /\ disk'[n].vote = n
        /\ \A k \in Node : k # n => disk'[k] = disk[k]
    BY <1>3, <1>4, LeadFacts DEF TypeOK
  <1>6. \/ /\ Majority = 1 /\ role' = [role EXCEPT ![n] = "leader"]
           /\ votes' = [votes EXCEPT ![n] = {}] /\ leader' = [leader EXCEPT ![n] = n]
        \/ /\ role' = [role EXCEPT ![n] = "candidate"]
           /\ votes' = [votes EXCEPT ![n] = {n}] /\ leader' = [leader EXCEPT ![n] = None]
    BY <1>3, <1>4, LeadFacts
  <1> QED
    BY <1>2, <1>4, <1>5, <1>6 DEF TypeOK

-----------------------------------------------------------------------------
(* Memory and storage, whatever replies are late.                          *)

\* The terms of memory and storage are numbers.
LEMMA TermsAreNumbers ==
    ASSUME TypeOK
    PROVE  \A v \in Node : disk[v] \in Disk /\ disk[v].term \in Nat /\ term[v] \in Nat
  BY DEF TypeOK, Disk

\* A node becomes a candidate only in a term that is new to it.
NewCandidates ==
    \A n \in Node : role'[n] = "candidate" =>
        (role[n] = "candidate" /\ term'[n] = term[n]) \/ term'[n] > term[n]

\* What every step does to the memories and the storages.
Remembers == MemoryAgrees' /\ DiskAdvances /\ NewCandidates

\* A step that touches no term and no vote keeps memory and storage in agreement.
LEMMA PlainMemory ==
    ASSUME MemoryAgrees, UNCHANGED <<term, vote>>,
           \A v \in Node : disk'[v].term = disk[v].term /\ disk'[v].vote = disk[v].vote,
           \A v \in Node : role'[v] = "candidate" => role[v] = "candidate"
    PROVE  Remembers
  BY DEF MemoryAgrees, DiskAdvances, NewCandidates, Remembers

\* A node that steps down for a reply's newer term saves nothing, and has not voted in it.
LEMMA StepDownMemory ==
    ASSUME TypeOK, MemoryAgrees, NEW n \in Node, NEW t \in Nat, t > term[n],
           StepDown(n, t), disk' = disk
    PROVE  Remembers
  <1>1. DiskAdvances
    BY DEF DiskAdvances
  <1>2. NewCandidates
    BY DEF NewCandidates, StepDown, TypeOK
  <1> QED
    BY <1>1, <1>2, TermsAreNumbers DEF Remembers, MemoryAgrees, StepDown, TypeOK

\* A node that follows a leader saves a newer term with no vote in it.
LEMMA FollowMemory ==
    ASSUME TypeOK, MemoryAgrees, NEW m, m.to \in Node, m.term \in Nat, Follows(m)
    PROVE  Remembers
  <1> DEFINE n == m.to
  <1> USE DEF Follows
  <1>1. \A v \in Node : disk[v] \in Disk /\ disk[v].term \in Nat /\ term[v] \in Nat
    BY TermsAreNumbers
  <1>0. NewCandidates
    BY DEF NewCandidates, FollowLeader, TypeOK
  <1> USE <1>0 DEF Remembers
  <1>2. CASE m.term > term[n]
    <2>1. disk'[n].term = m.term /\ disk'[n].vote = None
      BY <1>1, <1>2 DEF SaveTerm, SaveMeta, Disk
    <2>2. DiskAdvances
      BY <1>1, <1>2, <2>1 DEF DiskAdvances, MemoryAgrees
    <2> QED
      BY <1>1, <1>2, <2>1, <2>2 DEF MemoryAgrees, FollowLeader, TypeOK
  <1>3. CASE ~(m.term > term[n])
    <2>1. disk'[n].term = disk[n].term /\ disk'[n].vote = disk[n].vote
      BY <1>3 DEF SaveTerm, SaveMeta
    <2>2. m.term = term[n]
      BY <1>1, <1>3
    <2>3. DiskAdvances
      BY <2>1 DEF DiskAdvances
    <2> QED
      BY <1>3, <2>1, <2>2, <2>3 DEF MemoryAgrees, FollowLeader, TypeOK
  <1> QED
    BY <1>2, <1>3

\* A voter saves the newer term, and the vote before it is granted.
LEMMA HandleVoteMemory ==
    ASSUME TypeOK, MemoryAgrees, NEW m \in rpcs, HandleVote(m)
    PROVE  Remembers
  <1> DEFINE n == m.to
  <1>1. \A v \in Node : disk[v].term \in Nat /\ term[v] \in Nat
    BY TermsAreNumbers
  <1>2. /\ disk[n].term <= term[n]
        /\ disk[n].term = term[n] => vote[n] = disk[n].vote
        /\ disk[n].term < term[n] => vote[n] = None
    BY HandleVoteFacts DEF MemoryAgrees
  <1>3. \/ disk'[n].term > disk[n].term
        \/ /\ disk'[n].term = disk[n].term
           /\ disk[n].vote = None \/ disk'[n].vote = disk[n].vote
    BY <1>1, <1>2, HandleVoteFacts DEF Grants
  <1>4. DiskAdvances
    BY <1>3, HandleVoteFacts DEF DiskAdvances
  <1>5. /\ disk'[n].term <= term'[n]
        /\ disk'[n].term = term'[n] => vote'[n] = disk'[n].vote
        /\ disk'[n].term < term'[n] => vote'[n] = None
    BY <1>1, <1>2, HandleVoteFacts DEF Larger, Grants
  <1>6. role'[n] = "candidate" => role[n] = "candidate" /\ term'[n] = term[n]
    BY <1>1, HandleVoteFacts DEF Larger
  <1>7. NewCandidates
    BY <1>6, HandleVoteFacts DEF NewCandidates
  <1>8. role'[n] = "candidate" => disk'[n].term = term'[n] /\ term'[n] > 0
    <2>1. role[n] = "candidate" => disk[n].term = term[n] /\ term[n] > 0
      BY HandleVoteFacts DEF MemoryAgrees
    <2> QED
      BY <1>1, <1>6, <2>1, HandleVoteFacts DEF Larger, Grants
  <1> QED
    BY <1>4, <1>5, <1>7, <1>8, HandleVoteFacts DEF MemoryAgrees, Remembers

\* Every step keeps what a node remembers of its vote in agreement with its storage, and no
\* step takes from a storage what it has promised.
LEMMA MemoryStep ==
    ASSUME TypeOK, MemoryAgrees, [Next]_vars
    PROVE  Remembers
  <1>1. CASE /\ UNCHANGED <<term, vote>>
             /\ \A v \in Node : disk'[v].term = disk[v].term /\ disk'[v].vote = disk[v].vote
             /\ \A v \in Node : role'[v] = "candidate" => role[v] = "candidate"
    BY <1>1, PlainMemory
  <1>2. CASE UNCHANGED <<nodeVars, disk>>
    BY <1>1, <1>2 DEF nodeVars
  <1>3. CASE UNCHANGED vars
    BY <1>2, <1>3 DEF vars
  <1>4. ASSUME NEW n \in Node, StartElection(n)
        PROVE  Remembers
    <2>1. disk[n].term < disk'[n].term /\ disk'[n].term = term'[n]
      BY <1>4, StartElectionFacts, TermsAreNumbers DEF MemoryAgrees
    <2>2. DiskAdvances
      BY <1>4, <2>1, StartElectionFacts, TermsAreNumbers DEF DiskAdvances
    <2>3. NewCandidates
      BY <1>4, StartElectionFacts, TermsAreNumbers DEF NewCandidates
    <2> QED
      BY <1>4, <2>1, <2>2, <2>3, StartElectionFacts, TermsAreNumbers DEF MemoryAgrees,
         Remembers
  <1>5. ASSUME NEW m \in rpcs, HandleVoteReply(m)
        PROVE  Remembers
    <2>1. m \in VoteReply
      BY <1>5, RpcKinds DEF TypeOK, HandleVoteReply
    <2>2. m.from \in Node /\ m.rterm \in Nat /\ disk[m.from] \in Disk
      BY <2>1 DEF VoteReply, TypeOK
    <2>3. CASE m.rterm > term[m.from] /\ StepDown(m.from, m.rterm) /\ disk' = disk
      BY <2>2, <2>3, StepDownMemory
    <2>4. CASE Lead(m.from, term[m.from], disk[m.from]) /\ UNCHANGED <<term, vote>>
      BY <1>1, <2>2, <2>4, LeadFacts DEF TypeOK
    <2>5. CASE UNCHANGED <<term, vote, role, disk>>
      BY <1>1, <2>5
    <2> QED
      BY <1>5, <2>3, <2>4, <2>5 DEF HandleVoteReply, nodeVars
  <1>6. ASSUME NEW m \in rpcs, HandleAppend(m) \/ HandleSnapshot(m)
        PROVE  Remembers
    <2>1. m.to \in Node /\ m.term \in Nat
      BY RpcKinds DEF TypeOK
    <2> QED
      BY <1>2, <1>6, <2>1, FollowMemory, HandleAppendFollows, HandleSnapshotFollows
  <1>7. ASSUME NEW m \in rpcs, HandleReply(m)
        PROVE  Remembers
    <2>1. m \in ReplicateReply
      BY <1>7, RpcKinds DEF TypeOK, HandleReply
    <2>2. m.from \in Node /\ m.rterm \in Nat
      BY <2>1 DEF ReplicateReply
    <2>3. CASE m.rterm > term[m.from] /\ StepDown(m.from, m.rterm) /\ disk' = disk
      BY <2>2, <2>3, StepDownMemory
    <2>4. CASE UNCHANGED <<nodeVars, disk>>
      BY <1>2, <2>4
    <2>5. CASE UNCHANGED nodeVars
               /\ \E r : disk' = [disk EXCEPT ![m.from] = SaveCommit(@, rep[m.from], r)]
      BY <1>1, <2>2, <2>5, CommitSaved, ZenonT(40) DEF nodeVars
    <2> QED
      BY <1>7, <2>3, <2>4, <2>5 DEF HandleReply
  <1>8. ASSUME (\E n \in Node, v \in Value : Propose(n, v)) \/ ReadEnd
        PROVE  Remembers
    <2>1. ReadEnd => read.node \in Node
      BY DEF ReadEnd, Asking, TypeOK
    <2>2. UNCHANGED nodeVars
      BY <1>8, Zenon DEF Propose, ReadEnd
    <2>3. \/ disk' = disk
          \/ \E n \in Node : \E r : disk' = [disk EXCEPT ![n] = SaveCommit(@, rep[n], r)]
      BY <1>8, <2>1, ZenonT(40) DEF Propose, ReadEnd
    <2> QED
      BY <1>1, <2>2, <2>3, CommitSaved DEF nodeVars
  <1>9. ASSUME NEW n \in Node, NEW s, RestartWith(n, s)
        PROVE  Remembers
    <2>1. DiskAdvances
      BY <1>9 DEF DiskAdvances, RestartWith
    <2>2. NewCandidates
      BY <1>9 DEF NewCandidates, RestartWith, TypeOK
    <2> QED
      BY <1>9, <2>1, <2>2, TermsAreNumbers DEF MemoryAgrees, Remembers, RestartWith,
         TypeOK
  <1>10. ASSUME NEW m \in rpcs, CrashInAppend(m)
         PROVE  \E n \in Node : \E s : RestartWith(n, s)
    <2>1. m.to \in Node
      BY RpcKinds DEF TypeOK
    <2> QED
      BY <1>10, <2>1, Zenon DEF CrashInAppend
  <1>11. ASSUME \/ \E n, p \in Node : RequestVote(n, p) \/ Replicate(n, p)
                \/ \E n \in Node : ReadBegin(n)
                \/ \E m \in rpcs : LoadSnapshot(m) \/ Lose(m) \/ GiveUp(m)
                \/ \E q \in pending : ProposeSucceeds(q) \/ ProposeFails(q)
                \/ \E m \in read.todo : ReadAsk(m)
         PROVE  Remembers
    <2>1. UNCHANGED <<nodeVars, disk>>
      BY <1>11, Zenon DEF RequestVote, Replicate, ReadBegin, LoadSnapshot, Lose, GiveUp,
             ProposeSucceeds, ProposeFails, ReadAsk
    <2> QED
      BY <1>2, <2>1
  <1> QED
    BY <1>3, <1>4, <1>5, <1>6, <1>7, <1>8, <1>9, <1>10, <1>11, HandleVoteMemory, ZenonT(40)
    DEF Next, Restart

\* No step of any node, with late replies and with crashes inside append_entries, sets a
\* stored term back or replaces a stored vote within its term (_save_meta,
\* _load_from_storage).
THEOREM VotesAreDurable == Spec => VoteIsDurable
  <1> DEFINE Keeps(n) == /\ disk'[n].term >= disk[n].term
                         /\ disk'[n].term = disk[n].term /\ disk[n].vote # None
                               => disk'[n].vote = disk[n].vote
             IInv == TypeOK /\ MemoryAgrees
  <1>1. Init => IInv
    BY TypeInit DEF Init, MemoryAgrees
  <1>2. IInv /\ [Next]_vars => IInv' /\ DiskAdvances
    BY TypeStep, MemoryStep DEF Remembers
  <1>3. IInv /\ IInv' /\ DiskAdvances => \A n \in Node : Keeps(n)
    <2> SUFFICES ASSUME IInv, IInv', DiskAdvances, NEW n \in Node
                 PROVE  Keeps(n)
      OBVIOUS
    <2>1. disk[n].term \in Nat /\ disk'[n].term \in Nat
      BY DEF TypeOK, Disk
    <2> QED
      BY <2>1 DEF DiskAdvances
  <1>4. IInv /\ [Next]_vars => IInv' /\ [\A n \in Node : Keeps(n)]_vars
    BY <1>2, <1>3
  <1> QED
    BY <1>1, <1>4, PTL DEF Spec, VoteIsDurable

-----------------------------------------------------------------------------
(* The calls of leaders.                                                   *)

\* m and r are calls of one leader in one term, with the same entries.
SameCall(m, r) ==
    /\ m.kind = r.kind /\ m.from = r.from /\ m.term = r.term
    /\ m.kind = "append" =>
          m.prev = r.prev /\ m.prevTerm = r.prevTerm /\ m.entries = r.entries

\* A call that m was made from: one there was, or one a leader makes of its present state.
Made(m) ==
    \/ \E r \in LeaderCalls : SameCall(m, r)
    \/ /\ UNCHANGED <<nodeVars, rep, leaderVars>>
       /\ \E n, p \in Node, b \in BOOLEAN :
             role[n] = "leader" /\ SameCall(m, ReplicateRequest(n, p, b))

\* A request that nobody waits for is the request it was.
LEMMA StrayKeeps ==
    ASSUME NEW m \in Rpc, IsRequest(m)
    PROVE  Stray(m).kind = m.kind /\ SameCall(Stray(m), m)
  <1>1. CASE m.kind = "vote"
    <2>1. m \in VoteRequest
      BY <1>1, RpcKinds
    <2> QED
      BY <1>1, <2>1 DEF Stray, SameCall, VoteRequest
  <1>2. CASE m.kind = "append"
    <2>1. m \in AppendRequest
      BY <1>2, RpcKinds
    <2> QED
      BY <1>2, <2>1 DEF Stray, SameCall, AppendRequest
  <1>3. CASE m.kind = "snapshot"
    <2>1. m \in SnapshotRequest
      BY <1>3, RpcKinds
    <2> QED
      BY <1>3, <2>1 DEF Stray, SameCall, SnapshotRequest
  <1> QED
    BY <1>1, <1>2, <1>3 DEF IsRequest

\* So is one whose snapshot is read again.
LEMMA ReloadKeeps ==
    ASSUME NEW m \in SnapshotRequest, NEW x
    PROVE  [m EXCEPT !.snap = x].kind = "snapshot" /\ SameCall([m EXCEPT !.snap = x], m)
  BY DEF SameCall, SnapshotRequest

\* What a leader sends bears its name and its term.
LEMMA RequestFrom ==
    ASSUME NEW n, NEW p, NEW b
    PROVE  /\ ReplicateRequest(n, p, b).from = n
           /\ ReplicateRequest(n, p, b).term = term[n]
           /\ ReplicateRequest(n, p, b).kind \in {"append", "snapshot"}
  BY DEF ReplicateRequest

\* The actions that change nothing of any node's term, vote or role grant no vote either.
LEMMA QuietCalls ==
    ASSUME TypeOK,
           \/ \E n, p \in Node : RequestVote(n, p) \/ Replicate(n, p)
           \/ \E n \in Node : ReadBegin(n)
           \/ \E m \in rpcs : LoadSnapshot(m) \/ Lose(m) \/ GiveUp(m)
           \/ \E q \in pending : ProposeSucceeds(q) \/ ProposeFails(q)
           \/ \E m \in read.todo : ReadAsk(m)
    PROVE  UNCHANGED nodeVars /\ \A m \in rpcs' : m.kind = "voteReply" => m \in rpcs
  <1>1. UNCHANGED nodeVars
    BY Zenon DEF RequestVote, Replicate, ReadBegin, LoadSnapshot, Lose, GiveUp,
           ProposeSucceeds, ProposeFails, ReadAsk
  <1>2. \A m \in rpcs' : m.kind = "voteReply" => m \in rpcs
    <2>1. ASSUME NEW n \in Node, NEW p \in Node, RequestVote(n, p) \/ Replicate(n, p)
          PROVE  <1>2!:
      <3>1. ReplicateRequest(n, p, FALSE).kind # "voteReply"
        BY RequestFrom, Zenon
      <3>2. PICK m : m.kind # "voteReply" /\ rpcs' = rpcs \cup {m}
        <4>1. CASE RequestVote(n, p)
          BY <4>1, Zenon DEF RequestVote, Send
        <4>2. CASE Replicate(n, p)
          BY <3>1, <4>2, Zenon DEF Replicate, Send
        <4> QED
          BY <2>1, <4>1, <4>2, Zenon
      <3> QED
        BY <3>2
    <2>2. ASSUME NEW m \in rpcs, LoadSnapshot(m) \/ Lose(m) \/ GiveUp(m)
          PROVE  <1>2!:
      <3>1. CASE LoadSnapshot(m)
        <4>1. m \in SnapshotRequest
          BY <3>1, RpcKinds DEF TypeOK, LoadSnapshot
        <4> QED
          BY <3>1, <4>1, ReloadKeeps, ZenonT(40) DEF LoadSnapshot
      <3>2. CASE GiveUp(m)
        <4>1. m \in Rpc /\ IsRequest(m)
          BY <3>2 DEF TypeOK, GiveUp
        <4>2. Stray(m).kind # "voteReply"
          BY <4>1, StrayKeeps DEF IsRequest
        <4> QED
          BY <3>2, <4>2 DEF GiveUp
      <3> QED
        BY <2>2, <3>1, <3>2 DEF Lose
    <2>3. ASSUME NEW m \in read.todo, ReadAsk(m)
          PROVE  <1>2!:
      <3>1. m \in AppendRequest \/ m \in SnapshotRequest
        BY DEF TypeOK, Read
      <3>2. m.kind # "voteReply" /\ [m EXCEPT !.snap = rep[m.from].snap].kind # "voteReply"
        BY <3>1 DEF AppendRequest, SnapshotRequest
      <3> QED
        BY <2>3, <3>2, Zenon DEF ReadAsk, Send
    <2> QED
      BY <2>1, <2>2, <2>3, Zenon DEF ReadBegin, ProposeSucceeds, ProposeFails
  <1> QED
    BY <1>1, <1>2

\* A step that makes no call of a leader.
LEMMA FewerCalls ==
    ASSUME \A m \in rpcs' : m.kind \in {"append", "snapshot"} => m \in rpcs,
           read'.todo \subseteq read.todo
    PROVE  \A m \in LeaderCalls' : Made(m)
  BY DEF LeaderCalls, Made, SameCall

\* Every call of a leader in flight was there before the step, or is made by a leader of the
\* state it copied under its lock.
LEMMA CallsStep ==
    ASSUME TypeOK, [Next]_vars
    PROVE  \A m \in LeaderCalls' : Made(m)
  <1>1. read \in Read
    BY DEF TypeOK
  <1>2. CASE UNCHANGED <<rpcs, read>>
    BY <1>2, FewerCalls
  <1>3. ASSUME NEW m \in rpcs, HandleVote(m) \/ HandleAppend(m) \/ HandleSnapshot(m)
        PROVE  \A r \in LeaderCalls' : Made(r)
    <2>1. PICK r : r.kind \notin {"append", "snapshot"} /\ Answer(m, r)
      <3>1. \A t, b : VoteAnswer(m, t, b).kind \notin {"append", "snapshot"}
        BY DEF VoteAnswer
      <3>2. \A t, b, i : ReplicateAnswer(m, t, b, i).kind \notin {"append", "snapshot"}
        BY DEF ReplicateAnswer
      <3> QED
        BY <1>3, <3>1, <3>2, Zenon DEF HandleVote, HandleAppend, HandleSnapshot
    <2>2. read' = read
      BY <1>3, Zenon DEF HandleVote, HandleAppend, HandleSnapshot, clientVars
    <2> QED
      BY <2>1, <2>2, FewerCalls DEF Answer
  <1>4. ASSUME NEW m \in rpcs, HandleVoteReply(m) \/ HandleReply(m) \/ Lose(m)
        PROVE  \A r \in LeaderCalls' : Made(r)
    <2>1. rpcs' = rpcs \ {m}
      BY <1>4, Zenon DEF HandleVoteReply, HandleReply, Lose
    <2>2. read'.todo = read.todo
      <3>1. \A a : [read EXCEPT !.acks = a].todo = read.todo
        BY <1>1 DEF Read
      <3> QED
        BY <1>4, <3>1, Zenon DEF HandleVoteReply, HandleReply, Lose, clientVars
    <2> QED
      BY <2>1, <2>2, FewerCalls
  <1>5. ASSUME NEW n \in Node, NEW p \in Node, RequestVote(n, p) \/ Replicate(n, p)
        PROVE  \A r \in LeaderCalls' : Made(r)
    <2>1. read' = read
      BY <1>5, Zenon DEF RequestVote, Replicate, clientVars
    <2>2. CASE RequestVote(n, p)
      <3>1. PICK r : r.kind = "vote" /\ rpcs' = rpcs \cup {r}
        BY <2>2, Zenon DEF RequestVote, Send
      <3> QED
        BY <2>1, <3>1, FewerCalls
    <2>3. CASE Replicate(n, p)
      <3>1. /\ rpcs' = rpcs \cup {ReplicateRequest(n, p, FALSE)} /\ role[n] = "leader"
            /\ UNCHANGED <<nodeVars, rep, leaderVars>>
        BY <2>3, Zenon DEF Replicate, Send
      <3>2. Made(ReplicateRequest(n, p, FALSE))
        BY <3>1, Zenon DEF Made, SameCall
      <3>3. \A r \in LeaderCalls : Made(r)
        BY DEF Made, SameCall
      <3> QED
        BY <2>1, <3>1, <3>2, <3>3, Zenon DEF LeaderCalls
    <2> QED
      BY <1>5, <2>2, <2>3
  <1>6. ASSUME NEW n \in Node, ReadBegin(n)
        PROVE  \A r \in LeaderCalls' : Made(r)
    <2>1. /\ rpcs' = rpcs /\ role[n] = "leader" /\ UNCHANGED <<nodeVars, rep, leaderVars>>
          /\ read'.todo = {ReplicateRequest(n, p, TRUE) : p \in Peers(n)}
      BY <1>6 DEF ReadBegin
    <2>2. \A p \in Peers(n) : Made(ReplicateRequest(n, p, TRUE))
      BY <2>1, Zenon DEF Made, SameCall, Peers
    <2>3. \A r \in LeaderCalls : Made(r)
      BY DEF Made, SameCall
    <2> QED
      BY <2>1, <2>2, <2>3, ZenonT(40) DEF LeaderCalls
  <1>7. ASSUME NEW m \in rpcs, LoadSnapshot(m) \/ GiveUp(m)
        PROVE  \A r \in LeaderCalls' : Made(r)
    <2>1. read' = read
      BY <1>7, Zenon DEF LoadSnapshot, GiveUp, clientVars
    <2>2. PICK r : SameCall(r, m) /\ rpcs' = (rpcs \ {m}) \cup {r}
      <3>1. CASE LoadSnapshot(m)
        <4>1. m \in SnapshotRequest
          BY <3>1, RpcKinds DEF TypeOK, LoadSnapshot
        <4> QED
          BY <3>1, <4>1, ReloadKeeps, Zenon DEF LoadSnapshot
      <3>2. CASE GiveUp(m)
        <4>1. m \in Rpc /\ IsRequest(m)
          BY <3>2 DEF TypeOK, GiveUp
        <4> QED
          BY <3>2, <4>1, StrayKeeps DEF GiveUp
      <3> QED
        BY <1>7, <3>1, <3>2, Zenon
    <2>3. r.kind \in {"append", "snapshot"} => Made(r)
      BY <2>2, Zenon DEF Made, LeaderCalls, SameCall
    <2>4. \A c \in LeaderCalls : Made(c)
      BY DEF Made, SameCall
    <2> QED
      BY <2>1, <2>2, <2>3, <2>4 DEF LeaderCalls
  <1>8. ASSUME NEW m \in read.todo, ReadAsk(m)
        PROVE  \A r \in LeaderCalls' : Made(r)
    <2>1. m \in AppendRequest \/ m \in SnapshotRequest
      BY <1>1 DEF Read
    <2>2. PICK r : SameCall(r, m) /\ rpcs' = rpcs \cup {r}
      <3>1. SameCall(m, m)
        BY DEF SameCall
      <3>2. m.kind = "snapshot" => SameCall([m EXCEPT !.snap = rep[m.from].snap], m)
        BY <2>1, ReloadKeeps, Zenon DEF AppendRequest
      <3> QED
        BY <1>8, <3>1, <3>2 DEF ReadAsk, Send
    <2>3. read'.todo \subseteq read.todo
      BY <1>1, <1>8 DEF ReadAsk, Read
    <2>4. m \in LeaderCalls
      BY <2>1 DEF LeaderCalls, AppendRequest, SnapshotRequest
    <2>5. Made(r)
      BY <2>2, <2>4 DEF Made
    <2>6. \A c \in LeaderCalls : Made(c)
      BY DEF Made, SameCall
    <2> QED
      BY <2>2, <2>3, <2>5, <2>6 DEF LeaderCalls
  <1>9. CASE ReadEnd
    <2>1. \A i : [read EXCEPT !.pc = "answered", !.index = i].todo = read.todo
      BY <1>1 DEF Read
    <2>2. [NoRead EXCEPT !.pc = "failed"].todo = {}
      BY DEF NoRead
    <2>3. rpcs' = rpcs /\ read'.todo \subseteq read.todo
      BY <1>9, <2>1, <2>2, Zenon DEF ReadEnd
    <2> QED
      BY <2>3, FewerCalls
  <1>10. ASSUME NEW n \in Node, NEW s, RestartWith(n, s),
                NEW calls \in SUBSET rpcs, rpcs' = Orphaned(calls, n)
         PROVE  \A r \in LeaderCalls' : Made(r)
    <2>1. read'.todo \subseteq read.todo
      <3>1. [NoRead EXCEPT !.pc = "failed"].todo = {}
        BY DEF NoRead
      <3> QED
        BY <1>10, <3>1, Zenon DEF RestartWith
    <2>2. \A r \in calls : IsRequest(r) /\ Stray(r).kind \in {"append", "snapshot"} => Made(Stray(r))
      BY StrayKeeps DEF Made, LeaderCalls, TypeOK
    <2>3. \A c \in LeaderCalls : Made(c)
      BY DEF Made, SameCall
    <2> QED
      BY <1>10, <2>1, <2>2, <2>3 DEF LeaderCalls, Orphaned
  <1>11. ASSUME NEW m \in rpcs, CrashInAppend(m)
         PROVE  \A r \in LeaderCalls' : Made(r)
    <2>1. PICK s : RestartWith(m.to, s)
      BY <1>11 DEF CrashInAppend
    <2>2. rpcs \ {m} \in SUBSET rpcs /\ rpcs' = Orphaned(rpcs \ {m}, m.to) /\ m.to \in Node
      BY <1>11, RpcKinds DEF CrashInAppend, TypeOK
    <2> QED
      BY <1>10, <2>1, <2>2
  <1>12. ASSUME \/ \E n \in Node : StartElection(n)
                \/ \E n \in Node, v \in Value : Propose(n, v)
                \/ \E q \in pending : ProposeSucceeds(q) \/ ProposeFails(q)
                \/ UNCHANGED vars
         PROVE  UNCHANGED <<rpcs, read>>
    BY <1>12, Zenon DEF StartElection, Propose, ProposeSucceeds, ProposeFails, vars, clientVars
  <1>13. rpcs \in SUBSET rpcs
    OBVIOUS
  <1> QED
    BY <1>2, <1>3, <1>4, <1>5, <1>6, <1>7, <1>8, <1>9, <1>10, <1>11, <1>12, <1>13, ZenonT(40)
    DEF Next, Restart

-----------------------------------------------------------------------------
(* The votes cast, when a vote reply is read in the term it was asked in.  *)

\* A vote cast names nodes and a term.
LEMMA VotesCastType ==
    ASSUME TypeOK
    PROVE  VotesCast \subseteq [voter : Node, term : Nat, for : Node]
  <1>1. \A m \in rpcs : m.to \in Node /\ m.from \in Node /\ m.term \in Nat
    BY RpcKinds DEF TypeOK
  <1>2. \A n \in Node : term[n] \in Nat
    BY DEF TypeOK
  <1> QED
    BY <1>1, <1>2 DEF VotesCast

\* A step casts no vote, or one that its voter's storage has then and that it did not rule
\* out before.
OneNewVote ==
    \/ VotesCast' \subseteq VotesCast
    \/ \E v \in Node, t \in Nat, n \in Node :
          /\ VotesCast' \subseteq VotesCast \cup {[voter |-> v, term |-> t, for |-> n]}
          /\ Firm(v, t, n)'
          /\ \A x \in Node : Firm(v, t, x) => x = n

\* No vote is granted, and no candidate gains one or changes its term.
NoVotes ==
    /\ \A m \in rpcs' : m.kind = "voteReply" /\ m.granted => m \in rpcs
    /\ \A n \in Node : role'[n] = "candidate" =>
          role[n] = "candidate" /\ term'[n] = term[n] /\ votes'[n] \subseteq votes[n]

\* Then the votes cast are among those there were.
LEMMA NoNewVotes ==
    ASSUME NoVotes
    PROVE  OneNewVote
  BY DEF NoVotes, VotesCast, OneNewVote

\* request_vote grants one vote, and only from a node whose storage rules out no vote for
\* that candidate in that term.
LEMMA HandleVoteVotes ==
    ASSUME TypeOK, MemoryAgrees, NEW m \in rpcs, HandleVote(m)
    PROVE  OneNewVote
  <1> DEFINE n == m.to
  <1>0. n \in Node /\ m.from \in Node /\ m.term \in Nat
    BY HandleVoteFacts
  <1>1. \A k \in Node : disk[k].term \in Nat /\ term[k] \in Nat
    BY TermsAreNumbers
  <1>2. \A k \in Node : role'[k] = "candidate" =>
            role[k] = "candidate" /\ term'[k] = term[k] /\ votes'[k] \subseteq votes[k]
    BY <1>1, HandleVoteFacts DEF Larger
  <1>3. CASE Grants(m)
    <2>1. Firm(n, m.term, m.from)'
      BY <1>3, HandleVoteFacts DEF Firm
    <2>2. \A x \in Node : Firm(n, m.term, x) => x = m.from
      <3>1. /\ disk[n].term <= term[n]
            /\ disk[n].term = term[n] => vote[n] = disk[n].vote
        BY <1>0 DEF MemoryAgrees
      <3> QED
        BY <1>0, <1>1, <1>3, <3>1, NodeAssumption DEF Firm, Grants
    <2>3. \A r \in rpcs' : r.kind = "voteReply" /\ r.granted =>
              r \in rpcs \/ (r.to = n /\ r.term = m.term /\ r.from = m.from)
      BY HandleVoteFacts
    <2>4. VotesCast' \subseteq VotesCast \cup {[voter |-> n, term |-> m.term, for |-> m.from]}
      BY <1>2, <2>3 DEF VotesCast
    <2> QED
      BY <1>0, <2>1, <2>2, <2>4 DEF OneNewVote, Firm
  <1>4. CASE ~Grants(m)
    BY <1>2, <1>4, HandleVoteFacts, NoNewVotes DEF NoVotes
  <1> QED
    BY <1>3, <1>4

\* _start_election casts the node's own vote, in a term its storage has not reached.
LEMMA StartElectionVotes ==
    ASSUME TypeOK, MemoryAgrees, NEW n \in Node, StartElection(n)
    PROVE  OneNewVote
  <1>1. \A k \in Node : disk[k].term \in Nat /\ term[k] \in Nat
    BY TermsAreNumbers
  <1>2. PICK t \in Nat : t = term[n] + 1
    BY <1>1
  <1>3. \A x \in Node : ~Firm(n, t, x)
    BY <1>1, <1>2 DEF Firm, MemoryAgrees
  <1>4. Firm(n, t, n)'
    BY <1>2, StartElectionFacts DEF Firm
  <1>5. CASE role'[n] = "leader"
    BY <1>5, StartElectionFacts, NoNewVotes DEF NoVotes
  <1>6. CASE role'[n] = "candidate" /\ votes'[n] = {n}
    <2>1. VotesCast' \subseteq VotesCast \cup {[voter |-> n, term |-> t, for |-> n]}
      BY <1>2, <1>6, StartElectionFacts DEF VotesCast
    <2> QED
      BY <1>3, <1>4, <2>1 DEF OneNewVote, Firm
  <1> QED
    BY <1>5, <1>6, StartElectionFacts

\* The votes a candidate has, with that of a reply of its term, are votes cast.
LEMMA VotesIn ==
    ASSUME TypeOK, NEW m \in rpcs, m.kind = "voteReply", m.granted,
           m.term = term[m.from], role[m.from] = "candidate",
           NEW v \in votes[m.from] \cup {m.to}
    PROVE  [voter |-> v, term |-> term[m.from], for |-> m.from] \in VotesCast
  <1> DEFINE n == m.from
  <1>1. n \in Node
    BY RpcKinds DEF TypeOK
  <1>2. CASE v \in votes[n]
    <2>1. v \in Node
      BY <1>1, <1>2 DEF TypeOK
    <2>2. <<n, v>> \in {y \in Node \X Node : role[y[1]] = "candidate" /\ y[2] \in votes[y[1]]}
      BY <1>1, <1>2, <2>1
    <2>3. <<n, v>>[1] = n /\ <<n, v>>[2] = v
      OBVIOUS
    <2> QED
      BY <2>2, <2>3, ZenonT(40) DEF VotesCast
  <1>3. CASE v = m.to
    BY <1>3, Zenon DEF VotesCast
  <1> QED
    BY <1>2, <1>3

\* A vote reply brings no vote that was not cast all along.
LEMMA HandleVoteReplyVotes ==
    ASSUME ~LateVotes, TypeOK, NEW m \in rpcs, HandleVoteReply(m)
    PROVE  VotesCast' \subseteq VotesCast
  <1> DEFINE n == m.from
  <1>1. m \in VoteReply /\ m.kind = "voteReply"
    BY RpcKinds, ZenonT(40) DEF TypeOK, HandleVoteReply
  <1>2. n \in Node /\ m.to \in Node /\ m.rterm \in Nat /\ m.term \in Nat /\ term[n] \in Nat
    BY <1>1 DEF VoteReply, TypeOK
  <1>3. rpcs' = rpcs \ {m} /\ (m.term = term[n] \/ m.rterm > term[n])
    BY ZenonT(40) DEF HandleVoteReply
  <1>4. CASE NoVotes
    BY <1>4 DEF NoVotes, VotesCast
  <1>5. CASE UNCHANGED nodeVars
    BY <1>3, <1>4, <1>5 DEF NoVotes, nodeVars
  <1>6. CASE /\ role' = [role EXCEPT ![n] = "follower"] \/ role' = [role EXCEPT ![n] = "leader"]
             /\ \A k \in Node : k # n => term'[k] = term[k] /\ votes'[k] = votes[k]
    BY <1>2, <1>3, <1>4, <1>6 DEF NoVotes, TypeOK
  <1>7. CASE /\ m.rterm <= term[n] /\ role[n] = "candidate" /\ m.granted
             /\ votes' = [votes EXCEPT ![n] = votes[n] \cup {m.to}] /\ UNCHANGED <<term, role>>
    <2>1. m.term = term[n]
      BY <1>2, <1>3, <1>7
    <2> SUFFICES ASSUME NEW c \in VotesCast'
                 PROVE  c \in VotesCast
      OBVIOUS
    <2>2. CASE \E r \in rpcs' : /\ r.kind = "voteReply" /\ r.granted
                                /\ c = [voter |-> r.to, term |-> r.term, for |-> r.from]
      BY <1>3, <2>2, Zenon DEF VotesCast
    <2>3. CASE \E x \in Node \X Node :
                   /\ role'[x[1]] = "candidate" /\ x[2] \in votes'[x[1]]
                   /\ c = [voter |-> x[2], term |-> term'[x[1]], for |-> x[1]]
      <3>1. PICK x \in Node \X Node :
                   /\ role'[x[1]] = "candidate" /\ x[2] \in votes'[x[1]]
                   /\ c = [voter |-> x[2], term |-> term'[x[1]], for |-> x[1]]
        BY <2>3
      <3>2. CASE x[1] = n
        <4>1. x[2] \in votes[n] \cup {m.to}
          BY <1>2, <1>7, <3>1, <3>2 DEF TypeOK
        <4> QED
          BY <1>1, <1>7, <2>1, <3>1, <3>2, <4>1, VotesIn
      <3>3. CASE x[1] # n
        BY <1>7, <3>1, <3>3, ZenonT(40) DEF VotesCast, TypeOK
      <3> QED
        BY <3>2, <3>3
    <2> QED
      BY <2>2, <2>3 DEF VotesCast
  <1>8. CASE StepDown(n, m.rterm) /\ votes' = [votes EXCEPT ![n] = {}]
    BY <1>2, <1>6, <1>8 DEF StepDown, TypeOK
  <1>9. CASE Lead(n, term[n], disk[n]) /\ term' = term
    <2>1. disk[n] \in Disk
      BY <1>2, ZenonT(40) DEF TypeOK
    <2>2. role' = [role EXCEPT ![n] = "leader"] /\ votes' = [votes EXCEPT ![n] = {}]
      BY <1>2, <1>9, <2>1, LeadFacts
    <2> QED
      BY <1>2, <1>6, <1>9, <2>2 DEF TypeOK
  <1> QED
    BY <1>5, <1>7, <1>8, <1>9, Zenon DEF HandleVoteReply

\* Every step casts one vote at most.
LEMMA VotesStep ==
    ASSUME ~LateVotes, TypeOK, MemoryAgrees, [Next]_vars
    PROVE  OneNewVote
  <1>1. \A m \in rpcs : m.from \in Node /\ m.to \in Node
    BY RpcKinds, Zenon DEF TypeOK
  <1>2. ASSUME \A m \in rpcs' : m.kind = "voteReply" /\ m.granted => m \in rpcs,
               UNCHANGED nodeVars
        PROVE  OneNewVote
    BY <1>2, NoNewVotes DEF NoVotes, nodeVars
  <1>3. ASSUME \A m \in rpcs' : m.kind = "voteReply" /\ m.granted => m \in rpcs,
               NEW n \in Node, role' = [role EXCEPT ![n] = "follower"],
               \A k \in Node : k # n => term'[k] = term[k] /\ votes'[k] \subseteq votes[k]
        PROVE  OneNewVote
    BY <1>3, NoNewVotes DEF NoVotes, TypeOK
  <1>4. CASE UNCHANGED vars
    BY <1>2, <1>4 DEF vars
  <1>5. ASSUME NEW m \in rpcs, HandleAppend(m) \/ HandleSnapshot(m)
        PROVE  OneNewVote
    <2>1. \A r \in rpcs' : r.kind = "voteReply" /\ r.granted => r \in rpcs
      BY <1>5 DEF HandleAppend, HandleSnapshot, Answer, ReplicateAnswer
    <2>2. CASE FollowLeader(m)
      <3>1. /\ role' = [role EXCEPT ![m.to] = "follower"]
            /\ \A k \in Node : k # m.to => term'[k] = term[k] /\ votes'[k] \subseteq votes[k]
        BY <2>2, <1>1 DEF FollowLeader, TypeOK
      <3> QED
        BY <1>1, <1>3, <2>1, <3>1, ZenonT(40)
    <2> QED
      BY <1>2, <1>5, <2>1, <2>2, ZenonT(40) DEF HandleAppend, HandleSnapshot
  <1>6. ASSUME NEW m \in rpcs, HandleReply(m)
        PROVE  OneNewVote
    <2>1. \A r \in rpcs' : r.kind = "voteReply" /\ r.granted => r \in rpcs
      BY <1>6 DEF HandleReply
    <2>2. CASE StepDown(m.from, m.rterm) /\ votes' = votes
      <3>1. /\ role' = [role EXCEPT ![m.from] = "follower"]
            /\ \A k \in Node : k # m.from => term'[k] = term[k] /\ votes'[k] \subseteq votes[k]
        BY <1>1, <2>2 DEF StepDown, TypeOK
      <3> QED
        BY <1>1, <1>3, <2>1, <3>1, ZenonT(40)
    <2> QED
      BY <1>2, <1>6, <2>1, <2>2, Zenon DEF HandleReply
  <1>7. ASSUME NEW n \in Node, NEW s, RestartWith(n, s),
               NEW calls \in SUBSET rpcs, rpcs' = Orphaned(calls, n)
        PROVE  OneNewVote
    <2>1. \A m \in calls : IsRequest(m) => Stray(m).kind # "voteReply"
      BY StrayKeeps DEF IsRequest, TypeOK
    <2>2. \A m \in rpcs' : m.kind = "voteReply" => m \in rpcs
      BY <1>7, <2>1 DEF Orphaned
    <2>3. /\ role' = [role EXCEPT ![n] = "follower"]
          /\ \A k \in Node : k # n => term'[k] = term[k] /\ votes'[k] \subseteq votes[k]
      BY <1>7 DEF RestartWith, TypeOK
    <2> QED
      BY <1>3, <2>2, <2>3, ZenonT(40)
  <1>8. ASSUME NEW m \in rpcs, CrashInAppend(m)
        PROVE  OneNewVote
    <2>1. PICK s : RestartWith(m.to, s)
      BY <1>8 DEF CrashInAppend
    <2>2. rpcs \ {m} \in SUBSET rpcs /\ rpcs' = Orphaned(rpcs \ {m}, m.to)
      BY <1>8 DEF CrashInAppend
    <2> QED
      BY <1>1, <1>7, <2>1, <2>2
  <1>9. ASSUME (\E n \in Node, v \in Value : Propose(n, v)) \/ ReadEnd
        PROVE  OneNewVote
    <2>1. UNCHANGED nodeVars /\ rpcs' = rpcs
      BY <1>9, ZenonT(40) DEF Propose, ReadEnd
    <2> QED
      BY <1>2, <2>1
  <1>10. ASSUME \/ \E n, p \in Node : RequestVote(n, p) \/ Replicate(n, p)
                \/ \E n \in Node : ReadBegin(n)
                \/ \E m \in rpcs : LoadSnapshot(m) \/ Lose(m) \/ GiveUp(m)
                \/ \E q \in pending : ProposeSucceeds(q) \/ ProposeFails(q)
                \/ \E m \in read.todo : ReadAsk(m)
         PROVE  OneNewVote
    BY <1>2, <1>10, QuietCalls
  <1> QED
    BY <1>4, <1>5, <1>6, <1>7, <1>8, <1>9, <1>10, HandleVoteVotes, StartElectionVotes,
       HandleVoteReplyVotes, ZenonT(40) DEF Next, Restart, OneNewVote

-----------------------------------------------------------------------------
(* What lasts: elections, votes, and what the calls carry.                 *)

\* Once elected, elected for good: the storages advance, and no voter whose storage is firm
\* for n in the term casts a vote for another.
LEMMA ElectedStays ==
    ASSUME TypeOK, TypeOK', MemoryAgrees, Remembers, OneNewVote,
           NEW t \in Nat, NEW n \in Node, Elected(t, n)
    PROVE  Elected(t, n)'
  <1>1. DiskAdvances /\ NewCandidates
    BY DEF Remembers
  <1>2. PICK Q \in Quorum : Backs(Q, t, n)
    BY DEF Elected
  <1>3. \A v \in Q : Firm(v, t, n)'
    BY <1>1, <1>2, FirmStays DEF Backs, Quorum
  <1>4. \A c \in VotesCast' : c.voter \in Q /\ c.term = t => c.for = n
    <2>1. \A c \in VotesCast : c.voter \in Q /\ c.term = t => c.for = n
      BY <1>2 DEF Backs
    <2>2. ASSUME NEW v \in Node, NEW u \in Nat, NEW k \in Node,
                 VotesCast' \subseteq VotesCast \cup {[voter |-> v, term |-> u, for |-> k]},
                 \A x \in Node : Firm(v, u, x) => x = k
          PROVE  <1>4
      BY <1>2, <2>1, <2>2 DEF Backs
    <2> QED
      BY <2>1, <2>2 DEF OneNewVote
  <1>5. Backs(Q, t, n)'
    BY <1>3, <1>4 DEF Backs, Firm
  <1>6. /\ disk[n].term \in Nat /\ disk'[n].term \in Nat /\ term[n] \in Nat /\ term'[n] \in Nat
        /\ disk[n].term <= term[n] /\ disk[n].term >= t
    BY DEF TypeOK, Disk, MemoryAgrees, Elected
  <1>7. disk'[n].term >= t
    BY <1>1, <1>6 DEF DiskAdvances
  <1>8. role'[n] = "candidate" => term'[n] # t
    <2>1. role[n] = "candidate" => term[n] # t
      BY DEF Elected
    <2>2. role'[n] = "candidate" =>
              (role[n] = "candidate" /\ term'[n] = term[n]) \/ term'[n] > term[n]
      BY <1>1 DEF NewCandidates
    <2> QED
      BY <1>6, <2>1, <2>2
  <1>9. Q \in Quorum'
    BY DEF Quorum, Majority
  <1> QED
    BY <1>5, <1>7, <1>8, <1>9 DEF Elected

\* The votes cast stay in the voters' storages, and one a term.
LEMMA VotesKeep ==
    ASSUME TypeOK, TypeOK', VotesAreFirm, OneVotePerTerm, DiskAdvances, OneNewVote
    PROVE  VotesAreFirm' /\ OneVotePerTerm'
  <1>1. \A c \in VotesCast : c.voter \in Node /\ c.term \in Nat /\ c.for \in Node
    BY VotesCastType
  <1>2. \A c \in VotesCast : Firm(c.voter, c.term, c.for)'
    BY <1>1, FirmStays DEF VotesAreFirm
  <1>3. CASE VotesCast' \subseteq VotesCast
    BY <1>2, <1>3 DEF VotesAreFirm, OneVotePerTerm
  <1>4. ASSUME NEW v \in Node, NEW t \in Nat, NEW n \in Node,
               VotesCast' \subseteq VotesCast \cup {[voter |-> v, term |-> t, for |-> n]},
               Firm(v, t, n)', \A x \in Node : Firm(v, t, x) => x = n
        PROVE  VotesAreFirm' /\ OneVotePerTerm'
    <2>1. \A c \in VotesCast : c.voter = v /\ c.term = t => c.for = n
      BY <1>1, <1>4 DEF VotesAreFirm
    <2>2. \A c \in VotesCast' :
              c \in VotesCast \/ (c.voter = v /\ c.term = t /\ c.for = n)
      BY <1>4
    <2>3. VotesAreFirm'
      BY <1>2, <1>4, <2>2 DEF VotesAreFirm, Firm
    <2>4. OneVotePerTerm'
      BY <2>1, <2>2 DEF OneVotePerTerm
    <2> QED
      BY <2>3, <2>4
  <1> QED
    BY <1>3, <1>4 DEF OneNewVote

\* The calls in flight carry logs of H.
LEMMA CallsCarry ==
    ASSUME TypeOK, NEW H, History(H), [Next]_vars
    PROVE  \A m \in LeaderCalls' : m.kind = "append" /\ \E L \in H : Carries(m, L)
  <1> SUFFICES ASSUME NEW m \in LeaderCalls'
               PROVE  m.kind = "append" /\ \E L \in H : Carries(m, L)
    OBVIOUS
  <1>1. \A r, L : SameCall(m, r) /\ r.kind = "append" /\ Carries(r, L)
                  => m.kind = "append" /\ Carries(m, L)
    BY Zenon DEF SameCall, Carries
  <1>2. CASE \E r \in LeaderCalls : SameCall(m, r)
    BY <1>1, <1>2, Zenon DEF History
  <1>3. CASE \E n, p \in Node, b \in BOOLEAN : SameCall(m, ReplicateRequest(n, p, b))
    <2>1. PICK n \in Node, p \in Node, b \in BOOLEAN : SameCall(m, ReplicateRequest(n, p, b))
      BY <1>3
    <2>2. rep[n].snap = EmptySnapshot /\ rep[n].log \in H
      BY Zenon DEF History
    <2> QED
      BY <1>1, <2>1, <2>2, RequestCarries, Zenon
  <1> QED
    BY <1>2, <1>3, CallsStep, Zenon DEF Made

=============================================================================
