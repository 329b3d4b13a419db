--------------------------- MODULE RaftNodeTypes ----------------------------
(* Type correctness of RaftNode, for every group, every set of commands      *)
(* and every bound; and what its operators on sequences and logs return.     *)
EXTENDS RaftNode, TLAPS

\* A leaf that names no prover is tried with these, in this order.
USE SMTT(30), Z3T(30), ZenonT(40)

-----------------------------------------------------------------------------
(* The operators on a replica return replicas.                             *)

\* Elements, ends and pieces of a sequence.
LEMMA ElementType ==
    ASSUME NEW S, NEW q \in Seq(S), NEW i \in DOMAIN q
    PROVE  q[i] \in S
  OBVIOUS

\* Appending keeps the elements' type.
LEMMA AppendType ==
    ASSUME NEW S, NEW q \in Seq(S), NEW e \in S
    PROVE  Append(q, e) \in Seq(S)
  OBVIOUS

\* So does putting two sequences together, which keeps their elements in order.
LEMMA Concat ==
    ASSUME NEW S, NEW q \in Seq(S), NEW r \in Seq(S)
    PROVE  /\ q \o r \in Seq(S) /\ Len(q \o r) = Len(q) + Len(r)
           /\ \A i \in 1..Len(q) + Len(r) :
                 (q \o r)[i] = IF i <= Len(q) THEN q[i] ELSE r[i - Len(q)]
  OBVIOUS

\* Sequences of one length with the same elements are the same.
LEMMA SameSeq ==
    ASSUME NEW S, NEW q \in Seq(S), NEW r \in Seq(S), Len(q) = Len(r),
           \A i \in 1..Len(q) : q[i] = r[i]
    PROVE  q = r
  OBVIOUS

\* The indices of a replica are natural numbers.
LEMMA IndexType ==
    ASSUME NEW s \in Replica
    PROVE  /\ LastIndex(s) \in Nat
           /\ LastTerm(s) \in Nat
           /\ \A i \in Int : HasEntry(s, i) => EntryAt(s, i) \in Entry
  <1>1. s.log \in Seq(Entry) /\ s.snap.index \in Nat /\ s.snap.term \in Nat
    BY DEF Replica, Snapshot
  <1>2. \A k \in 1..Len(s.log) : s.log[k] \in Entry
    BY <1>1
  <1>7. \A e \in Entry : e.term \in Nat
    BY DEF Entry
  <1>3. LastIndex(s) \in Nat
    BY <1>1 DEF LastIndex
  <1>4. s.log # << >> => Len(s.log) \in 1..Len(s.log)
    BY <1>1
  <1>5. LastTerm(s) \in Nat
    BY <1>1, <1>2, <1>4, <1>7 DEF LastTerm
  <1>6. \A i \in Int : HasEntry(s, i) => EntryAt(s, i) \in Entry
    BY <1>2 DEF HasEntry, EntryAt
  <1> QED
    BY <1>3, <1>5, <1>6

\* A piece of a sequence that lies within it, or is empty, is one of the same
\* elements.
LEMMA PieceType ==
    ASSUME NEW S, NEW q \in Seq(S), NEW i \in Int, NEW j \in Int,
           i > j \/ (1 <= i /\ j <= Len(q))
    PROVE  SubSeq(q, i, j) \in Seq(S)
  <1>1. \A k \in i..j : q[k] \in S
    OBVIOUS
  <1> QED
    BY <1>1

\* _maybe_snapshot keeps the shape of a replica.
LEMMA MaybeSnapshotType ==
    ASSUME NEW s \in Replica
    PROVE  MaybeSnapshot(s) \in Replica
  <1> DEFINE i == s.applied - s.snap.index
             e == EntryAt(s, s.applied)
             cut == SubSeq(s.log, i + 1, Len(s.log))
  <1>1. CASE HasEntry(s, s.applied)
    <2>1. i \in 1..Len(s.log) /\ e \in Entry
      BY <1>1, IndexType DEF HasEntry, Replica, Snapshot
    <2>2. cut \in Seq(Entry)
      BY <2>1, PieceType DEF Replica, Snapshot
    <2>3. [index |-> s.applied, term |-> e.term, data |-> s.sm] \in Snapshot
      BY <2>1 DEF Replica, Snapshot, Entry
    <2> QED
      BY <2>2, <2>3, Zenon DEF MaybeSnapshot, Replica
  <1>2. CASE ~HasEntry(s, s.applied)
    BY <1>2 DEF MaybeSnapshot
  <1> QED
    BY <1>1, <1>2

\* _apply_committed_entries keeps the shape of a replica.
LEMMA ApplyToType ==
    ASSUME NEW s \in Replica, NEW c \in Nat
    PROVE  ApplyTo(s, c) \in Replica
  <1> DEFINE es == EntriesIn(s, s.applied + 1, c)
             a == [s EXCEPT !.commit = c, !.applied = Larger(@, c), !.sm = @ \o es]
  <1>1. es \in Seq(Entry)
    <2>1. s.snap.index \in Nat /\ s.applied \in Nat /\ s.log \in Seq(Entry)
      BY DEF Replica, Snapshot
    <2>2. \A x \in Int : Larger(x, 1) \in Int /\ 1 <= Larger(x, 1)
      BY DEF Larger
    <2>3. \A x \in Int : \A y \in Nat : Smaller(x, y) \in Int /\ Smaller(x, y) <= y
      BY DEF Smaller
    <2>4. PICK x \in Int, y \in Int : x = (s.applied + 1) - s.snap.index /\ y = c - s.snap.index
      BY <2>1
    <2>5. PICK i : i = Larger(x, 1)
      OBVIOUS
    <2>6. PICK j : j = Smaller(y, Len(s.log))
      OBVIOUS
    <2>7. i \in Int /\ 1 <= i /\ j \in Int /\ j <= Len(s.log)
      <3>1. Len(s.log) \in Nat
        BY <2>1
      <3> QED
        BY <2>2, <2>3, <2>5, <2>6, <3>1, Zenon
    <2>8. es = SubSeq(s.log, i, j)
      BY <2>4, <2>5, <2>6, Zenon DEF EntriesIn
    <2> QED
      BY <2>1, <2>7, <2>8, PieceType, Zenon
  <1>2. s.sm \o es \in Seq(Entry)
    BY <1>1, Concat DEF Replica
  <1>3. Larger(s.applied, c) \in Nat
    BY DEF Larger, Replica
  <1>4. a \in Replica
    BY <1>2, <1>3, Zenon DEF Replica
  <1> QED
    BY <1>4, MaybeSnapshotType DEF ApplyTo

\* _update_commit_index keeps the shape of a replica.
LEMMA UpdateCommitType ==
    ASSUME NEW n, NEW m, NEW s \in Replica, NEW t
    PROVE  UpdateCommit(n, m, s, t) \in Replica
  <1> DEFINE new == NewCommits(n, m, s, t)
  <1>1. CASE new = {}
    BY <1>1 DEF UpdateCommit
  <1>2. CASE new # {}
    <2> DEFINE c == CHOOSE d \in new : TRUE
    <2>1. c \in new
      BY <1>2
    <2>2. c \in Nat
      BY <2>1, IndexType DEF NewCommits, Replica
    <2> QED
      BY <1>2, <2>2, ApplyToType DEF UpdateCommit
  <1> QED
    BY <1>1, <1>2
\* The part of the log append_entries keeps is a part of the log.
LEMMA KeptLengthType ==
    ASSUME NEW s \in Replica, NEW m \in AppendRequest
    PROVE  KeptLength(s, m) \in 0..Len(s.log)
  <1>1. s.log \in Seq(Entry) /\ s.snap.index \in Nat /\ m.prev \in Nat /\ m.entries \in Seq(Entry)
    BY DEF Replica, Snapshot, AppendRequest
  <1>2. Len(s.log) \in Nat
    BY <1>1
  <1>3. CASE FirstConflict(s, m) = {}
    BY <1>2, <1>3 DEF KeptLength
  <1>4. CASE FirstConflict(s, m) # {}
    <2> DEFINE k == CHOOSE j \in FirstConflict(s, m) : TRUE
    <2>1. k \in FirstConflict(s, m)
      BY <1>4
    <2> HIDE DEF k
    <2>2. k \in DOMAIN m.entries /\ HasEntry(s, m.prev + k)
      BY <2>1 DEF FirstConflict, Conflicts
    <2>3. k \in Nat
      BY <1>1, <2>2
    <2>5. (m.prev + k) - s.snap.index \in 1..Len(s.log)
      BY <2>2 DEF HasEntry
    <2>6. \A a, b, c, d \in Nat : (b + a) - c \in 1..d => a + b - c - 1 \in 0..d
      OBVIOUS
    <2>4. k + m.prev - s.snap.index - 1 \in 0..Len(s.log)
      BY <1>1, <1>2, <2>3, <2>5, <2>6, Zenon
    <2> QED
      BY <1>4, <2>4 DEF KeptLength, k
  <1> QED
    BY <1>3, <1>4

\* What append_entries lacks of a request is a sequence of entries.
LEMMA MissingType ==
    ASSUME NEW s \in Replica, NEW m \in AppendRequest
    PROVE  Missing(s, m) \in Seq(Entry)
  <1>1. s.snap.index \in Nat /\ m.prev \in Nat /\ m.entries \in Seq(Entry)
    BY DEF Replica, Snapshot, AppendRequest
  <1>2. KeptLength(s, m) \in Nat
    BY KeptLengthType DEF Replica
  <1>3. PICK a \in Nat : a = Larger(s.snap.index + KeptLength(s, m) - m.prev, 0)
    BY <1>1, <1>2 DEF Larger
  <1>4. a + 1 \in Int /\ Len(m.entries) \in Int
        /\ (a + 1 > Len(m.entries) \/ (1 <= a + 1 /\ Len(m.entries) <= Len(m.entries)))
    BY <1>1
  <1>5. SubSeq(m.entries, a + 1, Len(m.entries)) \in Seq(Entry)
    BY <1>1, <1>4, PieceType, Zenon
  <1> QED
    BY <1>3, <1>5, Zenon DEF Missing

\* The entry loop of append_entries keeps the shape of a replica, wherever it
\* is cut short.
LEMMA MergeType ==
    ASSUME NEW s \in Replica, NEW m \in AppendRequest, NEW k \in 0..Len(Missing(s, m))
    PROVE  Merge(s, m, k) \in Replica
  <1> DEFINE kept == KeptLength(s, m)
  <1>1. s.log \in Seq(Entry) /\ s.snap.index \in Nat /\ s.commit \in Nat /\ s.applied \in Nat
    BY DEF Replica, Snapshot
  <1>2. kept \in 0..Len(s.log)
    BY KeptLengthType
  <1>3. SubSeq(s.log, 1, kept) \in Seq(Entry)
    BY <1>1, <1>2, PieceType
  <1>4. SubSeq(Missing(s, m), 1, k) \in Seq(Entry)
    BY MissingType, PieceType
  <1>5. SubSeq(s.log, 1, kept) \o SubSeq(Missing(s, m), 1, k) \in Seq(Entry)
    BY <1>3, <1>4, Concat
  <1>6. Smaller(s.commit, s.snap.index + kept) \in Nat
    BY <1>1, <1>2 DEF Smaller
  <1>7. \A c \in Nat : Smaller(s.applied, c) \in Nat
    BY <1>1 DEF Smaller
  <1> HIDE DEF kept
  <1> QED
    BY <1>1, <1>5, <1>6, <1>7, Zenon DEF Merge, Replica, kept

\* The whole loop keeps it.
LEMMA MergedType ==
    ASSUME NEW s \in Replica, NEW m \in AppendRequest
    PROVE  Merged(s, m) \in Replica
  <1>1. Len(Missing(s, m)) \in 0..Len(Missing(s, m))
    BY MissingType
  <1> QED
    BY <1>1, MergeType DEF Merged

\* install_snapshot makes a replica of a replica and a snapshot.
LEMMA InstalledType ==
    ASSUME NEW s \in Replica, NEW p \in Snapshot
    PROVE  Installed(s, p) \in Replica
  <1>1. s.log \in Seq(Entry) /\ s.snap.index \in Nat /\ s.commit \in Nat
        /\ p.index \in Nat /\ p.data \in Seq(Entry)
    BY DEF Replica, Snapshot
  <1>2. SubSeq(s.log, Larger(p.index - s.snap.index, 0) + 1, Len(s.log)) \in Seq(Entry)
    BY <1>1, PieceType DEF Larger
  <1>3. Larger(s.commit, p.index) \in Nat
    BY <1>1 DEF Larger
  <1> QED
    BY <1>1, <1>2, <1>3 DEF Installed, Replica

\* A reload makes a replica of what the storage holds.
LEMMA ReloadedType ==
    ASSUME NEW s \in Replica, NEW c \in Nat
    PROVE  Reloaded(s, c) \in Replica
  <1>1. s.snap.index \in Nat /\ s.snap.data \in Seq(Entry)
    BY DEF Replica, Snapshot
  <1>2. [s EXCEPT !.applied = s.snap.index, !.sm = s.snap.data] \in Replica
    BY <1>1, Zenon DEF Replica
  <1>3. Larger(Smaller(c, LastIndex(s)), s.snap.index) \in Nat
    BY <1>1, IndexType DEF Larger, Smaller
  <1> QED
    BY <1>2, <1>3, ApplyToType DEF Reloaded

\* Appending an entry keeps the shape of a replica.
LEMMA GrownType ==
    ASSUME NEW s \in Replica, NEW t \in Nat, NEW v \in Command
    PROVE  [s EXCEPT !.log = Append(@, [term |-> t, val |-> v])] \in Replica
  <1>1. [term |-> t, val |-> v] \in Entry
    BY DEF Entry
  <1>2. Append(s.log, [term |-> t, val |-> v]) \in Seq(Entry)
    BY <1>1, AppendType DEF Replica
  <1> QED
    BY <1>2, Zenon DEF Replica

-----------------------------------------------------------------------------
(* Calls.                                                                  *)

\* A call's kind tells its shape.
LEMMA RpcKinds ==
    ASSUME NEW m \in Rpc
    PROVE  /\ m.from \in Node /\ m.to \in Node /\ m.term \in Nat
           /\ m.kind = "vote" => m \in VoteRequest
           /\ m.kind = "append" => m \in AppendRequest
           /\ m.kind = "snapshot" => m \in SnapshotRequest
           /\ m.kind = "voteReply" => m \in VoteReply
           /\ m.kind = "reply" => m \in ReplicateReply
  BY DEF Rpc, VoteRequest, AppendRequest, SnapshotRequest, VoteReply, ReplicateReply

\* The orphaned calls of a dead process are calls.
LEMMA StrayType ==
    ASSUME NEW m \in Rpc, IsRequest(m)
    PROVE  Stray(m) \in Rpc
  <1>1. CASE m.kind = "vote"
    BY <1>1, RpcKinds, Zenon DEF Stray, Rpc, VoteRequest
  <1>2. CASE m.kind = "append"
    <2>1. m \in AppendRequest
      BY <1>2, RpcKinds
    <2>2. [m EXCEPT !.wait = FALSE, !.read = FALSE] \in AppendRequest
      BY <2>1, Zenon DEF AppendRequest
    <2> QED
      BY <1>2, <2>2 DEF Stray, Rpc
  <1>3. CASE m.kind = "snapshot"
    <2>1. m \in SnapshotRequest
      BY <1>3, RpcKinds
    <2>2. [m EXCEPT !.wait = FALSE, !.read = FALSE] \in SnapshotRequest
      BY <2>1, Zenon DEF SnapshotRequest
    <2> QED
      BY <1>3, <2>2 DEF Stray, Rpc
  <1> QED
    BY <1>1, <1>2, <1>3 DEF IsRequest

\* So are all the calls left in flight by a death.
LEMMA OrphanedType ==
    ASSUME NEW calls \in SUBSET Rpc, NEW n
    PROVE  Orphaned(calls, n) \subseteq Rpc
  BY StrayType DEF Orphaned

\* What a leader sends is a call.
LEMMA ReplicateRequestType ==
    ASSUME TypeOK, NEW n \in Node, NEW p \in Node, NEW r \in BOOLEAN
    PROVE  ReplicateRequest(n, p, r) \in AppendRequest \cup SnapshotRequest
  <1> DEFINE s == rep[n]
             prev == next[n][p] - 1
             base == s.snap.index
             pt == CASE HasEntry(s, prev) -> EntryAt(s, prev).term
                     [] prev = base -> s.snap.term
                     [] OTHER -> 0
             es == SubSeq(s.log, prev - base + 1, Len(s.log))
  <1>1. s \in Replica /\ s.snap \in Snapshot /\ s.log \in Seq(Entry) /\ s.commit \in Nat
    BY Zenon DEF TypeOK, Replica
  <1>2. base \in Nat /\ s.snap.term \in Nat
    BY <1>1 DEF Snapshot
  <1>3. next[n][p] \in Nat \ {0} /\ prev \in Nat /\ term[n] \in Nat
    BY DEF TypeOK
  <1>4. CASE base > 0 /\ next[n][p] <= base
    BY <1>1, <1>3, <1>4 DEF ReplicateRequest, SnapshotRequest
  <1>5. CASE ~(base > 0 /\ next[n][p] <= base)
    <2>1. es \in Seq(Entry)
      <3>1. prev - base + 1 \in Int /\ prev - base + 1 >= 1
        BY <1>2, <1>3, <1>5
      <3> QED
        BY <1>1, <3>1, PieceType
    <2>2. pt \in Nat
      <3>1. \A e \in Entry : e.term \in Nat
        BY DEF Entry
      <3>2. HasEntry(s, prev) => EntryAt(s, prev) \in Entry
        BY <1>1, <1>3, IndexType
      <3> QED
        BY <1>2, <3>1, <3>2
    <2> HIDE DEF pt, es, prev
    <2>3. [kind |-> "append", from |-> n, to |-> p, term |-> term[n], prev |-> prev,
           prevTerm |-> pt, entries |-> es, commit |-> s.commit, read |-> r, wait |-> TRUE]
              \in AppendRequest
      BY <1>1, <1>3, <2>1, <2>2 DEF AppendRequest
    <2> QED
      BY <1>5, <2>3 DEF ReplicateRequest, pt, es, prev
  <1> QED
    BY <1>4, <1>5

\* A handler's answer leaves calls in flight.
LEMMA AnswerType ==
    ASSUME rpcs \subseteq Rpc, NEW m, NEW r \in Rpc, Answer(m, r)
    PROVE  rpcs' \subseteq Rpc
  BY DEF Answer

-----------------------------------------------------------------------------
(* Type correctness.                                                       *)

\* A saved commit index leaves a storage of its shape.
LEMMA SaveCommitType ==
    ASSUME NEW d \in Disk, NEW s, NEW r \in Replica
    PROVE  SaveCommit(d, s, r) \in Disk
  BY DEF SaveCommit, Disk, Replica

\* A new leader's variables have their shapes.
LEMMA LeadType ==
    ASSUME TypeOK, NEW n \in Node, NEW t \in Nat, NEW d \in Disk, Lead(n, t, d)
    PROVE  /\ role' \in [Node -> {"follower", "candidate", "leader"}]
           /\ leader' \in [Node -> Node \cup {None}]
           /\ votes' \in [Node -> SUBSET Node]
           /\ rep' \in [Node -> Replica]
           /\ next' \in [Node -> [Node -> Nat \ {0}]]
           /\ match' \in [Node -> [Node -> Nat]]
           /\ disk' \in [Node -> Disk]
  <1> DEFINE zero == [p \in Node |-> 0]
             grown == [rep[n] EXCEPT !.log = Append(@, [term |-> t, val |-> Noop])]
             after == UpdateCommit(n, zero, grown, t)
  <1>1. rep[n] \in Replica
    BY DEF TypeOK
  <1>2. grown \in Replica
    BY <1>1, GrownType DEF Command
  <1>3. after \in Replica
    BY <1>2, UpdateCommitType
  <1>4. SaveCommit(d, rep[n], after) \in Disk
    BY <1>3, SaveCommitType
  <1>5. LastIndex(rep[n]) + 1 \in Nat \ {0}
    BY <1>1, IndexType
  <1> HIDE DEF after
  <1>6. rep' = [rep EXCEPT ![n] = after] /\ disk' = [disk EXCEPT ![n] = SaveCommit(d, rep[n], after)]
    BY DEF Lead, after
  <1>7. rep' \in [Node -> Replica] /\ disk' \in [Node -> Disk]
    BY <1>3, <1>4, <1>6 DEF TypeOK
  <1>8. next' \in [Node -> [Node -> Nat \ {0}]] /\ match' \in [Node -> [Node -> Nat]]
    BY <1>5 DEF TypeOK, Lead
  <1>9. /\ role' \in [Node -> {"follower", "candidate", "leader"}]
        /\ leader' \in [Node -> Node \cup {None}]
        /\ votes' \in [Node -> SUBSET Node]
    BY DEF TypeOK, Lead
  <1> QED
    BY <1>7, <1>8, <1>9

\* _start_election keeps the types.
LEMMA StartElectionType ==
    ASSUME TypeOK, NEW n \in Node, StartElection(n)
    PROVE  TypeOK'
  <1> DEFINE t == term[n] + 1
             d == SaveMeta(disk[n], t, n)
  <1>0. disk[n] \in Disk /\ t \in Nat
    BY DEF TypeOK
  <1>1. t \in Nat /\ d \in Disk
    BY <1>0, Zenon DEF Disk, SaveMeta
  <1>2. /\ term' \in [Node -> Nat] /\ vote' \in [Node -> Node \cup {None}]
        /\ rpcs' = rpcs /\ pending' = pending /\ acked' = acked /\ read' = read
        /\ elections' \in Nat /\ restarts' = restarts
    BY <1>1 DEF TypeOK, StartElection, clientVars
  <1>3. CASE Lead(n, t, d)
    BY <1>1, <1>2, <1>3, LeadType DEF TypeOK
  <1>4. CASE /\ role' = [role EXCEPT ![n] = "candidate"]
             /\ leader' = [leader EXCEPT ![n] = None]
             /\ votes' = [votes EXCEPT ![n] = {n}]
             /\ disk' = [disk EXCEPT ![n] = d]
             /\ UNCHANGED <<rep, leaderVars>>
    BY <1>1, <1>2, <1>4 DEF TypeOK, leaderVars
  <1> QED
    BY <1>3, <1>4 DEF StartElection

\* request_vote keeps the types.
LEMMA HandleVoteType ==
    ASSUME TypeOK, NEW m \in rpcs, HandleVote(m)
    PROVE  TypeOK'
  <1>1. m \in VoteRequest /\ m \in Rpc /\ m.kind = "vote"
    BY RpcKinds DEF TypeOK, HandleVote
  <1>2. m.from \in Node /\ m.to \in Node /\ m.term \in Nat /\ m.wait \in BOOLEAN
    BY <1>1 DEF VoteRequest
  <1>3. \A t \in Nat, g \in BOOLEAN : VoteAnswer(m, t, g) \in Rpc
    BY <1>2 DEF VoteAnswer, Rpc, VoteReply
  <1>4. Larger(term[m.to], m.term) \in Nat
    BY <1>2 DEF TypeOK, Larger
  <1>5. rpcs' \subseteq Rpc
    BY <1>3, <1>4, ZenonT(40) DEF TypeOK, HandleVote, Answer
  <1>6. term' \in [Node -> Nat] /\ role' \in [Node -> {"follower", "candidate", "leader"}]
        /\ leader' \in [Node -> Node \cup {None}] /\ votes' \in [Node -> SUBSET Node]
    BY <1>2, <1>4 DEF TypeOK, HandleVote
  <1>7. vote' \in [Node -> Node \cup {None}]
    BY <1>2 DEF TypeOK, HandleVote
  <1>8. disk' \in [Node -> Disk]
    <2>1. PICK v \in Node \cup {None}, b \in BOOLEAN :
              disk' = [disk EXCEPT ![m.to] =
                          IF b THEN SaveMeta(@, m.term, v) ELSE @]
      BY <1>2, Zenon DEF TypeOK, HandleVote
    <2>2. disk[m.to] \in Disk
      BY <1>2 DEF TypeOK
    <2>3. SaveMeta(disk[m.to], m.term, v) \in Disk
      BY <1>2, <2>2, ZenonT(40) DEF Disk, SaveMeta
    <2> QED
      BY <2>1, <2>2, <2>3, Zenon DEF TypeOK
  <1> QED
    BY <1>5, <1>6, <1>7, <1>8, ZenonT(40) DEF TypeOK, HandleVote, leaderVars, clientVars, budget

\* The answer to a vote request keeps the types.
LEMMA HandleVoteReplyType ==
    ASSUME TypeOK, NEW m \in rpcs, HandleVoteReply(m)
    PROVE  TypeOK'
  <1>1. m \in VoteReply
    BY RpcKinds DEF TypeOK, HandleVoteReply
  <1>2. m.from \in Node /\ m.to \in Node /\ m.rterm \in Nat
    BY <1>1 DEF VoteReply
  <1>3. rpcs' \subseteq Rpc
    BY DEF TypeOK, HandleVoteReply
  <1>4. pending' = pending /\ acked' = acked /\ read' = read
        /\ elections' = elections /\ restarts' = restarts
    BY DEF HandleVoteReply, clientVars, budget
  <1>5. CASE StepDown(m.from, m.rterm) /\ votes' = [votes EXCEPT ![m.from] = {}]
             /\ UNCHANGED <<rep, leaderVars, disk>>
    BY <1>2, <1>3, <1>4, <1>5 DEF TypeOK, StepDown, leaderVars
  <1>6. CASE UNCHANGED <<nodeVars, rep, leaderVars, disk>>
    BY <1>3, <1>4, <1>6 DEF TypeOK, nodeVars, leaderVars
  <1>7. CASE Lead(m.from, term[m.from], disk[m.from]) /\ UNCHANGED <<term, vote>>
    <2>1. term[m.from] \in Nat /\ disk[m.from] \in Disk
      BY <1>2 DEF TypeOK
    <2> QED
      BY <1>2, <1>3, <1>4, <1>7, <2>1, LeadType DEF TypeOK
  <1>8. CASE votes' = [votes EXCEPT ![m.from] = votes[m.from] \cup {m.to}]
             /\ UNCHANGED <<term, vote, role, leader, rep, leaderVars, disk>>
    BY <1>2, <1>3, <1>4, <1>8 DEF TypeOK, leaderVars
  <1> QED
    BY <1>5, <1>6, <1>7, <1>8 DEF HandleVoteReply

\* Following a leader keeps the types, and so does saving its term.
LEMMA FollowLeaderType ==
    ASSUME TypeOK, NEW m, m.from \in Node, m.to \in Node, m.term \in Nat, FollowLeader(m)
    PROVE  /\ term' \in [Node -> Nat]
           /\ vote' \in [Node -> Node \cup {None}]
           /\ role' \in [Node -> {"follower", "candidate", "leader"}]
           /\ leader' \in [Node -> Node \cup {None}]
           /\ votes' \in [Node -> SUBSET Node]
  BY DEF TypeOK, FollowLeader

\* Saving a leader's term leaves a storage of its shape.
LEMMA SaveTermType ==
    ASSUME NEW m, m.term \in Nat, NEW d \in Disk
    PROVE  SaveTerm(d, m) \in Disk
  BY Zenon DEF SaveTerm, SaveMeta, Disk

\* append_entries and install_snapshot answer with calls.
LEMMA ReplicateAnswerType ==
    ASSUME NEW m \in AppendRequest \cup SnapshotRequest, NEW t \in Nat,
           NEW b \in BOOLEAN, NEW i \in Nat
    PROVE  ReplicateAnswer(m, t, b, i) \in Rpc
  BY DEF ReplicateAnswer, Rpc, ReplicateReply, AppendRequest, SnapshotRequest

\* append_entries keeps the types.
LEMMA HandleAppendType ==
    ASSUME TypeOK, NEW m \in rpcs, HandleAppend(m)
    PROVE  TypeOK'
  <1> DEFINE n == m.to
             merged == Merged(rep[n], m)
             c == Smaller(m.commit, LastIndex(merged))
  <1>1. m \in AppendRequest
    BY RpcKinds DEF TypeOK, HandleAppend
  <1>2. m.from \in Node /\ n \in Node /\ m.term \in Nat /\ m.commit \in Nat
    BY <1>1 DEF AppendRequest
  <1>3. rep[n] \in Replica /\ disk[n] \in Disk /\ term[n] \in Nat
    BY <1>2 DEF TypeOK
  <1>4. merged \in Replica
    BY <1>1, <1>3, MergedType
  <1>5. LastIndex(merged) \in Nat
    BY <1>4, IndexType
  <1>6. c \in Nat
    BY <1>2, <1>5 DEF Smaller
  <1>7. ApplyTo(merged, c) \in Replica
    BY <1>4, <1>6, ApplyToType
  <1>8. [disk[n] EXCEPT !.commit = c] \in Disk
    BY <1>3, <1>6 DEF Disk
  <1>9. SaveTerm(disk[n], m) \in Disk /\ SaveTerm([disk[n] EXCEPT !.commit = c], m) \in Disk
    BY <1>2, <1>3, <1>8, SaveTermType
  <1>10. \A t \in Nat, b \in BOOLEAN, i \in Nat :
             ReplicateAnswer(m, t, b, i) \in Rpc
    BY <1>1, ReplicateAnswerType
  <1> HIDE DEF merged, c
  <1>11. rpcs' \subseteq Rpc
    <2>1. \/ Answer(m, ReplicateAnswer(m, term[n], FALSE, 0))
          \/ Answer(m, ReplicateAnswer(m, m.term, FALSE, 0))
          \/ Answer(m, ReplicateAnswer(m, m.term, TRUE, LastIndex(merged)))
      BY Zenon DEF HandleAppend, merged
    <2> QED
      BY <1>2, <1>3, <1>5, <1>10, <2>1, AnswerType, Zenon DEF TypeOK
  <1>12. UNCHANGED <<leaderVars, clientVars, budget>>
    BY DEF HandleAppend
  <1>13. CASE UNCHANGED <<nodeVars, rep, disk>>
    BY <1>11, <1>12, <1>13 DEF TypeOK, nodeVars, leaderVars, clientVars, budget
  <1>14. CASE /\ FollowLeader(m)
              /\ \/ rep' = rep /\ disk' = [disk EXCEPT ![n] = SaveTerm(@, m)]
                 \/ /\ rep' = [rep EXCEPT ![n] = ApplyTo(merged, c)]
                    /\ disk' = [disk EXCEPT ![n] = SaveTerm([@ EXCEPT !.commit = c], m)]
                 \/ /\ rep' = [rep EXCEPT ![n] = merged]
                    /\ disk' = [disk EXCEPT ![n] = SaveTerm(@, m)]
    <2>0. rep \in [Node -> Replica] /\ disk \in [Node -> Disk]
      BY DEF TypeOK
    <2>1. rep' \in [Node -> Replica]
      BY <1>2, <1>4, <1>7, <1>14, <2>0
    <2>3. disk' \in [Node -> Disk]
      BY <1>2, <1>9, <1>14, <2>0
    <2>2. /\ term' \in [Node -> Nat] /\ vote' \in [Node -> Node \cup {None}]
          /\ role' \in [Node -> {"follower", "candidate", "leader"}]
          /\ leader' \in [Node -> Node \cup {None}] /\ votes' \in [Node -> SUBSET Node]
      BY <1>2, <1>14, FollowLeaderType
    <2> QED
      BY <1>11, <1>12, <2>1, <2>2, <2>3 DEF TypeOK, leaderVars, clientVars, budget
  <1> QED
    BY <1>13, <1>14, Zenon DEF HandleAppend, merged, c

\* install_snapshot keeps the types.
LEMMA HandleSnapshotType ==
    ASSUME TypeOK, NEW m \in rpcs, HandleSnapshot(m)
    PROVE  TypeOK'
  <1> DEFINE n == m.to
             after == Installed(rep[n], m.snap)
  <1>1. m \in SnapshotRequest
    BY RpcKinds DEF TypeOK, HandleSnapshot
  <1>2. m.from \in Node /\ n \in Node /\ m.term \in Nat /\ m.snap \in Snapshot
    BY <1>1 DEF SnapshotRequest
  <1>3. rep[n] \in Replica /\ disk[n] \in Disk /\ term[n] \in Nat /\ m.snap.index \in Nat
    BY <1>2 DEF TypeOK, Snapshot
  <1>4. after \in Replica
    BY <1>2, <1>3, InstalledType
  <1>5. after.commit \in Nat
    BY <1>4 DEF Replica
  <1>6. [disk[n] EXCEPT !.commit = after.commit] \in Disk
    BY <1>3, <1>5 DEF Disk
  <1>7. SaveTerm(disk[n], m) \in Disk
        /\ SaveTerm([disk[n] EXCEPT !.commit = after.commit], m) \in Disk
    BY <1>2, <1>3, <1>6, SaveTermType
  <1>8. \A t \in Nat, b \in BOOLEAN, i \in Nat : ReplicateAnswer(m, t, b, i) \in Rpc
    BY <1>1, ReplicateAnswerType
  <1> HIDE DEF after
  <1>9. rpcs' \subseteq Rpc
    <2>1. \/ Answer(m, ReplicateAnswer(m, term[n], FALSE, 0))
          \/ Answer(m, ReplicateAnswer(m, m.term, TRUE, m.snap.index))
      BY Zenon DEF HandleSnapshot
    <2> QED
      BY <1>2, <1>3, <1>8, <2>1, AnswerType, Zenon DEF TypeOK
  <1>10. UNCHANGED <<leaderVars, clientVars, budget>>
    BY DEF HandleSnapshot
  <1>11. CASE UNCHANGED <<nodeVars, rep, disk>>
    BY <1>9, <1>10, <1>11 DEF TypeOK, nodeVars, leaderVars, clientVars, budget
  <1>12. CASE /\ FollowLeader(m)
              /\ \/ rep' = rep /\ disk' = [disk EXCEPT ![n] = SaveTerm(@, m)]
                 \/ /\ rep' = [rep EXCEPT ![n] = after]
                    /\ disk' = [disk EXCEPT ![n] = SaveTerm([@ EXCEPT !.commit = after.commit], m)]
    <2>0. rep \in [Node -> Replica] /\ disk \in [Node -> Disk]
      BY DEF TypeOK
    <2>1. rep' \in [Node -> Replica]
      BY <1>2, <1>4, <1>12, <2>0
    <2>3. disk' \in [Node -> Disk]
      BY <1>2, <1>7, <1>12, <2>0
    <2>2. /\ term' \in [Node -> Nat] /\ vote' \in [Node -> Node \cup {None}]
          /\ role' \in [Node -> {"follower", "candidate", "leader"}]
          /\ leader' \in [Node -> Node \cup {None}] /\ votes' \in [Node -> SUBSET Node]
      BY <1>2, <1>12, FollowLeaderType
    <2> QED
      BY <1>9, <1>10, <2>1, <2>2, <2>3 DEF TypeOK, leaderVars, clientVars, budget
  <1> QED
    BY <1>11, <1>12, Zenon DEF HandleSnapshot, after

\* A leader's replica and storage after _update_commit_index have their shapes.
LEMMA CommitStepType ==
    ASSUME rep \in [Node -> Replica], disk \in [Node -> Disk], NEW n \in Node,
           NEW r \in Replica,
           rep' = [rep EXCEPT ![n] = r],
           disk' = [disk EXCEPT ![n] = SaveCommit(@, rep[n], r)]
    PROVE  rep' \in [Node -> Replica] /\ disk' \in [Node -> Disk]
  <1>1. SaveCommit(disk[n], rep[n], r) \in Disk
    BY SaveCommitType
  <1> QED
    BY <1>1

\* The caller's half of a replication call keeps the types.
LEMMA HandleReplyType ==
    ASSUME TypeOK, NEW m \in rpcs, HandleReply(m)
    PROVE  TypeOK'
  <1> DEFINE n == m.from
             moved == [match[n] EXCEPT ![m.to] = m.match]
             after == UpdateCommit(n, moved, rep[n], term[n])
  <1>1. m \in ReplicateReply
    BY RpcKinds DEF TypeOK, HandleReply
  <1>2. n \in Node /\ m.to \in Node /\ m.rterm \in Nat /\ m.match \in Nat
    BY <1>1 DEF ReplicateReply
  <1>3. rpcs' \subseteq Rpc /\ UNCHANGED <<pending, acked, budget>>
    BY DEF TypeOK, HandleReply
  <1>4. rep[n] \in Replica /\ match[n] \in [Node -> Nat] /\ next[n] \in [Node -> Nat \ {0}]
    BY <1>2 DEF TypeOK
  <1>5. moved \in [Node -> Nat] /\ after \in Replica
    BY <1>2, <1>4, UpdateCommitType
  <1> HIDE DEF moved, after
  <1>6. CASE StepDown(n, m.rterm) /\ UNCHANGED <<votes, rep, leaderVars, disk, read>>
    BY <1>2, <1>3, <1>6 DEF TypeOK, StepDown, leaderVars, budget
  <1>7. CASE UNCHANGED <<nodeVars, rep, leaderVars, disk, read>>
    BY <1>3, <1>7 DEF TypeOK, nodeVars, leaderVars, budget
  <1>8. CASE /\ next' = [next EXCEPT ![n][m.to] = BackedOff(@)]
             /\ UNCHANGED <<nodeVars, rep, match, disk, read>>
    <2>1. BackedOff(next[n][m.to]) \in Nat \ {0}
      BY <1>2, <1>4 DEF BackedOff, Larger
    <2>2. next' \in [Node -> [Node -> Nat \ {0}]]
      BY <1>2, <1>8, <2>1 DEF TypeOK
    <2> QED
      BY <1>3, <1>8, <2>2 DEF TypeOK, nodeVars, budget
  <1>9. CASE /\ next' = [next EXCEPT ![n][m.to] = m.match + 1]
             /\ match' = [match EXCEPT ![n] = moved]
             /\ rep' = [rep EXCEPT ![n] = after]
             /\ disk' = [disk EXCEPT ![n] = SaveCommit(@, rep[n], after)]
             /\ read' = IF m.read /\ m.rterm = read.term
                        THEN [read EXCEPT !.acks = @ \cup {m.to}] ELSE read
             /\ UNCHANGED nodeVars
    <2>1. rep' \in [Node -> Replica] /\ disk' \in [Node -> Disk]
      BY <1>2, <1>5, <1>9, CommitStepType, Zenon DEF TypeOK
    <2>2. next' \in [Node -> [Node -> Nat \ {0}]]
      BY <1>2, <1>9 DEF TypeOK
    <2>3. match' \in [Node -> [Node -> Nat]]
      BY <1>2, <1>5, <1>9 DEF TypeOK
    <2>4. read' \in Read /\ (read'.pc = "asking" => read'.node \in Node)
      <3>1. read \in Read /\ (read.pc = "asking" => read.node \in Node)
        BY DEF TypeOK
      <3> QED
        BY <1>2, <1>9, <3>1 DEF Read
    <2> QED
      BY <1>3, <1>9, <2>1, <2>2, <2>3, <2>4 DEF TypeOK, nodeVars, budget
  <1> QED
    BY <1>6, <1>7, <1>8, <1>9 DEF HandleReply, moved, after

\* propose keeps the types.
LEMMA ProposeType ==
    ASSUME TypeOK, NEW n \in Node, NEW v \in Value, Propose(n, v)
    PROVE  TypeOK'
  <1> DEFINE i == LastIndex(rep[n]) + 1
             grown == [rep[n] EXCEPT !.log = Append(@, [term |-> term[n], val |-> v])]
             after == UpdateCommit(n, match[n], grown, term[n])
  <1>1. rep[n] \in Replica /\ term[n] \in Nat
    BY DEF TypeOK
  <1>2. after \in Replica /\ i \in Nat
    BY <1>1, GrownType, UpdateCommitType, IndexType DEF Command
  <1> HIDE DEF after, i
  <1>3. rep' = [rep EXCEPT ![n] = after]
        /\ disk' = [disk EXCEPT ![n] = SaveCommit(@, rep[n], after)]
    BY DEF Propose, after
  <1>4. rep' \in [Node -> Replica] /\ disk' \in [Node -> Disk]
    BY <1>2, <1>3, CommitStepType, Zenon DEF TypeOK
  <1>5. pending' = pending \cup {[node |-> n, term |-> term[n], index |-> i, val |-> v]}
    BY DEF Propose, i
  <1>6. pending' \subseteq Proposal
    BY <1>1, <1>2, <1>5 DEF TypeOK, Proposal
  <1> QED
    BY <1>4, <1>6 DEF TypeOK, Propose, nodeVars, leaderVars, budget

\* The reads keep the types.
LEMMA ReadBeginType ==
    ASSUME TypeOK, NEW n \in Node, ReadBegin(n)
    PROVE  TypeOK'
  <1> DEFINE todo == {ReplicateRequest(n, p, TRUE) : p \in Peers(n)}
  <1>1. todo \in SUBSET (AppendRequest \cup SnapshotRequest)
    BY ReplicateRequestType, ZenonT(40) DEF Peers
  <1>2. \A f \in CommittedAnywhere : f \in Nat
    BY DEF CommittedAnywhere, TypeOK, Replica
  <1>3. term[n] \in Nat
    BY DEF TypeOK
  <1> HIDE DEF todo
  <1>4. PICK f \in CommittedAnywhere :
            read' = [pc |-> "asking", node |-> n, term |-> term[n], todo |-> todo,
                     acks |-> {n}, floor |-> f, index |-> 0]
    BY Zenon DEF ReadBegin, todo
  <1>5. read' \in Read /\ read'.node \in Node
    BY <1>1, <1>2, <1>3, <1>4, Zenon DEF Read
  <1> QED
    BY <1>5 DEF TypeOK, ReadBegin, nodeVars, leaderVars, budget

\* A handshake's next call keeps them.
LEMMA ReadAskType ==
    ASSUME TypeOK, NEW m, ReadAsk(m)
    PROVE  TypeOK'
  <1>1. read \in Read
    BY DEF TypeOK
  <1>2. m \in read.todo /\ m \in AppendRequest \cup SnapshotRequest
    BY <1>1 DEF ReadAsk, Read
  <1>3. read' \in Read /\ (read'.pc = "asking" => read'.node \in Node)
    BY <1>1, Zenon DEF ReadAsk, Read, TypeOK
  <1>4. m.kind = "snapshot" => [m EXCEPT !.snap = rep[m.from].snap] \in SnapshotRequest
    <2>1. m.from \in Node
      BY <1>2, Zenon DEF AppendRequest, SnapshotRequest
    <2>2. rep[m.from].snap \in Snapshot
      BY <2>1 DEF TypeOK, Replica
    <2>3. m.kind = "snapshot" => m \in SnapshotRequest
      BY <1>2 DEF AppendRequest
    <2> QED
      BY <2>2, <2>3 DEF SnapshotRequest
  <1>5. rpcs' \subseteq Rpc
    BY <1>2, <1>4, Zenon DEF TypeOK, ReadAsk, Send, Rpc
  <1> QED
    BY <1>3, <1>5 DEF TypeOK, ReadAsk, nodeVars, leaderVars, budget

\* A handshake's end keeps them.
LEMMA ReadEndType ==
    ASSUME TypeOK, ReadEnd
    PROVE  TypeOK'
  <1> DEFINE n == read.node
             after == UpdateCommit(n, match[n], rep[n], term[n])
  <1>1. read \in Read
    BY DEF TypeOK
  <1>2. [NoRead EXCEPT !.pc = "failed"] \in Read
    BY DEF NoRead, Read
  <1>3. UNCHANGED <<nodeVars, leaderVars, rpcs, pending, acked, budget>>
    BY DEF ReadEnd
  <1>4. CASE read' = [NoRead EXCEPT !.pc = "failed"] /\ UNCHANGED <<rep, disk>>
    <2>1. read'.pc # "asking"
      BY <1>4 DEF NoRead
    <2> QED
      BY <1>2, <1>3, <1>4, <2>1 DEF TypeOK, nodeVars, leaderVars, budget
  <1>5. CASE /\ rep' = [rep EXCEPT ![n] = after]
             /\ disk' = [disk EXCEPT ![n] = SaveCommit(@, rep[n], after)]
             /\ read' = [read EXCEPT !.pc = "answered", !.index = after.commit]
    <2>1. n \in Node
      BY DEF TypeOK, ReadEnd, Asking
    <2>2. rep[n] \in Replica
      BY <2>1 DEF TypeOK
    <2>3. after \in Replica
      BY <2>2, UpdateCommitType
    <2>4. after.commit \in Nat
      BY <2>3 DEF Replica
    <2> HIDE DEF after
    <2>5. rep' \in [Node -> Replica] /\ disk' \in [Node -> Disk]
      BY <1>5, <2>1, <2>3, CommitStepType, Zenon DEF TypeOK
    <2>6. read' \in Read /\ read'.pc = "answered"
      BY <1>1, <1>5, <2>4, Zenon DEF Read
    <2> QED
      BY <1>3, <2>5, <2>6 DEF TypeOK, nodeVars, leaderVars, budget
  <1> QED
    BY <1>4, <1>5 DEF ReadEnd, after

\* A process that dies and is started again over a replica keeps the types.
LEMMA RestartWithType ==
    ASSUME TypeOK, NEW n \in Node, NEW s \in Replica, RestartWith(n, s), rpcs' \subseteq Rpc
    PROVE  TypeOK'
  <1>1. disk[n] \in Disk
    BY DEF TypeOK
  <1>2. disk[n].term \in Nat /\ disk[n].vote \in Node \cup {None} /\ disk[n].commit \in Nat
    BY <1>1 DEF Disk
  <1>3. Reloaded(s, disk[n].commit) \in Replica
    BY <1>2, ReloadedType
  <1>4. rep' \in [Node -> Replica]
    BY <1>3 DEF TypeOK, RestartWith
  <1>5. /\ term' \in [Node -> Nat] /\ vote' \in [Node -> Node \cup {None}]
        /\ role' \in [Node -> {"follower", "candidate", "leader"}]
        /\ leader' \in [Node -> Node \cup {None}] /\ votes' \in [Node -> SUBSET Node]
    BY <1>2 DEF TypeOK, RestartWith
  <1>6. next' \in [Node -> [Node -> Nat \ {0}]] /\ match' \in [Node -> [Node -> Nat]]
    BY DEF TypeOK, RestartWith
  <1>7. read' \in Read /\ (read'.pc = "asking" => read'.node \in Node)
    <2>1. [NoRead EXCEPT !.pc = "failed"] \in Read /\ [NoRead EXCEPT !.pc = "failed"].pc # "asking"
      BY DEF NoRead, Read
    <2> QED
      BY <2>1 DEF TypeOK, RestartWith
  <1>8. pending' \subseteq Proposal /\ acked' = acked /\ disk' = disk
        /\ elections' = elections /\ restarts' \in Nat
    BY DEF TypeOK, RestartWith
  <1> QED
    BY <1>4, <1>5, <1>6, <1>7, <1>8 DEF TypeOK

\* A restart keeps the types.
LEMMA RestartType ==
    ASSUME TypeOK, NEW n \in Node, Restart(n)
    PROVE  TypeOK'
  <1>1. rep[n] \in Replica /\ rpcs' \subseteq Rpc
    BY OrphanedType DEF TypeOK, Restart
  <1> QED
    BY <1>1, RestartWithType DEF Restart

\* So does a death inside append_entries.
LEMMA CrashInAppendType ==
    ASSUME TypeOK, NEW m \in rpcs, CrashInAppend(m)
    PROVE  TypeOK'
  <1>1. m \in AppendRequest
    BY RpcKinds DEF TypeOK, CrashInAppend
  <1>2. m.to \in Node
    BY <1>1 DEF AppendRequest
  <1>3. rep[m.to] \in Replica
    BY <1>2 DEF TypeOK
  <1>4. rpcs' \subseteq Rpc
    BY OrphanedType DEF TypeOK, CrashInAppend
  <1>5. PICK k \in 0..Len(Missing(rep[m.to], m)) : RestartWith(m.to, Merge(rep[m.to], m, k))
    BY DEF CrashInAppend
  <1>6. Merge(rep[m.to], m, k) \in Replica
    BY <1>1, <1>3, MergeType
  <1> QED
    BY <1>2, <1>4, <1>5, <1>6, RestartWithType

\* The actions that only send, lose or put off a call keep the types.
LEMMA CallType ==
    ASSUME TypeOK,
           \/ \E n, p \in Node : RequestVote(n, p) \/ Replicate(n, p)
           \/ \E m \in rpcs : LoadSnapshot(m) \/ Lose(m) \/ GiveUp(m)
    PROVE  TypeOK'
  <1> SUFFICES rpcs' \subseteq Rpc
    BY Zenon DEF TypeOK, RequestVote, Replicate, LoadSnapshot, Lose, GiveUp,
           nodeVars, leaderVars, clientVars, budget
  <1>1. ASSUME NEW n \in Node, NEW p \in Node, RequestVote(n, p)
        PROVE  rpcs' \subseteq Rpc
    <2>1. rep[n] \in Replica /\ term[n] \in Nat
      BY DEF TypeOK
    <2>2. LastIndex(rep[n]) \in Nat /\ LastTerm(rep[n]) \in Nat
      BY <2>1, IndexType
    <2>3. PICK r \in VoteRequest : rpcs' = rpcs \cup {r}
      BY <1>1, <2>1, <2>2, Zenon DEF RequestVote, Send, VoteRequest
    <2> QED
      BY <2>3 DEF TypeOK, Rpc
  <1>2. ASSUME NEW n \in Node, NEW p \in Node, Replicate(n, p)
        PROVE  rpcs' \subseteq Rpc
    <2>1. ReplicateRequest(n, p, FALSE) \in Rpc
      BY ReplicateRequestType, Zenon DEF Rpc
    <2> QED
      BY <1>2, <2>1, Zenon DEF TypeOK, Replicate, Send
  <1>3. ASSUME NEW m \in rpcs, LoadSnapshot(m)
        PROVE  rpcs' \subseteq Rpc
    <2>1. m \in SnapshotRequest
      BY <1>3, RpcKinds DEF TypeOK, LoadSnapshot
    <2>2. m.from \in Node
      BY <2>1 DEF SnapshotRequest
    <2>3. rep[m.from].snap \in Snapshot
      BY <2>2 DEF TypeOK, Replica
    <2>4. [m EXCEPT !.snap = rep[m.from].snap] \in SnapshotRequest
      BY <2>1, <2>3 DEF SnapshotRequest
    <2> QED
      BY <1>3, <2>4, Zenon DEF TypeOK, LoadSnapshot, Rpc
  <1>4. ASSUME NEW m \in rpcs, Lose(m)
        PROVE  rpcs' \subseteq Rpc
    BY <1>4 DEF TypeOK, Lose
  <1>5. ASSUME NEW m \in rpcs, GiveUp(m)
        PROVE  rpcs' \subseteq Rpc
    BY <1>5, StrayType DEF TypeOK, GiveUp
  <1> QED
    BY <1>1, <1>2, <1>3, <1>4, <1>5

\* The ends of a proposal keep the types.
LEMMA ProposeEndType ==
    ASSUME TypeOK, NEW q \in pending, ProposeSucceeds(q) \/ ProposeFails(q)
    PROVE  TypeOK'
  BY DEF TypeOK, ProposeSucceeds, ProposeFails, Proposal, nodeVars, leaderVars, budget

\* Every step of every node, call and client keeps the types.
LEMMA TypeStep ==
    ASSUME TypeOK, [Next]_vars
    PROVE  TypeOK'
  <1>1. CASE UNCHANGED vars
    BY <1>1 DEF TypeOK, vars, nodeVars, leaderVars, clientVars, budget
  <1>2. ASSUME NEW n \in Node,
               \/ StartElection(n) \/ Restart(n) \/ ReadBegin(n)
               \/ \E p \in Node : RequestVote(n, p) \/ Replicate(n, p)
               \/ \E v \in Value : Propose(n, v)
        PROVE  TypeOK'
    BY <1>2, StartElectionType, RestartType, ReadBeginType, CallType, ProposeType
  <1>3. ASSUME NEW m \in rpcs,
               \/ HandleVote(m) \/ HandleVoteReply(m) \/ HandleAppend(m)
               \/ HandleSnapshot(m) \/ HandleReply(m) \/ LoadSnapshot(m)
               \/ Lose(m) \/ GiveUp(m) \/ CrashInAppend(m)
        PROVE  TypeOK'
    BY <1>3, HandleVoteType, HandleVoteReplyType, HandleAppendType, HandleSnapshotType,
       HandleReplyType, CallType, CrashInAppendType
  <1> QED
    BY <1>1, <1>2, <1>3, ProposeEndType, ReadAskType, ReadEndType, Zenon DEF Next

\* The variables start with their types.
LEMMA TypeInit == Init => TypeOK
  <1>1. EmptyReplica \in Replica
    BY DEF EmptyReplica, EmptySnapshot, Replica, Snapshot
  <1>2. [term |-> 0, vote |-> None, commit |-> 0] \in Disk
    BY DEF Disk
  <1>3. NoRead \in Read /\ NoRead.pc # "asking"
    BY DEF NoRead, Read
  <1> QED
    BY <1>1, <1>2, <1>3 DEF Init, TypeOK

\* Type correctness of the Raft group, for any group and any bounds.
THEOREM TypeCorrect == Spec => []TypeOK
  BY TypeInit, TypeStep, PTL DEF Spec

-----------------------------------------------------------------------------
(* What the calls do to logs, in a group that takes no snapshots.          *)

\* Two logs that hold an entry of one term at an index are the same up to it.
Match(L, M) ==
    \A i \in DOMAIN L \cap DOMAIN M :
        L[i].term = M[i].term => \A j \in 1..i : L[j] = M[j]

\* The call m carries what comes after an index of the log L, and that index and its term;
\* or it carries nothing.
Carries(m, L) ==
    \/ m.entries = << >>
    \/ /\ m.prev <= Len(L) /\ m.entries = SubSeq(L, m.prev + 1, Len(L))
       /\ m.prev > 0 => m.prevTerm = L[m.prev].term

\* The term of an entry is a number.
LEMMA EntryTerm ==
    ASSUME NEW L \in Seq(Entry), NEW i \in DOMAIN L
    PROVE  L[i].term \in Nat
  <1>1. L[i] \in Entry
    BY ElementType
  <1> QED
    BY <1>1 DEF Entry

\* A set of natural numbers has a least one.
LeastNumber == \A T \in SUBSET Nat : T # {} => \E x \in T : \A y \in T : x <= y

\* What a piece of a log holds.
LEMMA Piece ==
    ASSUME NEW q \in Seq(Entry), NEW a \in Nat, NEW b \in Nat, b <= Len(q)
    PROVE  /\ SubSeq(q, a + 1, b) \in Seq(Entry)
           /\ Len(SubSeq(q, a + 1, b)) = (IF a <= b THEN b - a ELSE 0)
           /\ \A i \in 1..b-a : SubSeq(q, a + 1, b)[i] = q[a + i]
  <1>1. SubSeq(q, a + 1, b) \in Seq(Entry)
    BY PieceType
  <1>2. Len(SubSeq(q, a + 1, b)) = (IF a <= b THEN b - a ELSE 0)
    OBVIOUS
  <1>3. \A i \in 1..b-a : SubSeq(q, a + 1, b)[i] = q[a + i]
    OBVIOUS
  <1> QED
    BY <1>1, <1>2, <1>3

\* What the beginning of a log holds.
LEMMA Beginning ==
    ASSUME NEW q \in Seq(Entry), NEW b \in Nat, b <= Len(q)
    PROVE  /\ SubSeq(q, 1, b) \in Seq(Entry)
           /\ Len(SubSeq(q, 1, b)) = b
           /\ \A i \in 1..b : SubSeq(q, 1, b)[i] = q[i]
  <1>1. /\ SubSeq(q, 0 + 1, b) \in Seq(Entry)
        /\ Len(SubSeq(q, 0 + 1, b)) = (IF 0 <= b THEN b - 0 ELSE 0)
        /\ \A i \in 1..b-0 : SubSeq(q, 0 + 1, b)[i] = q[0 + i]
    BY Piece
  <1>2. 0 + 1 = 1 /\ b - 0 = b /\ 0 <= b /\ \A i \in 1..b : 0 + i = i
    OBVIOUS
  <1> QED
    BY <1>1, <1>2

\* Without snapshots an index is a place in the log.
LEMMA PlainIndex ==
    ASSUME NEW s \in Replica, s.snap = EmptySnapshot
    PROVE  /\ LastIndex(s) = Len(s.log)
           /\ \A i \in Int : (HasEntry(s, i) <=> i \in 1..Len(s.log)) /\ EntryAt(s, i) = s.log[i]
  <1>1. s.snap.index = 0 /\ Len(s.log) \in Nat
    BY DEF EmptySnapshot, Replica
  <1>2. \A i \in Int : i - s.snap.index = i
    BY <1>1
  <1> QED
    BY <1>1, <1>2 DEF LastIndex, HasEntry, EntryAt

\* Applying leaves the log alone.
LEMMA ApplyKeeps ==
    ASSUME SnapshotInterval = 0, NEW s \in Replica, NEW c
    PROVE  ApplyTo(s, c).log = s.log /\ ApplyTo(s, c).snap = s.snap
  <1>1. \A r : MaybeSnapshot(r) = r
    BY DEF MaybeSnapshot
  <1>2. PICK a, d : ApplyTo(s, c) = [s EXCEPT !.commit = c, !.applied = a, !.sm = d]
    BY <1>1, ZenonT(40) DEF ApplyTo
  <1> QED
    BY <1>2 DEF Replica

\* So does committing.
LEMMA CommitKeeps ==
    ASSUME SnapshotInterval = 0, NEW s \in Replica, NEW n, NEW m, NEW t
    PROVE  UpdateCommit(n, m, s, t).log = s.log /\ UpdateCommit(n, m, s, t).snap = s.snap
  BY ApplyKeeps, Zenon DEF UpdateCommit

\* So does a reload.
LEMMA ReloadKeepsLog ==
    ASSUME SnapshotInterval = 0, NEW s \in Replica, NEW c
    PROVE  Reloaded(s, c).log = s.log /\ Reloaded(s, c).snap = s.snap
  <1> DEFINE r == [s EXCEPT !.applied = s.snap.index, !.sm = s.snap.data]
  <1>1. s.snap.index \in Nat /\ s.snap.data \in Seq(Entry)
    BY DEF Replica, Snapshot
  <1>2. r \in Replica
    BY <1>1, Zenon DEF Replica
  <1>3. r.log = s.log /\ r.snap = s.snap
    BY DEF Replica
  <1> QED
    BY <1>2, <1>3, ApplyKeeps, Zenon DEF Reloaded

\* What a leader sends is carried from its log.
LEMMA RequestCarries ==
    ASSUME TypeOK, NEW n \in Node, NEW p \in Node, NEW b, rep[n].snap = EmptySnapshot
    PROVE  ReplicateRequest(n, p, b).kind = "append" /\ Carries(ReplicateRequest(n, p, b), rep[n].log)
  <1>1. PICK s \in Replica : s = rep[n]
    BY DEF TypeOK
  <1>2. s.snap.index = 0 /\ s.snap = EmptySnapshot /\ s.log \in Seq(Entry) /\ Len(s.log) \in Nat
    BY <1>1 DEF EmptySnapshot, Replica
  <1>3. PICK prev \in Nat : prev = next[n][p] - 1
    BY DEF TypeOK
  <1> DEFINE pt == CASE HasEntry(s, prev) -> EntryAt(s, prev).term
                     [] prev = s.snap.index -> s.snap.term
                     [] OTHER -> 0
             m == ReplicateRequest(n, p, b)
  <1>4. ~(s.snap.index > 0 /\ next[n][p] <= s.snap.index) /\ prev - s.snap.index + 1 = prev + 1
    BY <1>2
  <1>5. m = [kind |-> "append", from |-> n, to |-> p, term |-> term[n], prev |-> prev,
             prevTerm |-> pt, entries |-> SubSeq(s.log, prev + 1, Len(s.log)),
             commit |-> s.commit, read |-> b, wait |-> TRUE]
    BY <1>1, <1>3, <1>4, ZenonT(40) DEF ReplicateRequest
  <1>6. HasEntry(s, prev) => pt = EntryAt(s, prev).term
    <2>1. HasEntry(s, prev) => prev # s.snap.index
      BY <1>2, PlainIndex
    <2> QED
      BY <2>1, ZenonT(40)
  <1> HIDE DEF pt, m
  <1>7. /\ m.kind = "append" /\ m.prev = prev /\ m.prevTerm = pt
        /\ m.entries = SubSeq(s.log, prev + 1, Len(s.log))
    BY <1>5, ZenonT(40)
  <1>8. CASE prev <= Len(s.log)
    <2>1. prev > 0 => pt = s.log[prev].term
      BY <1>2, <1>6, <1>8, PlainIndex
    <2> QED
      BY <1>1, <1>7, <1>8, <2>1, Zenon DEF Carries, m
  <1>9. CASE prev > Len(s.log)
    <2>1. m.entries = << >>
      BY <1>2, <1>3, <1>7, <1>9
    <2> QED
      BY <1>7, <2>1, Zenon DEF Carries, m
  <1> QED
    BY <1>2, <1>8, <1>9

\* What a piece of a log to its end holds.
LEMMA PieceToEnd ==
    ASSUME NEW L \in Seq(Entry), NEW p \in Nat, NEW h \in Nat, h = Len(L), p <= h
    PROVE  /\ Len(SubSeq(L, p + 1, h)) = h - p
           /\ \A i \in 1..h-p : SubSeq(L, p + 1, h)[i] = L[p + i]
  <1>1. /\ Len(SubSeq(L, p + 1, h)) = (IF p <= h THEN h - p ELSE 0)
        /\ \A i \in 1..h-p : SubSeq(L, p + 1, h)[i] = L[p + i]
    BY Piece
  <1> QED
    BY <1>1

\* Without snapshots the k-th index after p is a place in the log if the log is so long.
LEMMA IndexAfter ==
    ASSUME NEW s \in Replica, s.snap = EmptySnapshot, NEW p \in Nat, NEW h, NEW k \in 1..h
    PROVE  (HasEntry(s, p + k) <=> p + k <= Len(s.log)) /\ EntryAt(s, p + k) = s.log[p + k]
  <1>1. p + k \in Int /\ p + k >= 1 /\ Len(s.log) \in Nat
    BY DEF Replica
  <1> QED
    BY <1>1, PlainIndex

\* The first c entries of A and the k entries of B are those that L begins with.
Agree(A, B, L, c, k) ==
    /\ c <= Len(A) /\ k = Len(B) /\ c + k <= Len(L)
    /\ \A i \in 1..c : A[i] = L[i]
    /\ \A i \in 1..k : B[i] = L[c + i]

\* q is the beginning of L.
Begins(q, L) == \E j \in 0..Len(L) : q = SubSeq(L, 1, j)

\* Put together they are the beginning of L.
LEMMA Joined ==
    ASSUME NEW A \in Seq(Entry), NEW B \in Seq(Entry), NEW L \in Seq(Entry),
           NEW c \in Nat, NEW k \in Nat, Agree(A, B, L, c, k)
    PROVE  Begins(SubSeq(A, 1, c) \o B, L)
  <1> USE DEF Agree
  <1>1. PICK q : q = SubSeq(A, 1, c)
    BY Zenon
  <1>2. PICK r : r = SubSeq(L, 1, c + k)
    BY Zenon
  <1>3. q \in Seq(Entry) /\ Len(q) = c /\ \A i \in 1..c : q[i] = A[i]
    BY <1>1, Beginning
  <1>4. r \in Seq(Entry) /\ Len(r) = c + k /\ \A i \in 1..c + k : r[i] = L[i]
    <2>1. c + k \in Nat
      OBVIOUS
    <2> QED
      BY <1>2, <2>1, Beginning
  <1>5. /\ q \o B \in Seq(Entry) /\ Len(q \o B) = Len(q) + Len(B)
        /\ \A i \in 1..Len(q) + Len(B) : (q \o B)[i] = IF i <= Len(q) THEN q[i] ELSE B[i - Len(q)]
    BY <1>3, Concat, ZenonT(40)
  <1>6. \A i \in 1..c + k : (q \o B)[i] = r[i]
    <2> SUFFICES ASSUME NEW i \in 1..c + k
                 PROVE  (q \o B)[i] = r[i]
      BY Zenon
    <2>1. CASE i <= c
      <3>1. (q \o B)[i] = q[i] /\ i \in 1..c
        BY <1>3, <1>5, <2>1
      <3> QED
        BY <1>3, <1>4, <3>1, Zenon
    <2>2. CASE i > c
      <3>1. i - c \in 1..k /\ c + (i - c) = i
        BY <2>2
      <3>2. (q \o B)[i] = B[i - c]
        BY <1>3, <1>5, <2>2
      <3>3. B[i - c] = L[i] /\ r[i] = L[i]
        BY <1>4, <3>1, Zenon
      <3> QED
        BY <3>2, <3>3
    <2>3. i <= c \/ i > c
      OBVIOUS
    <2> QED
      BY <2>1, <2>2, <2>3, Zenon
  <1>7. q \o B = r
    BY <1>3, <1>4, <1>5, <1>6, SameSeq
  <1>8. c + k \in 0..Len(L)
    OBVIOUS
  <1> QED
    BY <1>1, <1>2, <1>7, <1>8, Zenon DEF Begins

\* What the entry loop keeps has a length.
LEMMA KeptLengthNat ==
    ASSUME NEW s \in Replica, NEW m \in AppendRequest
    PROVE  KeptLength(s, m) \in Nat
  <1>1. KeptLength(s, m) \in 0..Len(s.log)
    BY KeptLengthType
  <1>2. Len(s.log) \in Nat
    BY DEF Replica
  <1> QED
    BY <1>1, <1>2

\* Where the entry loop of append_entries leaves off keeping its own log, the log and the
\* one the call carries are the same.
LEMMA KeptAgrees ==
    ASSUME LeastNumber, NEW s \in Replica, s.snap = EmptySnapshot, NEW m \in AppendRequest,
           NEW L \in Seq(Entry), Match(s.log, L), PrevMatches(s, m),
           m.prev <= Len(L), m.entries = SubSeq(L, m.prev + 1, Len(L)),
           m.prev > 0 => m.prevTerm = L[m.prev].term,
           KeptLength(s, m) <= Len(L)
    PROVE  /\ m.prev <= KeptLength(s, m)
           /\ \A i \in 1..KeptLength(s, m) : s.log[i] = L[i]
  <1>1. PICK p \in Nat, c \in Nat, l \in Nat, h \in Nat :
            p = m.prev /\ c = KeptLength(s, m) /\ l = Len(s.log) /\ h = Len(L)
    BY KeptLengthType DEF Replica, AppendRequest
  <1>2. s.log \in Seq(Entry) /\ s.snap.index = 0 /\ c <= l /\ p <= h /\ c <= h
    BY <1>1, KeptLengthType DEF EmptySnapshot, Replica
  <1>3. p <= l /\ (p > 0 => s.log[p].term = L[p].term)
    BY <1>1, <1>2, PlainIndex DEF PrevMatches
  <1>4. Len(m.entries) = h - p /\ \A k \in 1..h-p : m.entries[k] = L[p + k]
    <2>1. m.entries = SubSeq(L, p + 1, h)
      BY <1>1, Zenon
    <2>0. h = Len(L) /\ p <= h
      BY <1>1, <1>2, Zenon
    <2>2. /\ Len(SubSeq(L, p + 1, h)) = h - p
          /\ \A k \in 1..h-p : SubSeq(L, p + 1, h)[k] = L[p + k]
      BY <2>0, PieceToEnd, ZenonT(40)
    <2> QED
      BY <2>1, <2>2, Zenon
  <1>5. \A k \in 1..h-p : Conflicts(s, m, k) <=> p + k <= l /\ s.log[p + k].term # L[p + k].term
    <2> SUFFICES ASSUME NEW k \in 1..h-p
                 PROVE  Conflicts(s, m, k) <=> p + k <= l /\ s.log[p + k].term # L[p + k].term
      OBVIOUS
    <2>1. m.entries[k] = L[p + k]
      BY <1>4, Zenon
    <2>2. (HasEntry(s, p + k) <=> p + k <= l) /\ EntryAt(s, p + k) = s.log[p + k]
      BY <1>1, IndexAfter, ZenonT(40)
    <2> QED
      BY <1>1, <2>1, <2>2, Zenon DEF Conflicts
  <1>6. p <= c /\ (c > p => ~Conflicts(s, m, c - p))
    <2>1. CASE FirstConflict(s, m) = {}
      <3>1. c = l
        BY <1>1, <2>1 DEF KeptLength
      <3>2. ASSUME c > p, Conflicts(s, m, c - p)
            PROVE  FALSE
        <4> DEFINE T == {k \in 1..h-p : Conflicts(s, m, k)}
        <4>1. c - p \in 1..h-p
          BY <1>2, <3>2
        <4>2. c - p \in T /\ T \subseteq Nat
          BY <3>2, <4>1
        <4> HIDE DEF T
        <4>3. PICK k \in T : \A j \in T : k <= j
          BY <4>2, Zenon DEF LeastNumber
        <4>4. k \in 1..h-p /\ Conflicts(s, m, k)
          BY <4>3 DEF T
        <4>5. \A j \in 1..k-1 : j \in 1..h-p /\ ~(k <= j)
          BY <4>4
        <4>6. \A j \in 1..k-1 : ~Conflicts(s, m, j)
          BY <4>3, <4>5 DEF T
        <4>7. DOMAIN m.entries = 1..h-p
          BY <1>1, <1>2, <1>4 DEF AppendRequest
        <4> QED
          BY <2>1, <4>4, <4>6, <4>7, ZenonT(40) DEF FirstConflict
      <3> QED
        BY <1>3, <3>1, <3>2
    <2>2. CASE FirstConflict(s, m) # {}
      <3>1. PICK k \in FirstConflict(s, m) : c = k + p - s.snap.index - 1
        BY <1>1, <2>2, Zenon DEF KeptLength
      <3>2. k \in DOMAIN m.entries /\ \A j \in 1..k-1 : ~Conflicts(s, m, j)
        BY <3>1, ZenonT(40) DEF FirstConflict
      <3>3. k \in Nat /\ k >= 1
        BY <3>2 DEF AppendRequest
      <3>4. c = k + p - 1
        BY <1>2, <3>1, <3>3
      <3>5. p <= c /\ (c > p => c - p \in 1..k-1)
        BY <3>3, <3>4
      <3> QED
        BY <3>2, <3>5
    <2> QED
      BY <2>1, <2>2
  <1>7. c > 0 => s.log[c].term = L[c].term
    <2>1. CASE c = p
      BY <1>3, <2>1
    <2>2. CASE c > p
      <3>1. c - p \in 1..h-p /\ p + (c - p) = c
        BY <1>2, <2>2
      <3> QED
        BY <1>2, <1>5, <1>6, <2>2, <3>1
    <2> QED
      BY <1>6, <2>1, <2>2
  <1>8. \A i \in 1..c : s.log[i] = L[i]
    <2>1. CASE c = 0
      BY <2>1
    <2>2. CASE c > 0
      <3>1. c \in DOMAIN s.log \cap DOMAIN L
        BY <1>1, <1>2, <2>2
      <3> QED
        BY <1>7, <2>2, <3>1, Zenon DEF Match
    <2> QED
      BY <2>1, <2>2
  <1> QED
    BY <1>1, <1>6, <1>8

\* What the loop has left to append, if the call carries a log that goes on past what is kept.
LEMMA MissingIs ==
    ASSUME NEW s \in Replica, s.snap = EmptySnapshot, NEW m \in AppendRequest,
           NEW k \in 1..Len(Missing(s, m))
    PROVE  /\ m.entries # << >> /\ k + KeptLength(s, m) - m.prev <= Len(m.entries)
           /\ m.prev <= KeptLength(s, m) =>
                 Missing(s, m)[k] = m.entries[KeptLength(s, m) - m.prev + k]
  <1>1. PICK p \in Nat, c \in Nat, e \in Nat :
            p = m.prev /\ c = KeptLength(s, m) /\ e = Len(m.entries)
    <2>1. KeptLength(s, m) \in Nat
      BY KeptLengthType DEF Replica
    <2> QED
      BY <2>1 DEF AppendRequest
  <1>2. s.snap.index = 0 /\ m.entries \in Seq(Entry)
    BY DEF EmptySnapshot, AppendRequest
  <1>3. PICK a \in Nat : a = Larger(c - p, 0)
    <2>1. Larger(c - p, 0) \in Nat
      BY DEF Larger
    <2> QED
      BY <2>1, Zenon
  <1>4. a >= c - p /\ (p <= c => a = c - p)
    BY <1>3 DEF Larger
  <1>5. Missing(s, m) = SubSeq(m.entries, a + 1, e)
    <2>1. s.snap.index + c - p = c - p
      BY <1>2
    <2> QED
      BY <1>1, <1>3, <2>1, Zenon DEF Missing
  <1>6. /\ Len(Missing(s, m)) = (IF a <= e THEN e - a ELSE 0)
        /\ \A i \in 1..e-a : Missing(s, m)[i] = m.entries[a + i]
    <2>1. /\ Len(SubSeq(m.entries, a + 1, e)) = (IF a <= e THEN e - a ELSE 0)
          /\ \A i \in 1..e-a : SubSeq(m.entries, a + 1, e)[i] = m.entries[a + i]
      BY <1>1, <1>2, Piece
    <2> QED
      BY <1>5, <2>1
  <1>7. a + k <= e /\ k \in 1..e-a
    BY <1>6
  <1>8. m.entries # << >>
    BY <1>1, <1>7
  <1>9. k + c - p <= e
    BY <1>4, <1>7
  <1>10. p <= c => Missing(s, m)[k] = m.entries[c - p + k]
    BY <1>4, <1>6, <1>7, Zenon
  <1> QED
    BY <1>1, <1>8, <1>9, <1>10, Zenon

\* Wherever the entry loop is cut short, it leaves a beginning of the log it had or of the log
\* that the call carries.
LEMMA MergeCuts ==
    ASSUME LeastNumber, NEW s \in Replica, s.snap = EmptySnapshot, NEW m \in AppendRequest,
           NEW L \in Seq(Entry), Match(s.log, L), PrevMatches(s, m), Carries(m, L),
           NEW k \in 0..Len(Missing(s, m))
    PROVE  /\ Merge(s, m, k).snap = s.snap
           /\ Begins(Merge(s, m, k).log, s.log) \/ Begins(Merge(s, m, k).log, L)
  <1>1. PICK p \in Nat, c \in Nat : p = m.prev /\ c = KeptLength(s, m)
    <2>1. KeptLength(s, m) \in Nat /\ m.prev \in Nat
      BY KeptLengthNat DEF AppendRequest
    <2> QED
      BY <2>1, Zenon
  <1>2. s.log \in Seq(Entry) /\ c <= Len(s.log) /\ Missing(s, m) \in Seq(Entry) /\ k \in Nat
    <2>1. s.log \in Seq(Entry) /\ Missing(s, m) \in Seq(Entry)
      BY MissingType DEF Replica
    <2>2. c \in 0..Len(s.log)
      BY <1>1, KeptLengthType, Zenon
    <2> QED
      BY <2>1, <2>2
  <1>3. PICK more : more = SubSeq(Missing(s, m), 1, k)
    BY Zenon
  <1>4. Merge(s, m, k).log = SubSeq(s.log, 1, c) \o more /\ Merge(s, m, k).snap = s.snap
    BY <1>1, <1>3, Zenon DEF Merge, Replica
  <1>5. /\ more \in Seq(Entry) /\ Len(more) = k
        /\ \A i \in 1..k : more[i] = Missing(s, m)[i]
    BY <1>2, <1>3, Beginning
  <1>6. CASE k = 0
    <2>1. more = << >> /\ SubSeq(s.log, 1, c) \in Seq(Entry)
      BY <1>2, <1>5, <1>6, Beginning
    <2>2. Merge(s, m, k).log = SubSeq(s.log, 1, c)
      BY <1>4, <2>1
    <2>3. c \in 0..Len(s.log)
      BY <1>2
    <2> QED
      BY <1>4, <2>2, <2>3, Zenon DEF Begins
  <1>7. CASE k > 0
    <2>1. k \in 1..Len(Missing(s, m))
      BY <1>2, <1>7
    <2>2. /\ m.prev <= Len(L) /\ m.entries = SubSeq(L, m.prev + 1, Len(L))
          /\ m.prev > 0 => m.prevTerm = L[m.prev].term
      BY <2>1, MissingIs, Zenon DEF Carries
    <2>3. PICK h \in Nat : h = Len(L)
      OBVIOUS
    <2>4. /\ Len(m.entries) = h - p
          /\ \A i \in 1..h-p : m.entries[i] = L[p + i]
      <3>1. m.entries = SubSeq(L, p + 1, h) /\ p <= h
        BY <1>1, <2>2, <2>3, Zenon
      <3> QED
        BY <2>3, <3>1, PieceToEnd
    <2>5. c + k <= h
      <3>1. k + c - p <= Len(m.entries)
        BY <1>1, <2>1, MissingIs, Zenon
      <3> QED
        BY <1>2, <2>4, <3>1
    <2>6. KeptLength(s, m) <= Len(L)
      BY <1>1, <1>2, <2>3, <2>5
    <2>7. p <= c /\ \A i \in 1..c : s.log[i] = L[i]
      BY <1>1, <2>2, <2>6, KeptAgrees, Zenon
    <2>8. \A i \in 1..k : more[i] = L[c + i]
      <3> SUFFICES ASSUME NEW i \in 1..k
                   PROVE  more[i] = L[c + i]
        OBVIOUS
      <3>1. i \in 1..Len(Missing(s, m))
        BY <1>2
      <3>2. Missing(s, m)[i] = m.entries[c - p + i]
        BY <1>1, <2>7, <3>1, MissingIs, ZenonT(40)
      <3>3. c - p + i \in 1..h-p /\ p + (c - p + i) = c + i
        BY <1>2, <2>5, <2>7
      <3>4. m.entries[c - p + i] = L[c + i]
        BY <2>4, <3>3
      <3> QED
        BY <1>5, <3>2, <3>4, Zenon
    <2>9. Begins(SubSeq(s.log, 1, c) \o more, L)
      <3>1. c + k <= Len(L)
        BY <2>3, <2>5
      <3>2. k = Len(more)
        BY <1>5
      <3>3. Agree(s.log, more, L, c, k)
        BY <1>2, <2>7, <2>8, <3>1, <3>2, Zenon DEF Agree
      <3> QED
        BY <1>2, <1>5, <3>3, Joined, Zenon
    <2> QED
      BY <1>4, <2>9, Zenon
  <1>8. k = 0 \/ k > 0
    BY <1>2
  <1> QED
    BY <1>6, <1>7, <1>8, Zenon

\* H holds every log there is or that a call was made from.  Any two match; every entry is of
\* a term that somebody was elected in, and whoever still leads in it has all of the term.
History(H) ==
    /\ H \subseteq Seq(Entry)
    /\ \A n \in Node : rep[n].snap = EmptySnapshot /\ rep[n].log \in H
    /\ \A m \in LeaderCalls : m.kind = "append" /\ \E L \in H : Carries(m, L)
    /\ \A L, M \in H : Match(L, M)
    /\ \A L \in H : \A i \in DOMAIN L :
          /\ \E l \in Node : Elected(L[i].term, l)
          /\ \A l \in Node : role[l] = "leader" /\ term[l] = L[i].term => i <= Len(rep[l].log)

\* The log of node k stays as it is.
SameLog(k) == rep'[k].log = rep[k].log /\ rep'[k].snap = rep[k].snap

\* Node n, which leads, appends an entry of its term.
Grows(n) ==
    /\ role'[n] = "leader"
    /\ \E v \in Command : rep'[n].log = Append(rep[n].log, [term |-> term'[n], val |-> v])

\* Node n, which does not lead, has the beginning of a log of H.
Cuts(n, H) ==
    /\ role'[n] # "leader"
    /\ \E L \in H : Begins(rep'[n].log, L)

\* At most one log changes in a step, in one of the two ways.
OneLogChanges(H) ==
    \/ \A k \in Node : SameLog(k)
    \/ \E n \in Node :
          /\ \A k \in Node : k # n => SameLog(k)
          /\ rep'[n].snap = EmptySnapshot
          /\ Grows(n) \/ Cuts(n, H)

\* What committing or growing leaves at a node that leads.
LEMMA LeaderLogs ==
    ASSUME SnapshotInterval = 0, TypeOK, NEW H, NEW n \in Node, NEW c, NEW t \in Nat,
           rep[n].snap = EmptySnapshot,
           \/ rep' = [rep EXCEPT ![n] = UpdateCommit(n, c, rep[n], t)]
           \/ /\ role'[n] = "leader" /\ term'[n] = t
              /\ \E v \in Command : rep' = [rep EXCEPT ![n] =
                    UpdateCommit(n, c, [rep[n] EXCEPT !.log = Append(@, [term |-> t, val |-> v])], t)]
    PROVE  OneLogChanges(H)
  <1>1. rep \in [Node -> Replica]
    BY DEF TypeOK
  <1>2. CASE rep' = [rep EXCEPT ![n] = UpdateCommit(n, c, rep[n], t)]
    <2>1. PICK r : r = UpdateCommit(n, c, rep[n], t)
      OBVIOUS
    <2>2. r.log = rep[n].log /\ r.snap = rep[n].snap
      BY <1>1, <2>1, CommitKeeps
    <2>3. rep' = [rep EXCEPT ![n] = r]
      BY <1>2, <2>1
    <2> QED
      BY <1>1, <2>2, <2>3 DEF OneLogChanges, SameLog
  <1>3. ASSUME role'[n] = "leader", term'[n] = t, NEW v \in Command,
               rep' = [rep EXCEPT ![n] =
                   UpdateCommit(n, c, [rep[n] EXCEPT !.log = Append(@, [term |-> t, val |-> v])], t)]
        PROVE  OneLogChanges(H)
    <2>1. PICK g : g = [rep[n] EXCEPT !.log = Append(@, [term |-> t, val |-> v])]
      BY Zenon
    <2>2. g \in Replica
      BY <1>1, <2>1, GrownType
    <2>3. g.log = Append(rep[n].log, [term |-> t, val |-> v]) /\ g.snap = rep[n].snap
      BY <1>1, <2>1 DEF Replica
    <2>4. PICK r : r = UpdateCommit(n, c, g, t)
      OBVIOUS
    <2>5. r.log = g.log /\ r.snap = g.snap
      BY <2>2, <2>4, CommitKeeps
    <2>6. rep' = [rep EXCEPT ![n] = r]
      BY <1>3, <2>1, <2>4, Zenon
    <2>7. rep'[n] = r /\ \A k \in Node : k # n => rep'[k] = rep[k]
      BY <1>1, <2>6
    <2>8. rep'[n].log = Append(rep[n].log, [term |-> t, val |-> v])
      BY <2>3, <2>5, <2>7, Zenon
    <2>9. rep'[n].snap = EmptySnapshot
      BY <2>3, <2>5, <2>7, Zenon
    <2>10. Grows(n)
      BY <1>3, <2>8, Zenon DEF Grows
    <2> QED
      BY <2>7, <2>9, <2>10, Zenon DEF OneLogChanges, SameLog
  <1> QED
    BY <1>2, <1>3, Zenon

\* What append_entries leaves of a log, wherever the process dies in it.
LEMMA AppendCuts ==
    ASSUME LeastNumber, TypeOK, NEW H, History(H), NEW m \in rpcs, m.kind = "append",
           PrevMatches(rep[m.to], m), NEW k \in 0..Len(Missing(rep[m.to], m))
    PROVE  /\ Merge(rep[m.to], m, k) \in Replica
           /\ Merge(rep[m.to], m, k).snap = EmptySnapshot
           /\ \E L \in H : Begins(Merge(rep[m.to], m, k).log, L)
  <1>1. m \in AppendRequest /\ m.to \in Node
    BY RpcKinds DEF TypeOK
  <1>2. PICK s \in Replica : s = rep[m.to]
    BY <1>1 DEF TypeOK
  <1>3. s.snap = EmptySnapshot /\ s.log \in H
    BY <1>1, <1>2, Zenon DEF History
  <1>4. m \in LeaderCalls
    BY Zenon DEF LeaderCalls
  <1>5. PICK L \in H : Carries(m, L)
    BY <1>4, Zenon DEF History
  <1>6. Match(s.log, L) /\ L \in Seq(Entry)
    BY <1>3, <1>5, Zenon DEF History
  <1>7. PrevMatches(s, m) /\ k \in 0..Len(Missing(s, m))
    BY <1>2
  <1>8. /\ Merge(s, m, k).snap = s.snap
        /\ Begins(Merge(s, m, k).log, s.log) \/ Begins(Merge(s, m, k).log, L)
    BY <1>1, <1>3, <1>5, <1>6, <1>7, MergeCuts, Zenon
  <1>9. Merge(s, m, k) \in Replica
    BY <1>1, <1>7, MergeType, Zenon
  <1> QED
    BY <1>2, <1>3, <1>5, <1>8, <1>9, ZenonT(40)

\* A node that follows, with a log cut short.
LEMMA FollowerLogs ==
    ASSUME TypeOK, NEW H, NEW n \in Node, NEW s, NEW r, rep' = [rep EXCEPT ![n] = r],
           s.snap = EmptySnapshot, r.log = s.log, r.snap = s.snap, role'[n] = "follower",
           \E L \in H : Begins(s.log, L)
    PROVE  OneLogChanges(H)
  <1>1. rep'[n] = r /\ \A k \in Node : k # n => rep'[k] = rep[k]
    BY DEF TypeOK
  <1>2. role'[n] # "leader"
    OBVIOUS
  <1> QED
    BY <1>1, <1>2, ZenonT(40) DEF OneLogChanges, SameLog, Cuts

\* The steps that change no log.
LEMMA QuietLogs ==
    ASSUME \/ \E n, p \in Node : RequestVote(n, p) \/ Replicate(n, p)
           \/ \E n \in Node : ReadBegin(n)
           \/ \E m \in rpcs : HandleVote(m) \/ LoadSnapshot(m) \/ Lose(m) \/ GiveUp(m)
           \/ \E q \in pending : ProposeSucceeds(q) \/ ProposeFails(q)
           \/ \E m \in read.todo : ReadAsk(m)
           \/ UNCHANGED vars
    PROVE  UNCHANGED rep
  BY ZenonT(40) DEF RequestVote, Replicate, ReadBegin, HandleVote, LoadSnapshot, Lose, GiveUp,
     ProposeSucceeds, ProposeFails, ReadAsk, vars

\* Every step changes at most one log, in one of the two ways.
LEMMA LogsStep ==
    ASSUME LeastNumber, SnapshotInterval = 0, TypeOK, NEW H, History(H), [Next]_vars
    PROVE  OneLogChanges(H)
  <1>1. \A n \in Node : rep[n] \in Replica /\ rep[n].snap = EmptySnapshot /\ term[n] \in Nat
    BY ZenonT(40) DEF TypeOK, History
  <1>2. ASSUME UNCHANGED rep
        PROVE  OneLogChanges(H)
    BY <1>2, ZenonT(40) DEF OneLogChanges, SameLog
  <1>3. \A m \in rpcs : m.from \in Node /\ m.to \in Node /\ m.term \in Nat
    BY RpcKinds, Zenon DEF TypeOK
  <1>4. Noop \in Command /\ Value \subseteq Command
    BY DEF Command
  <1>5. ASSUME NEW n \in Node, NEW t \in Nat, NEW d, Lead(n, t, d), term'[n] = t
        PROVE  OneLogChanges(H)
    <2>1. role'[n] = "leader"
      BY <1>5 DEF Lead, TypeOK
    <2>2. PICK c : rep' = [rep EXCEPT ![n] =
              UpdateCommit(n, c, [rep[n] EXCEPT !.log = Append(@, [term |-> t, val |-> Noop])], t)]
      BY <1>5, Zenon DEF Lead
    <2> QED
      BY <1>1, <1>4, <1>5, <2>1, <2>2, LeaderLogs, Zenon
  <1>6. ASSUME NEW n \in Node, StartElection(n)
        PROVE  OneLogChanges(H)
    <2>1. term[n] + 1 \in Nat
      BY DEF TypeOK
    <2>3. term' = [term EXCEPT ![n] = term[n] + 1]
      BY <1>6, Zenon DEF StartElection
    <2>4. term'[n] = term[n] + 1
      BY <2>3 DEF TypeOK
    <2> QED
      BY <1>2, <1>5, <1>6, <2>1, <2>4, ZenonT(40) DEF StartElection
  <1>7. ASSUME NEW m \in rpcs, HandleVoteReply(m)
        PROVE  OneLogChanges(H)
    BY <1>1, <1>2, <1>3, <1>5, <1>7, Zenon DEF HandleVoteReply
  <1>8. ASSUME NEW n \in Node, NEW v \in Value, Propose(n, v)
        PROVE  OneLogChanges(H)
    <2>1. role'[n] = "leader" /\ term'[n] = term[n]
      BY <1>8, Zenon DEF Propose, nodeVars
    <2>2. rep' = [rep EXCEPT ![n] = UpdateCommit(n, match[n],
              [rep[n] EXCEPT !.log = Append(@, [term |-> term[n], val |-> v])], term[n])]
      BY <1>8, Zenon DEF Propose
    <2> QED
      BY <1>1, <1>4, <2>1, <2>2, LeaderLogs, Zenon
  <1>9. ASSUME NEW m \in rpcs, HandleReply(m)
        PROVE  OneLogChanges(H)
    <2>1. ASSUME NEW c, rep' = [rep EXCEPT ![m.from] = UpdateCommit(m.from, c, rep[m.from], term[m.from])]
          PROVE  OneLogChanges(H)
      BY <1>1, <1>3, <2>1, LeaderLogs, Zenon
    <2> QED
      BY <1>2, <1>9, <2>1, Zenon DEF HandleReply
  <1>10. ASSUME ReadEnd
         PROVE  OneLogChanges(H)
    <2>1. read.node \in Node
      BY <1>10, Zenon DEF ReadEnd, Asking, TypeOK
    <2>2. \/ UNCHANGED rep
          \/ rep' = [rep EXCEPT ![read.node] =
                 UpdateCommit(read.node, match[read.node], rep[read.node], term[read.node])]
      BY <1>10, Zenon DEF ReadEnd
    <2> QED
      BY <1>1, <1>2, <2>1, <2>2, LeaderLogs, Zenon
  <1>11. ASSUME NEW m \in rpcs, HandleAppend(m)
         PROVE  OneLogChanges(H)
    <2>1. CASE /\ FollowLeader(m) /\ PrevMatches(rep[m.to], m)
               /\ \/ \E c : rep' = [rep EXCEPT ![m.to] = ApplyTo(Merged(rep[m.to], m), c)]
                  \/ rep' = [rep EXCEPT ![m.to] = Merged(rep[m.to], m)]
      <3>1. m.kind = "append" /\ m \in AppendRequest
        BY <1>11, RpcKinds, ZenonT(40) DEF HandleAppend, TypeOK
      <3>2. PICK s : s = Merged(rep[m.to], m)
        OBVIOUS
      <3>3. Len(Missing(rep[m.to], m)) \in 0..Len(Missing(rep[m.to], m))
        <4>1. Missing(rep[m.to], m) \in Seq(Entry)
          BY <1>1, <1>3, <3>1, MissingType, Zenon
        <4>2. Len(Missing(rep[m.to], m)) \in Nat
          BY <4>1
        <4> QED
          BY <4>2
      <3>4. /\ s \in Replica /\ s.snap = EmptySnapshot
            /\ \E L \in H : Begins(s.log, L)
        BY <2>1, <3>1, <3>2, <3>3, AppendCuts, ZenonT(40) DEF Merged
      <3>5. role'[m.to] = "follower"
        BY <1>3, <2>1 DEF FollowLeader, TypeOK
      <3>6. \A c : ApplyTo(s, c).log = s.log /\ ApplyTo(s, c).snap = s.snap
        BY <3>4, ApplyKeeps, Zenon
      <3>7. PICK r : rep' = [rep EXCEPT ![m.to] = r] /\ (r = s \/ \E c : r = ApplyTo(s, c))
        BY <2>1, <3>2, Zenon
      <3>8. r.log = s.log /\ r.snap = s.snap
        BY <3>6, <3>7, Zenon
      <3> QED
        BY <1>3, <3>4, <3>5, <3>7, <3>8, FollowerLogs, Zenon
    <2> QED
      BY <1>2, <1>11, <2>1, Zenon DEF HandleAppend
  <1>12. ASSUME NEW m \in rpcs, HandleSnapshot(m)
         PROVE  OneLogChanges(H)
    <2>1. m.kind = "snapshot" /\ m \in LeaderCalls
      BY <1>12, Zenon DEF HandleSnapshot, LeaderCalls
    <2>2. m.kind = "append"
      BY <2>1, Zenon DEF History
    <2> QED
      BY <2>1, <2>2
  <1>13. ASSUME NEW n \in Node, Restart(n)
         PROVE  OneLogChanges(H)
    <2>1. rep' = [rep EXCEPT ![n] = Reloaded(rep[n], disk[n].commit)]
      BY <1>13, Zenon DEF Restart, RestartWith
    <2>2. PICK r : r = Reloaded(rep[n], disk[n].commit)
      OBVIOUS
    <2>3. r.log = rep[n].log /\ r.snap = rep[n].snap
      BY <1>1, <2>2, ReloadKeepsLog
    <2>4. rep' = [rep EXCEPT ![n] = r]
      BY <2>1, <2>2, Zenon
    <2> QED
      BY <2>3, <2>4 DEF OneLogChanges, SameLog, TypeOK
  <1>14. ASSUME NEW m \in rpcs, CrashInAppend(m)
         PROVE  OneLogChanges(H)
    <2>1. m.kind = "append" /\ PrevMatches(rep[m.to], m)
      BY <1>14, Zenon DEF CrashInAppend
    <2>2. PICK k \in 0..Len(Missing(rep[m.to], m)) : RestartWith(m.to, Merge(rep[m.to], m, k))
      BY <1>14, Zenon DEF CrashInAppend
    <2>3. PICK s : s = Merge(rep[m.to], m, k)
      OBVIOUS
    <2>4. /\ s \in Replica /\ s.snap = EmptySnapshot
          /\ \E L \in H : Begins(s.log, L)
      BY <2>1, <2>3, AppendCuts, Zenon
    <2>5. PICK r : r = Reloaded(s, disk[m.to].commit)
      OBVIOUS
    <2>6. r.log = s.log /\ r.snap = s.snap
      BY <2>4, <2>5, ReloadKeepsLog
    <2>7. rep' = [rep EXCEPT ![m.to] = r] /\ role'[m.to] = "follower"
      BY <1>3, <2>2, <2>3, <2>5, Zenon DEF RestartWith, TypeOK
    <2> QED
      BY <1>3, <2>4, <2>6, <2>7, FollowerLogs, Zenon
  <1> QED
    BY <1>2, <1>6, <1>7, <1>8, <1>9, <1>10, <1>11, <1>12, <1>13, <1>14, QuietLogs, Zenon
    DEF Next

\* A log that is the beginning of one of H, and after it has no entry of a term that a log of
\* H has one of at the same index, matches those of H.
LEMMA AddLog ==
    ASSUME NEW H, H \subseteq Seq(Entry), \A L, M \in H : Match(L, M),
           NEW q \in Seq(Entry), NEW A \in H, NEW c \in Nat, c <= Len(A), c <= Len(q),
           \A i \in 1..c : q[i] = A[i],
           \A i \in c+1..Len(q) : \A M \in H : i \in DOMAIN M => M[i].term # q[i].term
    PROVE  \A L, M \in H \cup {q} : Match(L, M)
  <1>1. ASSUME NEW M \in H
        PROVE  Match(q, M) /\ Match(M, q)
    <2>1. ASSUME NEW i \in DOMAIN q \cap DOMAIN M, q[i].term = M[i].term
          PROVE  \A j \in 1..i : q[j] = M[j]
      <3>1. i \in 1..Len(q)
        BY <2>1
      <3>2. i \in 1..c
        BY <2>1, <3>1
      <3>3. i \in DOMAIN A /\ A[i].term = M[i].term
        BY <2>1, <3>2
      <3>4. \A j \in 1..i : A[j] = M[j]
        <4>1. Match(A, M) /\ i \in DOMAIN A \cap DOMAIN M
          BY <1>1, <2>1, <3>3, Zenon
        <4> QED
          BY <3>3, <4>1, Zenon DEF Match
      <3>5. \A j \in 1..i : j \in 1..c
        BY <3>2
      <3> QED
        BY <3>4, <3>5, Zenon
    <2>2. Match(q, M)
      BY <2>1, Zenon DEF Match
    <2>3. Match(M, q)
      <3> SUFFICES ASSUME NEW i \in DOMAIN M \cap DOMAIN q, M[i].term = q[i].term,
                          NEW j \in 1..i
                   PROVE  M[j] = q[j]
        BY Zenon DEF Match
      <3> QED
        BY <2>1
    <2> QED
      BY <2>2, <2>3
  <1>2. Match(q, q)
    BY Zenon DEF Match
  <1> QED
    BY <1>1, <1>2, Zenon

\* The first c entries of q are those of A; what follows is of the term that n leads in, and
\* past the end of its log.
NewFrom(q, A, c, n) ==
    /\ c <= Len(A) /\ c <= Len(q)
    /\ \A i \in 1..c : q[i] = A[i]
    /\ \A i \in c+1..Len(q) :
          role'[n] = "leader" /\ q[i].term = term'[n] /\ i > Len(rep[n].log)

\* The log that changes is the beginning of one of H, and perhaps an entry of the term its
\* node leads in.
LEMMA NewLog ==
    ASSUME TypeOK, NEW H, History(H), NEW n \in Node, Grows(n) \/ Cuts(n, H),
           NEW q, q = rep'[n].log
    PROVE  \E A \in H, c \in Nat : NewFrom(q, A, c, n)
  <1>1. q = rep'[n].log
    OBVIOUS
  <1>2. CASE Grows(n)
    <2>1. PICK A \in H : A = rep[n].log /\ A \in Seq(Entry)
      BY ZenonT(40) DEF History
    <2>2. PICK e : q = Append(A, e) /\ e.term = term'[n]
      BY <1>1, <1>2, <2>1 DEF Grows
    <2>3. PICK c \in Nat : c = Len(A)
      BY <2>1
    <2>4. Len(q) = c + 1 /\ q[c + 1] = e /\ \A i \in 1..c : q[i] = A[i]
      BY <2>1, <2>2, <2>3
    <2>5. \A i \in c+1..Len(q) : i = c + 1 /\ i > Len(rep[n].log)
      BY <2>1, <2>3, <2>4
    <2>6. c <= Len(A) /\ c <= Len(q)
      BY <2>3, <2>4
    <2> QED
      BY <1>1, <1>2, <2>2, <2>4, <2>5, <2>6, Zenon DEF Grows, NewFrom
  <1>3. CASE Cuts(n, H)
    <2>1. PICK L \in H : Begins(q, L)
      BY <1>1, <1>3, ZenonT(40) DEF Cuts
    <2>2. L \in Seq(Entry)
      BY DEF History
    <2>3. PICK j \in 0..Len(L) : q = SubSeq(L, 1, j)
      BY <2>1 DEF Begins
    <2>4. j \in Nat /\ j <= Len(L)
      BY <2>2
    <2>5. Len(q) = j /\ \A i \in 1..j : q[i] = L[i]
      BY <2>2, <2>3, <2>4, Beginning
    <2>6. j <= Len(q) /\ j+1..Len(q) = {}
      BY <2>4, <2>5
    <2> QED
      BY <1>1, <2>4, <2>5, <2>6, Zenon DEF NewFrom
  <1> QED
    BY <1>2, <1>3

\* At the start the only log is the empty one.
LEMMA HistoryInit == Init => History({<< >>})
  <1> SUFFICES ASSUME Init PROVE History({<< >>})
    OBVIOUS
  <1>1. LeaderCalls = {}
    BY Zenon DEF Init, LeaderCalls, NoRead
  <1>2. \A n \in Node : rep[n].snap = EmptySnapshot /\ rep[n].log = << >>
    <2>1. rep = [n \in Node |-> EmptyReplica]
      BY Zenon DEF Init
    <2> QED
      BY <2>1 DEF EmptyReplica
  <1>3. << >> \in Seq(Entry) /\ DOMAIN << >> = {}
    OBVIOUS
  <1> QED
    BY <1>1, <1>2, <1>3, Zenon DEF History, Match

\* The logs of a history match.
LEMMA HistoryMatches ==
    ASSUME TypeOK, NEW H, History(H)
    PROVE  LogMatching
  <1> SUFFICES ASSUME NEW a \in Node, NEW b \in Node, NEW i \in 1..LastIndex(rep[a]),
                      HasEntry(rep[a], i), HasEntry(rep[b], i),
                      EntryAt(rep[a], i).term = EntryAt(rep[b], i).term,
                      NEW j \in 1..i
               PROVE  EntryAt(rep[a], j) = EntryAt(rep[b], j)
    BY Zenon DEF LogMatching
  <1>1. PICK r \in Replica, s \in Replica : r = rep[a] /\ s = rep[b]
    BY DEF TypeOK
  <1>2. r.snap = EmptySnapshot /\ s.snap = EmptySnapshot /\ Match(r.log, s.log)
    BY <1>1, Zenon DEF History
  <1>3. LastIndex(r) \in Nat
    BY IndexType
  <1>4. i \in Int /\ j \in Int
    BY <1>1, <1>3
  <1>5. i \in 1..Len(r.log) /\ i \in 1..Len(s.log) /\ r.log[i].term = s.log[i].term
    BY <1>1, <1>2, <1>4, PlainIndex, ZenonT(40)
  <1>6. i \in DOMAIN r.log \cap DOMAIN s.log
    BY <1>5 DEF Replica
  <1>7. r.log[j] = s.log[j]
    BY <1>2, <1>5, <1>6, Zenon DEF Match
  <1> QED
    BY <1>1, <1>2, <1>4, <1>7, PlainIndex, ZenonT(40)

=============================================================================
