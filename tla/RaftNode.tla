------------------------------ MODULE RaftNode ------------------------------
(***************************************************************************)
(* One Raft group of OxideDB: the nodes of oxidedb/raft/node.py            *)
(* (MemoryRaftNode) over the durable state of oxidedb/raft/storage.py      *)
(* (EngineRaftStorage), and the calls they make to each other.             *)
(*                                                                         *)
(* A node runs every handler under one lock, so a handler is one action.   *)
(* What is not under the lock is the call between two nodes: the caller    *)
(* copies its state, the peer handles the request later, and the caller    *)
(* takes the lock again to handle the reply.  A call is a record of        *)
(* "rpcs", first as a request and then as a reply; either may be lost,     *)
(* delayed past anything else, or outlive the process that made it.        *)
(***************************************************************************)
EXTENDS Integers, Sequences, FiniteSets

CONSTANTS
    Node,              \* the members of the group
    Value,             \* the commands clients may propose
    None,              \* no node: nobody voted for, no leader known
    Noop,              \* the empty command a new leader appends
    SnapshotInterval,  \* applied entries between two snapshots; 0 takes none
    LateVotes,         \* may a vote reply be handled after its caller's term moved?
    MaxElections,      \* bound: elections started
    MaxIndex,          \* bound: the highest index a client command is appended at
    MaxRpcs,           \* bound: calls in flight at one time
    MaxRestarts,       \* bound: crashes
    MaxReads           \* bound: linearizable reads (0 or 1)

ASSUME NodeAssumption == IsFiniteSet(Node) /\ Node # {} /\ None \notin Node
ASSUME ValueAssumption == Noop \notin Value
ASSUME BoundAssumption ==
    /\ SnapshotInterval \in Nat /\ LateVotes \in BOOLEAN
    /\ MaxElections \in Nat /\ MaxIndex \in Nat /\ MaxRpcs \in Nat
    /\ MaxRestarts \in Nat /\ MaxReads \in {0, 1}

VARIABLES
    term,      \* _current_term
    vote,      \* _voted_for
    role,      \* _state
    leader,    \* _leader_id
    votes,     \* _votes_received
    rep,       \* the replica: log, snapshot, commit index, applied index, machine
    next,      \* _next_index
    match,     \* _match_index
    disk,      \* what the storage holds of term, vote and commit index
    rpcs,      \* the calls in flight
    pending,   \* proposals waiting for their entry to commit
    acked,     \* what proposals that returned success told their callers
    read,      \* the ReadIndex handshake in progress, and its answer
    elections, \* elections so far, against their bound
    restarts   \* crashes so far, against theirs

nodeVars == <<term, vote, role, leader, votes>>
leaderVars == <<next, match>>
clientVars == <<pending, acked, read>>
budget == <<elections, restarts>>
vars == <<nodeVars, rep, leaderVars, disk, rpcs, clientVars, budget>>

-----------------------------------------------------------------------------
(* The replica: log[k] is the entry at index snap.index + k, as in         *)
(* _entry_in.  The log and the snapshot are written through before any     *)
(* handler returns, so memory and disk hold the same ones.  The state      *)
(* machine is abstracted to the sequence of entries applied to it; a no-op, *)
(* which is passed over, keeps its place in the sequence.                  *)

Command == Value \cup {Noop}
Entry == [term : Nat, val : Command]
Snapshot == [index : Nat, term : Nat, data : Seq(Entry)]
Replica == [log : Seq(Entry), snap : Snapshot, commit : Nat, applied : Nat,
            sm : Seq(Entry)]

EmptySnapshot == [index |-> 0, term |-> 0, data |-> << >>]
EmptyReplica == [log |-> << >>, snap |-> EmptySnapshot, commit |-> 0,
                 applied |-> 0, sm |-> << >>]

LastIndex(s) == s.snap.index + Len(s.log)
LastTerm(s) == IF s.log = << >> THEN s.snap.term ELSE s.log[Len(s.log)].term
HasEntry(s, i) == i - s.snap.index \in 1..Len(s.log)
EntryAt(s, i) == s.log[i - s.snap.index]

Larger(a, b) == IF a < b THEN b ELSE a
Smaller(a, b) == IF a < b THEN a ELSE b

Majority == Cardinality(Node) \div 2 + 1
Quorum == {Q \in SUBSET Node : Cardinality(Q) >= Majority}
Peers(n) == Node \ {n}

-----------------------------------------------------------------------------
(* Applying, snapshotting and committing, as functions of one replica.     *)

\* _maybe_snapshot: the machine is dumped at the applied index, and the log
\* entries the dump contains go.
MaybeSnapshot(s) ==
    IF /\ SnapshotInterval > 0
       /\ s.applied - s.snap.index >= SnapshotInterval
       /\ HasEntry(s, s.applied)
    THEN [s EXCEPT !.snap = [index |-> s.applied,
                             term  |-> EntryAt(s, s.applied).term,
                             data  |-> s.sm],
                   !.log = SubSeq(@, s.applied - s.snap.index + 1, Len(@))]
    ELSE s

\* The entries with an index in i..j that the log holds.
EntriesIn(s, i, j) ==
    SubSeq(s.log, Larger(i - s.snap.index, 1), Smaller(j - s.snap.index, Len(s.log)))

\* commit_index := c, then _apply_committed_entries.  An index whose entry is
\* not in the log is passed over.
ApplyTo(s, c) ==
    MaybeSnapshot([s EXCEPT !.commit = c,
                            !.applied = Larger(@, c),
                            !.sm = @ \o EntriesIn(s, s.applied + 1, c)])

MutantQuorumMatch(n, m, s, c) == c = LastIndex(s)   \* one place too far right

\* _update_commit_index in term t: the peers' match indices sorted, the
\* node's own last index put after them, and the entry a majority from the
\* end is committed when it is of the leader's own term.
QuorumMatch(n, m, s, c) ==
    IF Majority = 1
    THEN c = LastIndex(s)
    ELSE /\ \E p \in Peers(n) : m[p] = c
         /\ Cardinality({p \in Peers(n) : m[p] >= c}) >= Majority - 1
         /\ Cardinality({p \in Peers(n) : m[p] > c}) < Majority - 1

NewCommits(n, m, s, t) ==
    {c \in s.commit + 1 .. LastIndex(s) :
        QuorumMatch(n, m, s, c) /\ HasEntry(s, c) /\ EntryAt(s, c).term = t}

UpdateCommit(n, m, s, t) ==
    LET new == NewCommits(n, m, s, t)
    IN  IF new = {} THEN s ELSE ApplyTo(s, CHOOSE c \in new : TRUE)

-----------------------------------------------------------------------------
(* Calls.  "wait" says whether the calling thread is still there for the   *)
(* reply, "read" whether it is a ReadIndex handshake's.                    *)

VoteRequest == [kind : {"vote"}, from : Node, to : Node, term : Nat,
                last : Nat, lastTerm : Nat, wait : BOOLEAN]
AppendRequest == [kind : {"append"}, from : Node, to : Node, term : Nat,
                  prev : Nat, prevTerm : Nat, entries : Seq(Entry),
                  commit : Nat, read : BOOLEAN, wait : BOOLEAN]
SnapshotRequest == [kind : {"snapshot"}, from : Node, to : Node, term : Nat,
                    snap : Snapshot, read : BOOLEAN, wait : BOOLEAN]
VoteReply == [kind : {"voteReply"}, from : Node, to : Node, term : Nat,
              rterm : Nat, granted : BOOLEAN]
ReplicateReply == [kind : {"reply"}, from : Node, to : Node, term : Nat,
                   rterm : Nat, ok : BOOLEAN, match : Nat, read : BOOLEAN]
Rpc == VoteRequest \cup AppendRequest \cup SnapshotRequest
       \cup VoteReply \cup ReplicateReply

IsRequest(m) == m.kind \in {"vote", "append", "snapshot"}
OfRead(m) == m.kind \in {"append", "snapshot", "reply"} /\ m.read

\* A handshake has one call in flight at a time, which is not counted.
Send(m) ==
    /\ OfRead(m) \/ Cardinality({r \in rpcs : ~OfRead(r)}) < MaxRpcs
    /\ rpcs' = rpcs \cup {m}

\* The handler's answer takes the request's place when its caller is there.
Answer(m, r) == rpcs' = (rpcs \ {m}) \cup (IF m.wait THEN {r} ELSE {})

VoteAnswer(m, t, granted) ==
    [kind |-> "voteReply", from |-> m.from, to |-> m.to, term |-> m.term,
     rterm |-> t, granted |-> granted]
ReplicateAnswer(m, t, ok, index) ==
    [kind |-> "reply", from |-> m.from, to |-> m.to, term |-> m.term,
     rterm |-> t, ok |-> ok, match |-> index, read |-> m.read]

NoRead == [pc |-> "none", node |-> None, term |-> 0, todo |-> {},
           acks |-> {}, floor |-> 0, index |-> 0]

-----------------------------------------------------------------------------
Init ==
    /\ term = [n \in Node |-> 0]
    /\ vote = [n \in Node |-> None]
    /\ role = [n \in Node |-> "follower"]
    /\ leader = [n \in Node |-> None]
    /\ votes = [n \in Node |-> {}]
    /\ rep = [n \in Node |-> EmptyReplica]
    /\ next = [n \in Node |-> [p \in Node |-> 1]]
    /\ match = [n \in Node |-> [p \in Node |-> 0]]
    /\ disk = [n \in Node |-> [term |-> 0, vote |-> None, commit |-> 0]]
    /\ rpcs = {}
    /\ pending = {}
    /\ acked = {}
    /\ read = NoRead
    /\ elections = 0
    /\ restarts = 0

-----------------------------------------------------------------------------
(* Elections.                                                              *)

\* The storage of a node after its replica went from s to r by
\* _update_commit_index, which saves a commit index it has advanced.
SaveCommit(d, s, r) == IF r.commit > s.commit THEN [d EXCEPT !.commit = r.commit] ELSE d

MutantSaveMeta(d, t, v) == [d EXCEPT !.term = t]   \* the vote is not saved

\* _save_meta.
SaveMeta(d, t, v) == [d EXCEPT !.term = t, !.vote = v]

\* _check_vote_count with a majority in, in term t: the node leads, starts
\* every peer at the end of its log, and appends the no-op of its term.
Lead(n, t, d) ==
    LET zero == [p \in Node |-> 0]
        grown == [rep[n] EXCEPT !.log = Append(@, [term |-> t, val |-> Noop])]
        after == UpdateCommit(n, zero, grown, t)
    IN  /\ role' = [role EXCEPT ![n] = "leader"]
        /\ leader' = [leader EXCEPT ![n] = n]
        /\ votes' = [votes EXCEPT ![n] = {}]
        /\ next' = [next EXCEPT ![n] = [p \in Node |-> LastIndex(rep[n]) + 1]]
        /\ match' = [match EXCEPT ![n] = zero]
        /\ rep' = [rep EXCEPT ![n] = after]
        /\ disk' = [disk EXCEPT ![n] = SaveCommit(d, rep[n], after)]

\* _start_election.  A node alone in its group has its majority at once.
StartElection(n) ==
    LET t == term[n] + 1
        d == SaveMeta(disk[n], t, n)
    IN  /\ role[n] # "leader"
        /\ elections < MaxElections
        /\ elections' = elections + 1
        /\ term' = [term EXCEPT ![n] = t]
        /\ vote' = [vote EXCEPT ![n] = n]
        /\ \/ /\ Majority = 1
              /\ Lead(n, t, d)
           \/ /\ Majority > 1
              /\ role' = [role EXCEPT ![n] = "candidate"]
              /\ leader' = [leader EXCEPT ![n] = None]
              /\ votes' = [votes EXCEPT ![n] = {n}]
              /\ disk' = [disk EXCEPT ![n] = d]
              /\ UNCHANGED <<rep, leaderVars>>
        /\ UNCHANGED <<rpcs, clientVars, restarts>>

\* _request_vote up to the call: the thread reads the term and the log when
\* it runs, and sends only if the node is a candidate by then.
RequestVote(n, p) ==
    /\ role[n] = "candidate"
    /\ p # n
    /\ Send([kind |-> "vote", from |-> n, to |-> p, term |-> term[n],
             last |-> LastIndex(rep[n]), lastTerm |-> LastTerm(rep[n]), wait |-> TRUE])
    /\ UNCHANGED <<nodeVars, rep, leaderVars, disk, clientVars, budget>>

MutantLogOk(s, m) == TRUE

\* log_ok of request_vote: the candidate's log is not behind the voter's.
LogOk(s, m) ==
    \/ m.lastTerm > LastTerm(s)
    \/ m.lastTerm = LastTerm(s) /\ m.last >= LastIndex(s)

\* request_vote at the voter.  A newer term is saved with no vote, and a vote
\* is saved before it is granted; a candidate of the same term stays one.
HandleVote(m) ==
    LET n == m.to
        newer == m.term > term[n]
        voted == IF newer THEN None ELSE vote[n]
        grant == m.term >= term[n] /\ voted \in {None, m.from} /\ LogOk(rep[n], m)
        v == IF grant THEN m.from ELSE voted
    IN  /\ m.kind = "vote"
        /\ term' = [term EXCEPT ![n] = Larger(@, m.term)]
        /\ vote' = [vote EXCEPT ![n] = v]
        /\ role' = [role EXCEPT ![n] = IF newer THEN "follower" ELSE @]
        /\ leader' = [leader EXCEPT ![n] = IF newer THEN None ELSE @]
        /\ votes' = [votes EXCEPT ![n] = IF newer THEN {} ELSE @]
        /\ disk' = [disk EXCEPT ![n] =
                       IF newer \/ grant THEN SaveMeta(@, m.term, v) ELSE @]
        /\ Answer(m, VoteAnswer(m, Larger(term[n], m.term), grant))
        /\ UNCHANGED <<rep, leaderVars, clientVars, budget>>

MutantStepDownVoted(n, t) ==   \* the vote of the old term is kept
    /\ term' = [term EXCEPT ![n] = t]
    /\ role' = [role EXCEPT ![n] = "follower"]
    /\ leader' = [leader EXCEPT ![n] = None]
    /\ UNCHANGED vote

MutantStepDownLed(n, t) ==   \* the leader of the old term is not forgotten
    /\ term' = [term EXCEPT ![n] = t]
    /\ vote' = [vote EXCEPT ![n] = None]
    /\ role' = [role EXCEPT ![n] = "follower"]
    /\ UNCHANGED leader

\* A reply from a newer term makes its reader a follower of that term with no
\* vote and no leader.  Neither is saved.
StepDown(n, t) ==
    /\ term' = [term EXCEPT ![n] = t]
    /\ vote' = [vote EXCEPT ![n] = None]
    /\ role' = [role EXCEPT ![n] = "follower"]
    /\ leader' = [leader EXCEPT ![n] = None]

\* _request_vote from the reply on.  The node checks that it is a candidate,
\* and not that the vote is for the term it is a candidate in.
HandleVoteReply(m) ==
    LET n == m.from
        in == votes[n] \cup {m.to}
    IN  /\ m.kind = "voteReply"
        /\ LateVotes \/ m.term = term[n] \/ m.rterm > term[n]
        /\ rpcs' = rpcs \ {m}
        /\ \/ /\ m.rterm > term[n]
              /\ StepDown(n, m.rterm)
              /\ votes' = [votes EXCEPT ![n] = {}]
              /\ UNCHANGED <<rep, leaderVars, disk>>
           \/ /\ m.rterm <= term[n]
              /\ role[n] # "candidate" \/ ~m.granted
              /\ UNCHANGED <<nodeVars, rep, leaderVars, disk>>
           \/ /\ m.rterm <= term[n] /\ role[n] = "candidate" /\ m.granted
              /\ in \in Quorum
              /\ Lead(n, term[n], disk[n])
              /\ UNCHANGED <<term, vote>>
           \/ /\ m.rterm <= term[n] /\ role[n] = "candidate" /\ m.granted
              /\ in \notin Quorum
              /\ votes' = [votes EXCEPT ![n] = in]
              /\ UNCHANGED <<term, vote, role, leader, rep, leaderVars, disk>>
        /\ UNCHANGED <<clientVars, budget>>

-----------------------------------------------------------------------------
(* Replication.                                                            *)

\* What _replicate sends to p: the snapshot when p needs entries the log no
\* longer holds, the entries from p's next index otherwise.
ReplicateRequest(n, p, ofRead) ==
    LET s == rep[n]
        prev == next[n][p] - 1
    IN  IF s.snap.index > 0 /\ next[n][p] <= s.snap.index
        THEN [kind |-> "snapshot", from |-> n, to |-> p, term |-> term[n],
              snap |-> s.snap, read |-> ofRead, wait |-> TRUE]
        ELSE [kind |-> "append", from |-> n, to |-> p, term |-> term[n],
              prev |-> prev,
              prevTerm |-> CASE HasEntry(s, prev) -> EntryAt(s, prev).term
                             [] prev = s.snap.index -> s.snap.term
                             [] OTHER -> 0,
              entries |-> SubSeq(s.log, prev - s.snap.index + 1, Len(s.log)),
              commit |-> s.commit, read |-> ofRead, wait |-> TRUE]

\* _send_heartbeats and the threads of a proposal: a leader copies its state
\* under the lock and sends the copy.
Replicate(n, p) ==
    /\ role[n] = "leader"
    /\ p # n
    /\ Send(ReplicateRequest(n, p, FALSE))
    /\ UNCHANGED <<nodeVars, rep, leaderVars, disk, clientVars, budget>>

\* _install_snapshot reads the snapshot from the storage after the copy was
\* made, when the node may have a newer one and may no longer lead.
LoadSnapshot(m) ==
    /\ m.kind = "snapshot" /\ m.wait
    /\ m.snap # rep[m.from].snap
    /\ rpcs' = (rpcs \ {m}) \cup {[m EXCEPT !.snap = rep[m.from].snap]}
    /\ UNCHANGED <<nodeVars, rep, leaderVars, disk, clientVars, budget>>

\* What append_entries and install_snapshot make of a request of a term that
\* is not older than the node's: the sender leads.  The term is saved if it
\* is new.
FollowLeader(m) ==
    LET n == m.to
        newer == m.term > term[n]
    IN  /\ term' = [term EXCEPT ![n] = m.term]
        /\ vote' = [vote EXCEPT ![n] = IF newer THEN None ELSE @]
        /\ role' = [role EXCEPT ![n] = "follower"]
        /\ leader' = [leader EXCEPT ![n] = m.from]
        /\ votes' = [votes EXCEPT ![n] = IF newer \/ role[n] # "follower" THEN {} ELSE @]

MutantSaveTerm(d, m) == SaveMeta(d, m.term, None)   \* at every call of a leader

\* term_changed, and the _save_meta it asks for.
SaveTerm(d, m) == IF m.term > term[m.to] THEN SaveMeta(d, m.term, None) ELSE d

\* The consistency check of append_entries.  An index below the snapshot's is
\* not checked.
PrevMatches(s, m) ==
    /\ m.prev <= LastIndex(s)
    /\ HasEntry(s, m.prev) => EntryAt(s, m.prev).term = m.prevTerm
    /\ m.prev = s.snap.index => m.prevTerm = s.snap.term

\* The entry loop of append_entries: the log is cut at the first entry that
\* conflicts, and what it lacks of the request is appended.  The commit and
\* applied indices never exceed what the cut leaves.
Conflicts(s, m, k) ==
    HasEntry(s, m.prev + k) /\ EntryAt(s, m.prev + k).term # m.entries[k].term

FirstConflict(s, m) ==
    {k \in DOMAIN m.entries : Conflicts(s, m, k) /\ \A j \in 1..k-1 : ~Conflicts(s, m, j)}

MutantKeptLength(s, m) == Len(s.log)   \* a conflict cuts nothing

KeptLength(s, m) ==
    IF FirstConflict(s, m) = {}
    THEN Len(s.log)
    ELSE (CHOOSE k \in FirstConflict(s, m) : TRUE) + m.prev - s.snap.index - 1

Missing(s, m) ==
    SubSeq(m.entries, Larger(s.snap.index + KeptLength(s, m) - m.prev, 0) + 1, Len(m.entries))

\* The replica after the cut and the first k appends.
Merge(s, m, k) ==
    LET kept == KeptLength(s, m)
        cut == FirstConflict(s, m) # {}
        commit == IF cut THEN Smaller(s.commit, s.snap.index + kept) ELSE s.commit
    IN  [s EXCEPT !.log = SubSeq(@, 1, kept) \o SubSeq(Missing(s, m), 1, k),
                  !.commit = commit,
                  !.applied = IF cut THEN Smaller(@, commit) ELSE @]

Merged(s, m) == Merge(s, m, Len(Missing(s, m)))

\* append_entries.  The reply's match index is the node's last log index; the
\* commit index follows the leader's as far as the log goes, and what became
\* committed is applied, and perhaps snapshotted, before the reply.
HandleAppend(m) ==
    LET n == m.to
        merged == Merged(rep[n], m)
        commit == Smaller(m.commit, LastIndex(merged))
    IN  /\ m.kind = "append"
        /\ \/ /\ m.term < term[n]
              /\ Answer(m, ReplicateAnswer(m, term[n], FALSE, 0))
              /\ UNCHANGED <<nodeVars, rep, disk>>
           \/ /\ m.term >= term[n]
              /\ FollowLeader(m)
              /\ ~PrevMatches(rep[n], m)
              /\ disk' = [disk EXCEPT ![n] = SaveTerm(@, m)]
              /\ Answer(m, ReplicateAnswer(m, m.term, FALSE, 0))
              /\ UNCHANGED rep
           \/ /\ m.term >= term[n]
              /\ FollowLeader(m)
              /\ PrevMatches(rep[n], m)
              /\ \/ /\ m.commit > merged.commit
                    /\ rep' = [rep EXCEPT ![n] = ApplyTo(merged, commit)]
                    /\ disk' = [disk EXCEPT ![n] = SaveTerm([@ EXCEPT !.commit = commit], m)]
                 \/ /\ m.commit <= merged.commit
                    /\ rep' = [rep EXCEPT ![n] = merged]
                    /\ disk' = [disk EXCEPT ![n] = SaveTerm(@, m)]
              /\ Answer(m, ReplicateAnswer(m, m.term, TRUE, LastIndex(merged)))
        /\ UNCHANGED <<leaderVars, clientVars, budget>>

\* install_snapshot past its early returns: the machine becomes the snapshot's
\* and the entries above its index stay, whatever their terms.
Installed(s, snap) ==
    [log |-> SubSeq(s.log, Larger(snap.index - s.snap.index, 0) + 1, Len(s.log)),
     snap |-> snap,
     commit |-> Larger(s.commit, snap.index),
     applied |-> snap.index,
     sm |-> snap.data]

\* install_snapshot has nothing to install when all of it is applied already.
NothingNew(s, snap) == snap.index <= s.applied

HandleSnapshot(m) ==
    LET n == m.to
        after == Installed(rep[n], m.snap)
    IN  /\ m.kind = "snapshot"
        /\ \/ /\ m.term < term[n]
              /\ Answer(m, ReplicateAnswer(m, term[n], FALSE, 0))
              /\ UNCHANGED <<nodeVars, rep, disk>>
           \/ /\ m.term >= term[n]
              /\ FollowLeader(m)
              /\ NothingNew(rep[n], m.snap)
              /\ disk' = [disk EXCEPT ![n] = SaveTerm(@, m)]
              /\ Answer(m, ReplicateAnswer(m, m.term, TRUE, m.snap.index))
              /\ UNCHANGED rep
           \/ /\ m.term >= term[n]
              /\ FollowLeader(m)
              /\ ~NothingNew(rep[n], m.snap)
              /\ rep' = [rep EXCEPT ![n] = after]
              /\ disk' = [disk EXCEPT ![n] = SaveTerm([@ EXCEPT !.commit = after.commit], m)]
              /\ Answer(m, ReplicateAnswer(m, m.term, TRUE, m.snap.index))
        /\ UNCHANGED <<leaderVars, clientVars, budget>>

\* The next index after a refusal.
BackedOff(i) == Larger(1, i - 1)

\* The caller's half of _append_entries and _install_snapshot: any reply to a
\* node that leads moves its view of the peer, in whatever term the call was
\* made.  A ReadIndex handshake counts a success in its own term.
HandleReply(m) ==
    LET n == m.from
        moved == [match[n] EXCEPT ![m.to] = m.match]
        after == UpdateCommit(n, moved, rep[n], term[n])
    IN  /\ m.kind = "reply"
        /\ rpcs' = rpcs \ {m}
        /\ \/ /\ m.rterm > term[n]
              /\ StepDown(n, m.rterm)
              /\ UNCHANGED <<votes, rep, leaderVars, disk, read>>
           \/ /\ m.rterm <= term[n]
              /\ role[n] # "leader"
              /\ UNCHANGED <<nodeVars, rep, leaderVars, disk, read>>
           \/ /\ m.rterm <= term[n] /\ role[n] = "leader" /\ ~m.ok
              /\ next' = [next EXCEPT ![n][m.to] = BackedOff(@)]
              /\ UNCHANGED <<nodeVars, rep, match, disk, read>>
           \/ /\ m.rterm <= term[n] /\ role[n] = "leader" /\ m.ok
              /\ next' = [next EXCEPT ![n][m.to] = m.match + 1]
              /\ match' = [match EXCEPT ![n] = moved]
              /\ rep' = [rep EXCEPT ![n] = after]
              /\ disk' = [disk EXCEPT ![n] = SaveCommit(@, rep[n], after)]
              /\ read' = IF m.read /\ m.rterm = read.term
                         THEN [read EXCEPT !.acks = @ \cup {m.to}] ELSE read
              /\ UNCHANGED nodeVars
        /\ UNCHANGED <<pending, acked, budget>>

-----------------------------------------------------------------------------
(* Proposals.                                                              *)

\* propose and _propose_command up to the wait.
Propose(n, v) ==
    LET i == LastIndex(rep[n]) + 1
        grown == [rep[n] EXCEPT !.log = Append(@, [term |-> term[n], val |-> v])]
        after == UpdateCommit(n, match[n], grown, term[n])
    IN  /\ role[n] = "leader"
        /\ i <= MaxIndex
        /\ rep' = [rep EXCEPT ![n] = after]
        /\ disk' = [disk EXCEPT ![n] = SaveCommit(@, rep[n], after)]
        /\ pending' = pending \cup {[node |-> n, term |-> term[n], index |-> i, val |-> v]}
        /\ UNCHANGED <<nodeVars, leaderVars, rpcs, acked, read, budget>>

MutantOverwritten(s, q) == FALSE

\* The log holds an entry of another term where the proposal's was.
Overwritten(s, q) == HasEntry(s, q.index) /\ EntryAt(s, q.index).term # q.term

\* The wait's end with the commit index at the entry: success unless the log
\* holds an entry of another term there.  An index the log no longer holds
\* counts as success.
ProposeSucceeds(q) ==
    LET s == rep[q.node]
    IN  /\ s.commit >= q.index
        /\ ~Overwritten(s, q)
        /\ pending' = pending \ {q}
        /\ acked' = acked \cup {[index |-> q.index, val |-> q.val]}
        /\ UNCHANGED <<nodeVars, rep, leaderVars, disk, rpcs, read, budget>>

\* Its other ends: the entry overwritten, the leadership lost, or the timeout,
\* which may come at any time before the commit.
ProposeFails(q) ==
    LET s == rep[q.node]
    IN  /\ s.commit < q.index \/ Overwritten(s, q)
        /\ pending' = pending \ {q}
        /\ UNCHANGED <<nodeVars, rep, leaderVars, disk, rpcs, acked, read, budget>>

-----------------------------------------------------------------------------
(* Linearizable reads.  "floor" is the highest index any node knew to be   *)
(* committed when the read began; it is not state of the program.          *)

CommittedAnywhere == {rep[n].commit : n \in Node}

\* _read_index up to its first call: the requests to every peer are made from
\* one copy of the leader's state.
ReadBegin(n) ==
    /\ MaxReads = 1 /\ read.pc = "none"
    /\ role[n] = "leader"
    /\ \E floor \in CommittedAnywhere :
          /\ \A c \in CommittedAnywhere : c <= floor
          /\ read' = [pc |-> "asking", node |-> n, term |-> term[n],
                      todo |-> {ReplicateRequest(n, p, TRUE) : p \in Peers(n)},
                      acks |-> {n}, floor |-> floor, index |-> 0]
    /\ UNCHANGED <<nodeVars, rep, leaderVars, disk, rpcs, pending, acked, budget>>

Asking == read.pc = "asking" /\ ~\E m \in rpcs : OfRead(m)

\* The next call of the loop, made when the one before it has returned.
ReadAsk(m) ==
    /\ Asking
    /\ m \in read.todo
    /\ read' = [read EXCEPT !.todo = @ \ {m}]
    /\ Send(IF m.kind = "snapshot" THEN [m EXCEPT !.snap = rep[m.from].snap] ELSE m)
    /\ UNCHANGED <<nodeVars, rep, leaderVars, disk, pending, acked, budget>>

MutantConfirmed(n) == role[n] = "leader" /\ term[n] = read.term   \* asks nobody

\* What _read_index has to have when its calls are done.
Confirmed(n) == role[n] = "leader" /\ term[n] = read.term /\ read.acks \in Quorum

\* The end of _read_index, and of get: with a majority's acknowledgements and
\* the leadership kept, the commit index of that moment is what is read at.
ReadEnd ==
    LET n == read.node
        after == UpdateCommit(n, match[n], rep[n], term[n])
    IN  /\ Asking
        /\ read.todo = {}
        /\ \/ /\ Confirmed(n)
              /\ rep' = [rep EXCEPT ![n] = after]
              /\ disk' = [disk EXCEPT ![n] = SaveCommit(@, rep[n], after)]
              /\ read' = [read EXCEPT !.pc = "answered", !.index = after.commit]
           \/ /\ ~Confirmed(n)
              /\ read' = [NoRead EXCEPT !.pc = "failed"]
              /\ UNCHANGED <<rep, disk>>
        /\ UNCHANGED <<nodeVars, leaderVars, rpcs, pending, acked, budget>>

-----------------------------------------------------------------------------
(* The network and the machines.                                           *)

\* A request or a reply is lost, or the call fails.
Lose(m) ==
    /\ rpcs' = rpcs \ {m}
    /\ UNCHANGED <<nodeVars, rep, leaderVars, disk, clientVars, budget>>

\* A request nobody waits for any more.
Stray(m) == IF m.kind = "vote" THEN [m EXCEPT !.wait = FALSE]
            ELSE [m EXCEPT !.wait = FALSE, !.read = FALSE]

\* The call of a handshake times out; its request may still arrive.
GiveUp(m) ==
    /\ IsRequest(m) /\ OfRead(m)
    /\ rpcs' = (rpcs \ {m}) \cup {Stray(m)}
    /\ UNCHANGED <<nodeVars, rep, leaderVars, disk, clientVars, budget>>

MutantReloadedBase(s, c) ==   \* the commit index is cut to the log's length
    ApplyTo([s EXCEPT !.applied = s.snap.index, !.sm = s.snap.data], Smaller(c, Len(s.log)))

\* _load_from_storage, of the log and snapshot of s and the commit index c.
Reloaded(s, c) ==
    ApplyTo([s EXCEPT !.applied = s.snap.index, !.sm = s.snap.data],
            Larger(Smaller(c, LastIndex(s)), s.snap.index))

\* The calls in flight when the process of n is gone: its requests may still
\* arrive, replies to it reach nobody.
Orphaned(calls, n) ==
    {m \in calls : m.from # n} \cup {Stray(m) : m \in {r \in calls : r.from = n /\ IsRequest(r)}}

\* The process of n dies, with the replica's log and snapshot as in s on its
\* disk, and a new one loads them.
RestartWith(n, s) ==
    LET dead == {q \in pending : q.node = n}
    IN  /\ restarts < MaxRestarts
        /\ restarts' = restarts + 1
        /\ term' = [term EXCEPT ![n] = disk[n].term]
        /\ vote' = [vote EXCEPT ![n] = disk[n].vote]
        /\ role' = [role EXCEPT ![n] = "follower"]
        /\ leader' = [leader EXCEPT ![n] = None]
        /\ votes' = [votes EXCEPT ![n] = {}]
        /\ next' = [next EXCEPT ![n] = [p \in Node |-> 1]]
        /\ match' = [match EXCEPT ![n] = [p \in Node |-> 0]]
        /\ rep' = [rep EXCEPT ![n] = Reloaded(s, disk[n].commit)]
        /\ pending' = pending \ dead
        /\ read' = IF read.pc = "asking" /\ read.node = n
                   THEN [NoRead EXCEPT !.pc = "failed"] ELSE read
        /\ UNCHANGED <<disk, acked, elections>>

Restart(n) ==
    /\ RestartWith(n, rep[n])
    /\ rpcs' = Orphaned(rpcs, n)

\* The process dies inside append_entries: the cut and k appends are on the
\* disk, the term and the commit index of the request are not.
CrashInAppend(m) ==
    LET n == m.to
    IN  /\ m.kind = "append"
        /\ m.term >= term[n]
        /\ PrevMatches(rep[n], m)
        /\ \E k \in 0..Len(Missing(rep[n], m)) : RestartWith(n, Merge(rep[n], m, k))
        /\ rpcs' = Orphaned(rpcs \ {m}, n)

-----------------------------------------------------------------------------
Next ==
    \/ \E n \in Node :
          \/ StartElection(n)
          \/ Restart(n)
          \/ ReadBegin(n)
          \/ \E p \in Node : RequestVote(n, p) \/ Replicate(n, p)
          \/ \E v \in Value : Propose(n, v)
    \/ \E m \in rpcs :
          \/ HandleVote(m)
          \/ HandleVoteReply(m)
          \/ HandleAppend(m)
          \/ HandleSnapshot(m)
          \/ HandleReply(m)
          \/ LoadSnapshot(m)
          \/ Lose(m)
          \/ GiveUp(m)
          \/ CrashInAppend(m)
    \/ \E q \in pending : ProposeSucceeds(q) \/ ProposeFails(q)
    \/ \E m \in read.todo : ReadAsk(m)
    \/ ReadEnd

Spec == Init /\ [][Next]_vars

-----------------------------------------------------------------------------
(* Properties.                                                             *)

Disk == [term : Nat, vote : Node \cup {None}, commit : Nat]
Proposal == [node : Node, term : Nat, index : Nat, val : Value]
Read == [pc : {"none", "asking", "answered", "failed"}, node : Node \cup {None},
         term : Nat, todo : SUBSET (AppendRequest \cup SnapshotRequest),
         acks : SUBSET Node, floor : Nat, index : Nat]

\* Every variable holds a value of its shape.
TypeOK ==
    /\ term \in [Node -> Nat]
    /\ vote \in [Node -> Node \cup {None}]
    /\ role \in [Node -> {"follower", "candidate", "leader"}]
    /\ leader \in [Node -> Node \cup {None}]
    /\ votes \in [Node -> SUBSET Node]
    /\ rep \in [Node -> Replica]
    /\ next \in [Node -> [Node -> Nat \ {0}]]
    /\ match \in [Node -> [Node -> Nat]]
    /\ disk \in [Node -> Disk]
    /\ rpcs \subseteq Rpc
    /\ pending \subseteq Proposal
    /\ acked \subseteq [index : Nat, val : Value]
    /\ read \in Read /\ (read.pc = "asking" => read.node \in Node)
    /\ elections \in Nat /\ restarts \in Nat

\* Two nodes never lead in the same term (_check_vote_count), whatever replies
\* are lost and whichever nodes restart between a vote and the next.
OneLeaderPerTerm ==
    \A a, b \in Node :
        role[a] = "leader" /\ role[b] = "leader" /\ term[a] = term[b] => a = b

\* Two logs that agree on the term of an index agree on every entry up to it
\* that both still hold (the consistency check and the cut of append_entries).
LogMatching ==
    \A a, b \in Node : \A i \in 1..LastIndex(rep[a]) :
        /\ HasEntry(rep[a], i) /\ HasEntry(rep[b], i)
        /\ EntryAt(rep[a], i).term = EntryAt(rep[b], i).term
        => \A j \in 1..i : HasEntry(rep[a], j) /\ HasEntry(rep[b], j)
                               => EntryAt(rep[a], j) = EntryAt(rep[b], j)

\* No two replicas ever applied different commands at one index
\* (_apply_committed_entries, install_snapshot and the reload at a restart).
StateMachineSafety ==
    \A a, b \in Node : \A i \in DOMAIN rep[a].sm \cap DOMAIN rep[b].sm :
        rep[a].sm[i] = rep[b].sm[i]

\* Node m has entry e at index i, in its log or in its snapshot.
Holds(m, i, e) ==
    \/ HasEntry(rep[m], i) /\ EntryAt(rep[m], i) = e
    \/ i \in DOMAIN rep[m].snap.data /\ rep[m].snap.data[i] = e

\* Every entry any node counts as committed is held by a majority, in the log
\* or in the snapshot (the match indices _update_commit_index goes by).
CommittedOnMajority ==
    \A n \in Node : \A i \in 1..Smaller(rep[n].commit, Len(rep[n].sm)) :
        {m \in Node : Holds(m, i, rep[n].sm[i])} \in Quorum

\* A leader that no node has outrun holds every entry any node has committed,
\* at its index, in its log or in its machine (log_ok in request_vote).
LeaderCompleteness ==
    \A l \in Node :
        role[l] = "leader" /\ (\A n \in Node : term[n] <= term[l]) =>
            \A n \in Node : \A i \in 1..rep[n].commit :
                /\ i <= LastIndex(rep[l])
                /\ HasEntry(rep[l], i) => EntryAt(rep[l], i) = rep[n].sm[i]

\* A proposal that returned success was applied at its index, and is what
\* every replica that got so far applied there (_propose_command).
AckedIsApplied ==
    \A a \in acked :
        /\ \E n \in Node : rep[n].applied >= a.index
        /\ \A n \in Node : a.index \in DOMAIN rep[n].sm => rep[n].sm[a.index].val = a.val

\* A linearizable read that is answered is answered at or past every index
\* any node knew to be committed when the read began (_read_index).
ReadIsFresh == read.pc = "answered" => read.index >= read.floor

\* The leader a node reports is the one that leads in the node's term
\* (_leader_id is set by a leader's own call and forgotten with the term).
ReportedLeaderLeads ==
    \A n, l \in Node :
        leader[n] # None /\ role[l] = "leader" /\ term[l] = term[n] => leader[n] = l

\* What the storage holds of a node's term never goes back, and a vote it
\* holds for a term is never replaced within that term (save_meta before the
\* answer), over restarts too.
VoteIsDurable ==
    [][\A n \in Node :
          /\ disk'[n].term >= disk[n].term
          /\ disk'[n].term = disk[n].term /\ disk[n].vote # None
                => disk'[n].vote = disk[n].vote]_vars

\* What a node counts as committed stays committed for it, through elections,
\* snapshots and restarts (save_commit_index comes before the apply, and the
\* reload takes the saved index or the snapshot's).
CommitNeverRegresses == [][\A n \in Node : rep'[n].commit >= rep[n].commit]_vars

\* A node's term never goes back, over a restart either (_save_meta and the
\* load of the stored term).
TermNeverRegresses == [][\A n \in Node : term'[n] >= term[n]]_vars

-----------------------------------------------------------------------------
(* Why no two nodes lead in one term: the invariant behind it.             *)

\* The votes that count or may still come to count: those a candidate holds
\* and those granted in replies on their way.
VotesCast ==
    {[voter |-> x[2], term |-> term[x[1]], for |-> x[1]] :
        x \in {y \in Node \X Node : role[y[1]] = "candidate" /\ y[2] \in votes[y[1]]}}
    \cup
    {[voter |-> m.to, term |-> m.term, for |-> m.from] :
        m \in {r \in rpcs : r.kind = "voteReply" /\ r.granted}}

\* The calls leaders have made to their followers, and those a handshake has
\* still to make.
LeaderCalls == {m \in rpcs \cup read.todo : m.kind \in {"append", "snapshot"}}

\* The leaders there is a trace of: those that lead, those a node reports, and
\* those whose calls may still be heard.
Led ==
    {[term |-> term[n], node |-> n] : n \in {k \in Node : role[k] = "leader"}}
    \cup
    {[term |-> term[n], node |-> leader[n]] : n \in {k \in Node : leader[k] # None}}
    \cup
    {[term |-> m.term, node |-> m.from] : m \in LeaderCalls}

\* The storage of v rules out a vote of v in term t for any node but n.
Firm(v, t, n) == disk[v].term > t \/ (disk[v].term = t /\ disk[v].vote = n)

\* Q is firm for n in term t, and casts no vote in that term but for n.
Backs(Q, t, n) ==
    /\ \A v \in Q : Firm(v, t, n)
    /\ \A c \in VotesCast : c.voter \in Q /\ c.term = t => c.for = n

\* n has been elected in term t: a majority is behind it still, though
\* _check_vote_count has forgotten the votes, and n is no candidate in t again.
Elected(t, n) ==
    /\ t > 0
    /\ \E Q \in Quorum : Backs(Q, t, n)
    /\ disk[n].term >= t
    /\ role[n] = "candidate" => term[n] # t

\* A node's memory agrees with its storage on its vote, save for a newer term
\* it was told of in a reply, in which it has not voted (StepDown); a candidate
\* has saved the term it is a candidate in.
MemoryAgrees ==
    \A n \in Node :
        /\ disk[n].term <= term[n]
        /\ disk[n].term = term[n] => vote[n] = disk[n].vote
        /\ disk[n].term < term[n] => vote[n] = None
        /\ role[n] = "candidate" => disk[n].term = term[n] /\ term[n] > 0

\* Every vote cast is in its voter's storage, or behind it.
VotesAreFirm == \A c \in VotesCast : Firm(c.voter, c.term, c.for)

\* A voter casts one vote a term.
OneVotePerTerm ==
    \A c, d \in VotesCast : c.voter = d.voter /\ c.term = d.term => c.for = d.for

\* Whoever leads, is reported as leader or has a leader's call in flight was
\* elected in that term, and nobody else was.
LeadersAreElected ==
    /\ \A a \in Led : Elected(a.term, a.node)
    /\ \A a, b \in Led : a.term = b.term => a.node = b.node

\* The invariant of the elections: what the storage of the voters keeps of an
\* election (save_meta before a vote is granted) outlasts the votes, the
\* replies that carry them, the candidates that counted them and the leaders
\* they made.
ElectionInv == MemoryAgrees /\ VotesAreFirm /\ OneVotePerTerm /\ LeadersAreElected

=============================================================================
