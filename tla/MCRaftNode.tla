----------------------------- MODULE MCRaftNode -----------------------------
(* RaftNode for TLC.  A run checks several scenarios, each with its own nodes, *)
(* commands and bounds; a behaviour keeps to the one it begins with.           *)
EXTENDS RaftNode, TLC

CONSTANTS
    Lone,       \* the one node of a group of one
    Scenarios   \* the names of the scenarios of this run

VARIABLE scenario

Quiet == [node |-> Node, value |-> {}, every |-> 0, late |-> FALSE, elections |-> 2,
          index |-> 2, rpcs |-> 1, restarts |-> 0, reads |-> 0]

Bounds == [
    elections |-> [Quiet EXCEPT !.rpcs = 2],
    restarts  |-> [Quiet EXCEPT !.restarts = 2],
    reads     |-> [Quiet EXCEPT !.reads = 1],
    logs      |-> [Quiet EXCEPT !.elections = 3],
    proposals |-> [Quiet EXCEPT !.value = Value],
    snapshots |-> [Quiet EXCEPT !.value = Value, !.every = 1, !.elections = 1,
                                !.rpcs = 2],
    failover  |-> [Quiet EXCEPT !.every = 1, !.rpcs = 2],
    reload    |-> [Quiet EXCEPT !.every = 1, !.restarts = 1],
    alone     |-> [Quiet EXCEPT !.node = {Lone}, !.value = Value, !.every = 2,
                                !.elections = 3, !.index = 4, !.restarts = 2],
    \* Known differences between the code and its documents (README, section 8).
    lateVotes |-> [Quiet EXCEPT !.late = TRUE, !.elections = 3, !.rpcs = 2],
    suffix    |-> [Quiet EXCEPT !.value = Value, !.every = 1],
    readSnap  |-> [Quiet EXCEPT !.value = Value, !.every = 1, !.reads = 1],
    terms     |-> [Quiet EXCEPT !.restarts = 1]]

Group(b) == INSTANCE RaftNode WITH
    Node <- b.node, Value <- b.value, SnapshotInterval <- b.every, LateVotes <- b.late,
    MaxElections <- b.elections, MaxIndex <- b.index, MaxRpcs <- b.rpcs,
    MaxRestarts <- b.restarts, MaxReads <- b.reads

ScenarioInit ==
    \E s \in Scenarios : scenario = s /\ Group(Bounds[s])!Init

ScenarioNext ==
    /\ \E s \in Scenarios : scenario = s /\ Group(Bounds[s])!Next
    /\ UNCHANGED scenario

ScenarioSpec == ScenarioInit /\ [][ScenarioNext]_<<vars, scenario>>

\* The log's properties, in the group of the scenario: one of three nodes, or of one.

\* CommittedOnMajority: an entry counted as committed is in the log or the snapshot of a
\* majority (_update_commit_index, install_snapshot).
MajorityHolds == \A s \in Scenarios : scenario = s => Group(Bounds[s])!CommittedOnMajority

\* LeaderCompleteness: a leader nobody has outrun holds what any node has committed, over
\* three elections and over snapshots (log_ok in request_vote).
LeadersAreComplete == \A s \in Scenarios : scenario = s => Group(Bounds[s])!LeaderCompleteness

\* LogMatching and StateMachineSafety: logs that hold an entry of one term at an index are
\* the same up to it, and no two replicas applied different commands at an index, whether
\* from the log, from a leader's snapshot or from their own after a restart
\* (append_entries, install_snapshot, _apply_committed_entries, _load_from_storage).
ReplicasAgree ==
    \A s \in Scenarios : scenario = s =>
        Group(Bounds[s])!LogMatching /\ Group(Bounds[s])!StateMachineSafety

\* AckedIsApplied: a proposal that returned success is what is applied at its index, when
\* leaders change and when its entry has been compacted (_propose_command).
AckedStays == \A s \in Scenarios : scenario = s => Group(Bounds[s])!AckedIsApplied

\* What a node counts as committed stays committed for it: the reload takes the saved commit
\* index or the snapshot's, whichever is higher (_load_from_storage).
CommitStays == [][\A n \in DOMAIN rep : rep'[n].commit >= rep[n].commit]_vars

\* What a node that does not lead thinks of its peers, and the votes of one that is not a
\* candidate, are never read before they are reset; of a handshake that is over only its
\* outcome is looked at.
View ==
    <<scenario, term, vote, role, leader,
      [n \in DOMAIN role |-> IF role[n] = "candidate" THEN votes[n] ELSE {}],
      rep, [n \in DOMAIN role |-> IF role[n] = "leader" THEN <<next[n], match[n]>> ELSE << >>],
      disk, rpcs, pending, acked, budget,
      IF read.pc \in {"answered", "failed"} THEN <<read.index >= read.floor>> ELSE <<read>> >>

NodeSymmetry == Permutations(Node)
=============================================================================
