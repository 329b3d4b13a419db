---------------------------- MODULE NodeStorage -----------------------------
(***************************************************************************)
(* The calls a node (oxidedb/raft/node.py) makes of its storage, in the    *)
(* order it makes them: an entry goes after the last one, a cut goes above *)
(* the commit index, a snapshot of an applied prefix is stored before the  *)
(* entries it covers are dropped.  The node calls under its lock, one call *)
(* at a time; it may die between two of them.                              *)
(***************************************************************************)
EXTENDS Integers, FiniteSets

CONSTANTS
    Node,       \* whom a node may vote for
    Note,       \* the names of its administrative notes
    None,       \* no vote, no snapshot
    Snapshots,  \* does the node take snapshots (snapshot_interval > 0)?
    MaxTerm,    \* bound: terms
    MaxIndex    \* bound: log indices

StorageAssumption ==
    None \notin Node /\ Snapshots \in BOOLEAN /\ MaxTerm \in Nat /\ MaxIndex \in Nat

VARIABLE
    mem    \* the node's memory: term, vote, last index, commit index, the snapshot's
           \* index, the index it is about to compact to (0: none), and whether it
           \* owes the storage its commit index

Fresh == [term |-> 0, vote |-> None, last |-> 0, commit |-> 0, snap |-> 0,
          todo |-> 0, owes |-> FALSE]

Idle == mem.todo = 0 /\ ~ mem.owes

\* A vote or a newer term, before _save_meta.
NewMeta(t, v) ==
    /\ Idle
    /\ t \in mem.term .. MaxTerm
    /\ (t = mem.term => mem.vote = None /\ v # None)
    /\ mem' = [mem EXCEPT !.term = t, !.vote = v]

\* A new entry at the end of the log, before _save_log_entry.
NewEntry ==
    /\ Idle
    /\ mem.last < MaxIndex
    /\ mem' = [mem EXCEPT !.last = @ + 1]

\* A conflict at index i above the commit index, before _save_log_truncate.
Conflict(i) ==
    /\ Idle
    /\ i \in mem.commit + 1 .. mem.last
    /\ mem' = [mem EXCEPT !.last = i - 1]

\* _update_commit_index or the leader's commit index, before _save_commit_index.
NewCommit(i) ==
    /\ Idle
    /\ i \in mem.commit + 1 .. mem.last
    /\ mem' = [mem EXCEPT !.commit = i]

\* _maybe_snapshot: the applied prefix, and then what it covers has to go.
NewSnapshot ==
    /\ Snapshots
    /\ Idle
    /\ mem.commit > mem.snap
    /\ mem' = [mem EXCEPT !.snap = mem.commit, !.todo = mem.commit]

\* install_snapshot: the leader's snapshot, which may lie past the end of the log.
Installed(i) ==
    /\ Snapshots
    /\ Idle
    /\ i \in mem.commit + 1 .. MaxIndex
    /\ mem' = [mem EXCEPT !.snap = i, !.todo = i,
                          !.last = IF @ < i THEN i ELSE @, !.commit = i, !.owes = TRUE]

\* The last step of install_snapshot.
Repaid == mem.todo = 0 /\ mem.owes /\ mem' = [mem EXCEPT !.owes = FALSE]

Compacted == mem.todo # 0 /\ mem' = [mem EXCEPT !.todo = 0]

\* _load_from_storage over what the storage answers.
Reloaded(meta, commit, log, snapshot) ==
    LET base == IF snapshot = None THEN 0 ELSE snapshot.index
        kept == {e.index : e \in log} \cap (base + 1 .. MaxIndex)
        last == IF kept = {} THEN base ELSE CHOOSE i \in kept : \A j \in kept : j <= i
        low  == IF commit < last THEN commit ELSE last
    IN  [term |-> meta.term, vote |-> meta.vote, last |-> last, snap |-> base,
         commit |-> IF low < base THEN base ELSE low, todo |-> 0, owes |-> FALSE]

\* What a node that starts on this storage can build its machine from: the snapshot, if
\* its payload is the state of its own index, and every entry from there to the commit
\* index.
Rebuilds(commit, log, snapshot) ==
    LET base == IF snapshot = None THEN 0 ELSE snapshot.index
    IN  /\ snapshot # None => snapshot.data = base
        /\ \A i \in base + 1 .. commit : \E e \in log : e.index = i
=============================================================================
