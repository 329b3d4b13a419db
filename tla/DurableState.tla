---------------------------- MODULE DurableState ----------------------------
(***************************************************************************)
(* What RaftStorage (oxidedb/raft/storage.py) promises a node: five things *)
(* that are kept apart, each replaced whole, by one call, at one moment.   *)
(* The variables are what the load calls would answer.                     *)
(***************************************************************************)
EXTENDS Integers

CONSTANT None

VARIABLES
    meta,      \* load_meta: the term and the vote
    commit,    \* load_commit_index
    log,       \* load_log: a set of [index, term]
    snapshot,  \* load_snapshot: [index, data], or None; a term goes with its index
    notes      \* the names load_admin finds a note under

vars == <<meta, commit, log, snapshot, notes>>

Init ==
    /\ meta = [term |-> 0, vote |-> None]
    /\ commit = 0
    /\ log = {}
    /\ snapshot = None
    /\ notes = {}

SaveMeta == UNCHANGED <<commit, log, snapshot, notes>>
SaveCommitIndex == UNCHANGED <<meta, log, snapshot, notes>>
SaveOrDropNote == UNCHANGED <<meta, commit, log, snapshot>>

AppendLogEntry ==
    /\ \E e \in log' : (\A f \in log : f.index < e.index) /\ log' = log \cup {e}
    /\ UNCHANGED <<meta, commit, snapshot, notes>>

\* "Drop every entry with index >= from_index."
TruncateLog ==
    /\ \E e \in log : log' = {f \in log : f.index < e.index}
    /\ UNCHANGED <<meta, commit, snapshot, notes>>

\* "Drop every entry with index <= last_included_index", which the snapshot covers.
CompactLog ==
    /\ snapshot # None
    /\ log' = {e \in log : e.index > snapshot.index}
    /\ UNCHANGED <<meta, commit, snapshot, notes>>

\* The payload kept is the machine's state at the index it is kept under.
SaveSnapshot ==
    /\ snapshot' # None
    /\ snapshot'.data = snapshot'.index
    /\ UNCHANGED <<meta, commit, log, notes>>

Clear ==
    /\ meta' = [term |-> 0, vote |-> None] /\ commit' = 0
    /\ log' = {} /\ snapshot' = None /\ notes' = {}

Next ==
    \/ SaveMeta \/ SaveCommitIndex \/ SaveOrDropNote
    \/ AppendLogEntry \/ TruncateLog \/ CompactLog \/ SaveSnapshot \/ Clear

Spec == Init /\ [][Next]_vars
=============================================================================
