-------------------------- MODULE JSONFileStorage ---------------------------
(***************************************************************************)
(* JSONFileStorage of oxidedb/raft/storage.py: four files.  The meta file  *)
(* holds the term, the vote, the commit index and the snapshot's index; it *)
(* is replaced whole, from what the call has read of it.  The snapshot's   *)
(* payload is a file of its own, written in place before its index is.     *)
(***************************************************************************)
EXTENDS NodeStorage

CONSTANTS
    Torn,         \* a payload cut short
    LateMeta,     \* may a term or a vote be saved after a snapshot has been?
    CrashInSave   \* may the process die inside save_snapshot?

FaultAssumption == {LateMeta, CrashInSave} \subseteq BOOLEAN

VARIABLES
    metaFile,      \* raft_meta.json: its fields, or None before the first save
    logFile,       \* raft_log.json
    snapshotFile,  \* raft_snapshot.bin: the index its payload is of, Torn, or None
    adminFile,     \* raft_admin.json
    step,          \* of save_snapshot: "none", "opened", "written"
    kept           \* the last snapshot save_snapshot has returned for

files == <<metaFile, logFile, snapshotFile, adminFile>>
vars == <<mem, files, step, kept>>

Init ==
    /\ mem = Fresh
    /\ metaFile = None
    /\ logFile = {}
    /\ snapshotFile = None
    /\ adminFile = {}
    /\ step = "none"
    /\ kept = None

Ready == step = "none"

-----------------------------------------------------------------------------
LoadMeta ==
    IF metaFile = None THEN [term |-> 0, vote |-> None]
    ELSE [term |-> metaFile.term, vote |-> metaFile.vote]
LoadCommitIndex == IF metaFile = None THEN 0 ELSE metaFile.commit
LoadLog == logFile
LoadSnapshot ==
    IF snapshotFile = None \/ metaFile = None \/ metaFile.snapshot = None
    THEN None
    ELSE [index |-> metaFile.snapshot, data |-> snapshotFile]

MutantSaveMeta(t, v) ==
    /\ Ready /\ NewMeta(t, v) /\ (LateMeta \/ kept = None)
    /\ metaFile' = [term |-> t, vote |-> v, commit |-> 0, snapshot |-> None]
    /\ UNCHANGED <<logFile, snapshotFile, adminFile, step, kept>>

\* The new file has the term, the vote and the old file's commit index: the snapshot's
\* index is not among what is carried over.
SaveMeta(t, v) ==
    /\ Ready /\ NewMeta(t, v) /\ (LateMeta \/ kept = None)
    /\ metaFile' = [term |-> t, vote |-> v, commit |-> LoadCommitIndex, snapshot |-> None]
    /\ UNCHANGED <<logFile, snapshotFile, adminFile, step, kept>>

\* save_commit_index carries every other field over.
WithCommit(c) ==
    metaFile' = [term |-> LoadMeta.term, vote |-> LoadMeta.vote, commit |-> c,
                 snapshot |-> IF metaFile = None THEN None ELSE metaFile.snapshot]

SaveCommitIndex(i) ==
    /\ Ready /\ NewCommit(i)
    /\ WithCommit(i)
    /\ UNCHANGED <<logFile, snapshotFile, adminFile, step, kept>>

RepayCommitIndex ==
    /\ Ready /\ Repaid
    /\ WithCommit(mem.commit)
    /\ UNCHANGED <<logFile, snapshotFile, adminFile, step, kept>>

AppendLogEntry ==
    /\ Ready /\ NewEntry
    /\ logFile' = {e \in logFile : e.index < mem.last + 1}
                  \cup {[index |-> mem.last + 1, term |-> mem.term]}
    /\ UNCHANGED <<metaFile, snapshotFile, adminFile, step, kept>>

TruncateLog(i) ==
    /\ Ready /\ Conflict(i)
    /\ logFile' = {e \in logFile : e.index < i}
    /\ UNCHANGED <<metaFile, snapshotFile, adminFile, step, kept>>

CompactLog ==
    /\ Ready /\ Compacted
    /\ logFile' = {e \in logFile : e.index > mem.todo}
    /\ UNCHANGED <<metaFile, snapshotFile, adminFile, step, kept>>

\* save_snapshot: the payload's file is opened, which empties it,
SaveSnapshot ==
    /\ Ready /\ (NewSnapshot \/ \E i \in 1 .. MaxIndex : Installed(i))
    /\ snapshotFile' = Torn
    /\ step' = "opened"
    /\ UNCHANGED <<metaFile, logFile, adminFile, kept>>

\* the payload is written,
WritePayload ==
    /\ step = "opened"
    /\ snapshotFile' = mem.snap
    /\ step' = "written"
    /\ UNCHANGED <<mem, metaFile, logFile, adminFile, kept>>

\* and the index goes into the meta file.
WriteIndex ==
    /\ step = "written"
    /\ metaFile' = [term |-> LoadMeta.term, vote |-> LoadMeta.vote,
                    commit |-> LoadCommitIndex, snapshot |-> mem.snap]
    /\ step' = "none"
    /\ kept' = [index |-> mem.snap, data |-> mem.snap]
    /\ UNCHANGED <<mem, logFile, snapshotFile, adminFile>>

SaveAdmin(n) ==
    /\ Ready
    /\ adminFile' = adminFile \cup {n}
    /\ UNCHANGED <<mem, metaFile, logFile, snapshotFile, step, kept>>

DeleteAdmin(n) ==
    /\ Ready
    /\ adminFile' = adminFile \ {n}
    /\ UNCHANGED <<mem, metaFile, logFile, snapshotFile, step, kept>>

\* clear removes the four files.
Clear ==
    /\ Ready
    /\ mem' = Fresh
    /\ metaFile' = None /\ logFile' = {} /\ snapshotFile' = None /\ adminFile' = {}
    /\ kept' = None
    /\ UNCHANGED step

\* The process dies, in the middle of save_snapshot too, and starts again.
Restart ==
    /\ Ready \/ CrashInSave
    /\ mem' = Reloaded(LoadMeta, LoadCommitIndex, LoadLog, LoadSnapshot)
    /\ step' = "none"
    /\ UNCHANGED <<files, kept>>

Next ==
    \/ \E t \in 0 .. MaxTerm, v \in Node \cup {None} : SaveMeta(t, v)
    \/ AppendLogEntry
    \/ \E i \in 1 .. MaxIndex : TruncateLog(i) \/ SaveCommitIndex(i)
    \/ RepayCommitIndex
    \/ SaveSnapshot \/ WritePayload \/ WriteIndex \/ CompactLog
    \/ \E n \in Note : SaveAdmin(n) \/ DeleteAdmin(n)
    \/ Clear
    \/ Restart

Spec == Init /\ [][Next]_vars

-----------------------------------------------------------------------------
\* What the loads answer, taken for the state of DurableState.
Contract == INSTANCE DurableState WITH
    meta <- LoadMeta, commit <- LoadCommitIndex, log <- LoadLog,
    snapshot <- IF Ready THEN LoadSnapshot ELSE kept, notes <- adminFile
\* The JSON files keep the contract of RaftStorage ("it now honours the same contract",
\* storage.py) for a node that saves no term or vote after its first snapshot and does
\* not die inside save_snapshot, which runs under the node's lock.
KeepsContract == Contract!Spec

\* A node that starts on these files finds every committed entry, in the snapshot or in
\* the log, after a crash between the snapshot and the cut of the log too (the order of
\* _maybe_snapshot).
RebuildsCommitted ==
    Ready => Rebuilds(LoadCommitIndex, LoadLog, LoadSnapshot)

\* The snapshot saved last is the one that is loaded, whatever was saved of the other
\* things since (save_meta after save_snapshot).
SnapshotIsLoaded == Ready /\ kept # None => LoadSnapshot # None

\* The payload that is loaded is the state of the index it is loaded under: a crash
\* inside save_snapshot leaves no payload under another snapshot's index.
PayloadIsOfIndex == LoadSnapshot # None /\ Ready => LoadSnapshot.data = LoadSnapshot.index
=============================================================================
