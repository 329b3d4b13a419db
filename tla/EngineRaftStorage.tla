------------------------- MODULE EngineRaftStorage --------------------------
(***************************************************************************)
(* EngineRaftStorage of oxidedb/raft/storage.py: the five things of a node *)
(* in one ordered keyspace.  An eight-byte big-endian index is one number  *)
(* of its key, since numbers and their fixed-width bytes order alike.      *)
(***************************************************************************)
EXTENDS NodeStorage, ByteOrder

VARIABLE kv    \* the engine's table: keys to values

vars == <<mem, kv>>

LogKey(i) == <<1, i>>
META == <<2>>
COMMIT == <<3>>
SNAPSHOT == <<4>>
AdminKey(n) == <<5, n>>

Get(k, default) == IF k \in DOMAIN kv THEN kv[k] ELSE default

Init == mem = Fresh /\ kv = << >>

-----------------------------------------------------------------------------
LoadMeta == Get(META, [term |-> 0, vote |-> None])
LoadCommitIndex == Get(COMMIT, 0)
LoadSnapshot == Get(SNAPSHOT, None)
LoadLog == {[index |-> k[2], term |-> kv[k]] :
               k \in KeysIn(kv, <<1>>, <<2>>)}
LoadNotes == {n \in Note : AdminKey(n) \in DOMAIN kv}

SaveMeta(t, v) ==
    /\ NewMeta(t, v)
    /\ kv' = Put(kv, META, [term |-> t, vote |-> v])

AppendLogEntry ==
    /\ NewEntry
    /\ kv' = Put(kv, LogKey(mem.last + 1), mem.term)

TruncateLog(i) ==
    /\ Conflict(i)
    /\ kv' = DeleteRange(kv, LogKey(i), <<2>>)

SaveCommitIndex(i) ==
    /\ NewCommit(i)
    /\ kv' = Put(kv, COMMIT, i)

RepayCommitIndex ==
    /\ Repaid
    /\ kv' = Put(kv, COMMIT, mem.commit)

SaveSnapshot ==
    /\ NewSnapshot
    /\ kv' = Put(kv, SNAPSHOT, [index |-> mem.commit, data |-> mem.commit])

InstallSnapshot(i) ==
    /\ Installed(i)
    /\ kv' = Put(kv, SNAPSHOT, [index |-> i, data |-> i])

MutantCompactLog ==
    /\ Compacted
    /\ kv' = DeleteRange(kv, LogKey(0), LogKey(mem.todo + 2))   \* one entry too many

CompactLog ==
    /\ Compacted
    /\ kv' = DeleteRange(kv, LogKey(0), LogKey(mem.todo + 1))

SaveAdmin(n) == kv' = Put(kv, AdminKey(n), n) /\ UNCHANGED mem
DeleteAdmin(n) == kv' = Delete(kv, AdminKey(n)) /\ UNCHANGED mem

\* clear: [0x01, 0x06), the notes too.  The node on top starts from nothing.
Clear == kv' = DeleteRange(kv, <<1>>, <<6>>) /\ mem' = Fresh

\* The process dies, between two calls or inside _maybe_snapshot, and starts again.
Restart ==
    /\ mem' = Reloaded(LoadMeta, LoadCommitIndex, LoadLog, LoadSnapshot)
    /\ UNCHANGED kv

Next ==
    \/ \E t \in 0 .. MaxTerm, v \in Node \cup {None} : SaveMeta(t, v)
    \/ AppendLogEntry
    \/ \E i \in 1 .. MaxIndex : TruncateLog(i) \/ SaveCommitIndex(i) \/ InstallSnapshot(i)
    \/ SaveSnapshot
    \/ CompactLog
    \/ RepayCommitIndex
    \/ \E n \in Note : SaveAdmin(n) \/ DeleteAdmin(n)
    \/ Clear
    \/ Restart

Spec == Init /\ [][Next]_vars

-----------------------------------------------------------------------------
\* What the loads answer, taken for the state of DurableState.
Contract == INSTANCE DurableState WITH
    meta <- LoadMeta, commit <- LoadCommitIndex, log <- LoadLog,
    snapshot <- LoadSnapshot, notes <- LoadNotes
\* The engine-backed storage keeps the five things apart: through every call of the node,
\* the range deletes of the log included, each load answers with what was saved last
\* (RaftStorage's contract, implemented by EngineRaftStorage).
KeepsContract == Contract!Spec

\* A node that dies at any moment - between the snapshot and the cut of the log it covers
\* too - finds every committed entry, in the snapshot or in the log (_maybe_snapshot's
\* "the snapshot is written before the log is compacted").  install_snapshot saves the
\* commit index last, so what the storage holds of it may lag.
RebuildsCommitted ==
    /\ Rebuilds(LoadCommitIndex, LoadLog, LoadSnapshot)
    /\ Idle => Reloaded(LoadMeta, LoadCommitIndex, LoadLog, LoadSnapshot) = mem
=============================================================================
