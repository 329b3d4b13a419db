---------------------------- MODULE MvccMachine -----------------------------
(***************************************************************************)
(* One shard's machine given every command, in every order, by clients     *)
(* that need not follow the protocol, with its snapshot installed on       *)
(* another replica in between.                                             *)
(***************************************************************************)
EXTENDS Mvcc

CONSTANT MaxTimestamp   \* bound: timestamps a command may carry

ASSUME BoundAssumption == MaxTimestamp \in Nat

VARIABLE m   \* the machine of the replica that is looked at

Timestamp == 1 .. MaxTimestamp

MachineInit == m = Empty

Applied(result) == m' = result.m

GivenSet(k, v, t, start) == Applied(ApplySet(m, k, v, t, start))
GivenDelete(k, t) == Applied(ApplyDelete(m, k, t))
GivenPrewrite(k, v, start, p) == Applied(ApplyPrewrite(m, k, v, start, p))
GivenCommit(k, start, t) == Applied(ApplyCommit(m, k, start, t))
GivenRollback(k, start) == Applied(ApplyRollback(m, k, start))
GivenCleanLock(k, start) == Applied(ApplyCleanLock(m, k, start))
GivenAge(k) == m' = Aged(m, k)

\* snapshot: every row of the storage, and the read timestamp.
Snapshot == [ts |-> m.last, storage |-> [row |-> m.row, wrote |-> m.wrote, lock |-> m.lock]]

MutantRestored(data) ==   \* the read timestamp is left behind
    [row |-> data.storage.row, wrote |-> data.storage.wrote,
     lock |-> data.storage.lock, last |-> 0]

\* restore: rows and read timestamp of the snapshot, nothing of what was there.
Restored(data) ==
    [row |-> data.storage.row, wrote |-> data.storage.wrote,
     lock |-> data.storage.lock, last |-> data.ts]

\* Another replica is sent this one's snapshot; it is the one looked at from here on.
Install == m' = Restored(Snapshot)

\* restore of no data: a machine that has applied nothing.
Reset == m' = Empty

MachineNext ==
    \/ \E k \in Key, v \in Value, t \in Timestamp, s \in 0 .. MaxTimestamp : GivenSet(k, v, t, s)
    \/ \E k \in Key, t \in Timestamp : GivenDelete(k, t)
    \/ \E k, p \in Key, v \in Value, s \in Timestamp : GivenPrewrite(k, v, s, p)
    \/ \E k \in Key, s, t \in Timestamp : GivenCommit(k, s, t)
    \/ \E k \in Key, s \in Timestamp : GivenRollback(k, s)
    \/ \E k \in Key, s \in 0 .. MaxTimestamp : GivenCleanLock(k, s)
    \/ \E k \in Key : GivenAge(k)
    \/ Install
    \/ Reset

MachineSpec == MachineInit /\ [][MachineNext]_m

-----------------------------------------------------------------------------
(* Properties *)

\* A key has at most one lock, whatever is proposed: _apply_prewrite refuses a second,
\* its own transaction's included, so the newest lock is the only one.
OneLock == \A k \in Key : \A x, y \in m.lock[k] : x = y

\* A read that names no timestamp reads at _last_applied_timestamp, and that is never
\* behind a version: such a read sees the newest version there is, after a restore too.
NewestIsRead ==
    \A k \in Key :
        Get(m, k, 0).ok => VersionAt(m, k, ReadTimestamp(m, 0)) = LatestVersion(m, k)

\* A range read answers exactly when every key of the range can be read by itself, and
\* with the same values and versions: scan_versions and get decide on locks, tombstones
\* and timestamps in two places.
ScanAgreesWithGet ==
    \A t \in 0 .. MaxTimestamp :
        LET rows == ScanRows(m, Key, t)
        IN  /\ ScanRefused(m, Key, t) <=> \E k \in Key : ~Get(m, k, t).ok
            /\ ~ScanRefused(m, Key, t) =>
                  \A k \in Key :
                      IF k \in DOMAIN rows
                      THEN Get(m, k, t) = [ok |-> TRUE, value |-> rows[k].value,
                                           at |-> rows[k].at]
                      ELSE Get(m, k, t).value = Nothing

=============================================================================
