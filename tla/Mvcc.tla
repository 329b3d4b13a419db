-------------------------------- MODULE Mvcc --------------------------------
(***************************************************************************)
(* The machine of a shard (raft/state_machine.py over storage/mvcc.py): a  *)
(* command is an operator from the machine's state to what it answers and  *)
(* the state it leaves.                                                    *)
(*                                                                         *)
(* m.row[k] are the versions of key k, m.wrote[k] its write records,       *)
(* m.lock[k] its locks, m.last is _last_applied_timestamp.  A lock is      *)
(* `fresh` until its TTL has passed.                                       *)
(***************************************************************************)
EXTENDS Integers

CONSTANTS
    Key,        \* keys
    Value,      \* what a version may hold
    Nothing     \* no value: a tombstone, or a key that is not there

ASSUME NothingAssumption == Nothing \notin Value

Version == [at : Nat, value : Value \cup {Nothing}]
Record == [commit : Nat, start : Nat]
Lock == [start : Nat, primary : Key, value : Value, fresh : BOOLEAN]

Machine ==
    [row : [Key -> SUBSET Version], wrote : [Key -> SUBSET Record],
     lock : [Key -> SUBSET Lock], last : Nat]

Empty ==
    [row |-> [k \in Key |-> {}], wrote |-> [k \in Key |-> {}],
     lock |-> [k \in Key |-> {}], last |-> 0]

Newer(a, b) == IF a > b THEN a ELSE b

-----------------------------------------------------------------------------
(* Reads, each of the last row of a scan in timestamp order.  What may be    *)
(* absent is a set of one element or none.                                   *)

\* _get_version_at and get_latest_version
VersionAt(m, k, t) ==
    {v \in m.row[k] : v.at <= t /\ \A u \in m.row[k] : u.at <= t => u.at <= v.at}
LatestVersion(m, k) == {v \in m.row[k] : \A u \in m.row[k] : u.at <= v.at}

\* get_latest_write, the only write record anything reads
LatestWrite(m, k) == {w \in m.wrote[k] : \A u \in m.wrote[k] : u.commit <= w.commit}

\* get_newest_lock
NewestLock(m, k) == {x \in m.lock[k] : \A y \in m.lock[k] : y.start <= x.start}

\* get_lock
LockOf(m, k, start) == {x \in m.lock[k] : x.start = start}

\* get_version: a tombstone reads as no version.
ValueAt(m, k, t) ==
    LET found == {v \in VersionAt(m, k, t) : v.value # Nothing}
    IN  IF found = {} THEN [value |-> Nothing, at |-> 0]
        ELSE CHOOSE v \in found : TRUE

\* A timestamp of 0 is None, the read of the newest version.
ReadTimestamp(m, t) == IF t = 0 THEN m.last ELSE t

\* Does the lock hide the key from a read at t?
Hides(x, t) == t = 0 \/ x.start < t

\* get
Get(m, k, t) ==
    LET newest == NewestLock(m, k)
        own == {x \in newest : t # 0 /\ x.start = t}
    IN  IF own # {} THEN [ok |-> TRUE, value |-> (CHOOSE x \in own : TRUE).value, at |-> 0]
        ELSE IF \E x \in newest : Hides(x, t)
        THEN [ok |-> FALSE, value |-> Nothing, at |-> 0]
        ELSE [ok |-> TRUE, value |-> ValueAt(m, k, ReadTimestamp(m, t)).value,
              at |-> ValueAt(m, k, ReadTimestamp(m, t)).at]

MutantScanRefused(m, range, t) ==   \* a transaction's own lock is in its way
    \E k \in range : \E x \in m.lock[k] : t = 0 \/ x.start <= t

\* scan_versions over a set of keys: refused if one lock hides a key.
ScanRefused(m, range, t) == \E k \in range : \E x \in m.lock[k] : Hides(x, t)

ScanRows(m, range, t) ==
    LET intents == {k \in range : \E x \in m.lock[k] : x.start = t}
        visible == {k \in range : ValueAt(m, k, ReadTimestamp(m, t)).value # Nothing}
    IN  [k \in intents \cup visible |->
            IF k \in intents
            THEN [value |-> (CHOOSE x \in m.lock[k] : x.start = t).value, at |-> 0]
            ELSE [value |-> ValueAt(m, k, ReadTimestamp(m, t)).value,
                  at |-> ValueAt(m, k, ReadTimestamp(m, t)).at]]

-----------------------------------------------------------------------------
(* Commands *)

Done(m) == [code |-> "ok", m |-> m]
Fail(code, m) == [code |-> code, m |-> m]

\* storage.set and storage.delete: a version replaces the one at its timestamp.
PutVersion(m, k, value, t) ==
    [m EXCEPT !.row[k] = {v \in @ : v.at # t} \cup {[at |-> t, value |-> value]}]

PutRecord(m, k, start, commit) ==
    [m EXCEPT !.wrote[k] = {w \in @ : w.commit # commit}
                           \cup {[commit |-> commit, start |-> start]}]

RemoveLock(m, k, start) == [m EXCEPT !.lock[k] = {x \in @ : x.start # start}]

\* _last_applied_timestamp only rises.
Advance(m, t) == [m EXCEPT !.last = Newer(@, t)]

\* _apply_set, of a row a split or a move copies when `start` is not 0; _apply_delete is
\* the same with Nothing, and has no start.
ApplySet(m, k, value, t, start) ==
    LET put == PutVersion(m, k, value, t)
    IN  Done(Advance(IF start = 0 THEN put ELSE PutRecord(put, k, start, t), t))

ApplyDelete(m, k, t) == Done(Advance(PutVersion(m, k, Nothing, t), t))

MutantApplyPrewrite(m, k, value, start, primary) ==   \* a lock does not keep others out
    IF \/ \E w \in LatestWrite(m, k) : w.commit > start
       \/ \E v \in LatestVersion(m, k) : v.at > start
    THEN Fail("conflict", m)
    ELSE Done([m EXCEPT !.lock[k] = LET other == {x \in @ : x.start # start}
                                        mine == [start |-> start, primary |-> primary,
                                                 value |-> value, fresh |-> TRUE]
                                    IN  other \cup {mine}])

\* _apply_prewrite
ApplyPrewrite(m, k, value, start, primary) ==
    IF NewestLock(m, k) # {} THEN Fail("locked", m)
    ELSE IF \/ \E w \in LatestWrite(m, k) : w.commit > start
            \/ \E v \in LatestVersion(m, k) : v.at > start
    THEN Fail("conflict", m)
    ELSE Done([m EXCEPT !.lock[k] = @ \cup {[start |-> start, primary |-> primary,
                                             value |-> value, fresh |-> TRUE]}])

\* _apply_commit and _apply_rollback, when the lock asked for is not there
NoLock(m, k) == Fail(IF NewestLock(m, k) = {} THEN "nolock" ELSE "mismatch", m)

\* _apply_commit
ApplyCommit(m, k, start, commit) ==
    IF LockOf(m, k, start) = {} THEN NoLock(m, k)
    ELSE LET x == CHOOSE x \in LockOf(m, k, start) : TRUE
             written == PutRecord(PutVersion(m, k, x.value, commit), k, start, commit)
         IN  Done(Advance(RemoveLock(written, k, start), commit))

\* _apply_rollback
ApplyRollback(m, k, start) ==
    IF LockOf(m, k, start) # {} THEN Done(RemoveLock(m, k, start))
    ELSE IF NewestLock(m, k) = {} THEN Done(m) ELSE NoLock(m, k)

\* _apply_clean_lock; a start of 0 is None.
ApplyCleanLock(m, k, start) ==
    LET found == {x \in NewestLock(m, k) : start = 0 \/ x.start = start}
    IN  Done(IF found = {} THEN m ELSE RemoveLock(m, k, (CHOOSE x \in found : TRUE).start))

\* The TTL of a lock passes.
Aged(m, k) == [m EXCEPT !.lock[k] = {[x EXCEPT !.fresh = FALSE] : x \in @}]
=============================================================================
