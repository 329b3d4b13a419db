---------------------------- MODULE MvccKeyspace ----------------------------
(***************************************************************************)
(* MVCCStorage of storage/mvcc.py: versions, write records and locks in    *)
(* one ordered table, under  namespace || key || 0 || timestamp.  Every    *)
(* read is a range of that table.  What the reads should find is said by   *)
(* the machine of Mvcc, which is told of the same writes.                  *)
(***************************************************************************)
EXTENDS ByteOrder, SequencesExt

CONSTANTS
    Key, Value, Nothing,    \* as in Mvcc
    MaxByte,    \* the largest byte (0xff)
    Width,      \* the bytes of a timestamp (8)
    Stamps,     \* bound: the timestamps written and read at
    MaxRows     \* bound: rows in the table

\* _check_user_key: no key has the separator in it.
KeyAssumption == \A k \in Key : k \in Seq(1 .. MaxByte)

INSTANCE Mvcc

VARIABLES
    kv,        \* the engine's table
    machine    \* the machine of Mvcc

vars == <<kv, machine>>

Base == MaxByte + 1
MaxTs == Base ^ Width - 1

\* _ts_bytes: fixed width, big-endian
TsBytes(t) == [i \in 1 .. Width |-> (t \div Base ^ (Width - i)) % Base]
Number(b) == FoldLeft(LAMBDA n, d : n * Base + d, 0, b)

Namespace == [version |-> 1, write |-> 3, lock |-> 4]
Prefix(ns, k) == <<Namespace[ns]>> \o k \o <<0>>
RowKey(ns, k, t) == Prefix(ns, k) \o TsBytes(t)

MutantKeyUpperBound(ns, k) == <<Namespace[ns]>> \o k \o <<2>>

KeyUpperBound(ns, k) == <<Namespace[ns]>> \o k \o <<1>>

\* _split_version_key: the separator is where the fixed width puts it.
SplitKey(row) ==
    LET body == Tail(row)
        sep == Len(body) - Width
    IN  [key |-> SubSeq(body, 1, sep - 1), ts |-> Number(SubSeq(body, sep + 1, Len(body)))]

Init == kv = << >> /\ machine = Empty

-----------------------------------------------------------------------------
Room == Cardinality(DOMAIN kv) < MaxRows

SetVersion(k, value, t) ==
    /\ Room
    /\ kv' = Put(kv, RowKey("version", k, t), value)
    /\ machine' = PutVersion(machine, k, value, t)

WriteWriteRecord(k, start, t) ==
    /\ Room
    /\ kv' = Put(kv, RowKey("write", k, t), start)
    /\ machine' = PutRecord(machine, k, start, t)

PutLock(k, value, t) ==
    /\ Room
    /\ kv' = Put(kv, RowKey("lock", k, t), value)
    /\ machine' = [machine EXCEPT !.lock[k] = {x \in @ : x.start # t}
                 \cup {[start |-> t, primary |-> k, value |-> value, fresh |-> TRUE]}]

DropLock(k, t) ==
    /\ kv' = Delete(kv, RowKey("lock", k, t))
    /\ machine' = RemoveLock(machine, k, t)

\* load of a dump: the whole keyspace out, and the rows of the dump in.
LoadDump ==
    LET all == KeysIn(kv, <<1>>, <<5>>)
        dump == [k \in all |-> kv[k]]
        left == DeleteRange(kv, <<1>>, <<5>>)
    IN  /\ kv' = [k \in DOMAIN left \cup all |-> IF k \in all THEN dump[k] ELSE left[k]]
        /\ UNCHANGED machine

Clear ==
    /\ kv' = DeleteRange(kv, <<1>>, <<5>>)
    /\ machine' = Empty

Next ==
    \/ \E k \in Key, t \in Stamps :
          \/ \E v \in Value \cup {Nothing} : SetVersion(k, v, t)
          \/ \E v \in Value : PutLock(k, v, t)
          \/ WriteWriteRecord(k, 0, t)   \* which start a record has is not looked at
          \/ DropLock(k, t)
    \/ LoadDump
    \/ Clear

Spec == Init /\ [][Next]_vars

-----------------------------------------------------------------------------
(* The reads, as scans of the table. *)

\* _get_version_at: the last row of the range that ends after t.
ReadVersionAt(k, t) ==
    LET to == IF t < MaxTs THEN Prefix("version", k) \o TsBytes(t + 1)
              ELSE KeyUpperBound("version", k)
        rows == KeysIn(kv, Prefix("version", k), to)
    IN  IF rows = {} THEN {}
        ELSE LET row == LastKey(rows)
                 stamp == SubSeq(row, Len(Prefix("version", k)) + 1, Len(row))
             IN  {[at |-> Number(stamp), value |-> kv[row]]}

\* get_latest_version, get_latest_write, get_newest_lock: the last row of the key.
ReadLast(ns, k) ==
    LET rows == KeysIn(kv, Prefix(ns, k), KeyUpperBound(ns, k))
    IN  IF rows = {} THEN {}
        ELSE {[ts |-> SplitKey(LastKey(rows)).ts, value |-> kv[LastKey(rows)]]}

\* scan_versions: one pass over the rows in order, which keeps the last visible version
\* of the key it is at and lets it go when the next key comes.
Kept(at) == IF at.value = Nothing THEN << >> ELSE <<[key |-> at.key, at |-> at.ts]>>
Passed(state, row, t) ==
    LET r == SplitKey(row)
        same == state.at.key = r.key
        at == IF same THEN state.at ELSE [key |-> r.key, value |-> Nothing, ts |-> 0]
    IN  [out |-> IF same THEN state.out ELSE state.out \o Kept(state.at),
         at  |-> IF r.ts > t THEN at ELSE [key |-> r.key, value |-> kv[row], ts |-> r.ts]]

ScanVersions(from, to, t) ==
    LET rows == SetToSortSeq(KeysIn(kv, <<1>> \o from, <<1>> \o to), Less)
        none == [key |-> << >>, value |-> Nothing, ts |-> 0]
        end == FoldLeft(LAMBDA s, r : Passed(s, r, t), [out |-> << >>, at |-> none], rows)
    IN  end.out \o Kept(end.at)

-----------------------------------------------------------------------------
\* A read at t is the newest version at or below t of that key and of no other, for keys
\* that are prefixes of one another and at the largest timestamp too (_get_version_at).
ReadsNewest == \A k \in Key, t \in Stamps : ReadVersionAt(k, t) = VersionAt(machine, k, t)

\* The newest version, the newest write record and the newest lock of a key are found in
\* their own namespace and are that key's (_key_upper_bound: "sorts after all of them and
\* before any other key that merely shares a prefix").
ReadsOwnRows ==
    \A k \in Key :
        /\ ReadLast("version", k) = {[ts |-> v.at, value |-> v.value] : v \in LatestVersion(machine, k)}
        /\ ReadLast("write", k) = {[ts |-> w.commit, value |-> w.start] : w \in LatestWrite(machine, k)}
        /\ ReadLast("lock", k) = {[ts |-> x.start, value |-> x.value] : x \in NewestLock(machine, k)}

\* A scan of [from, to) has a row for every key of the range that a read finds at t, at
\* the version the read finds, once, and in the order of the keys (scan_versions).
ScanIsReads ==
    \A from, to \in Key \cup {<< >>}, t \in Stamps :
        LET rows == ScanVersions(from, to, t)
            found == {k \in Key : Within(k, from, to) /\ ValueAt(machine, k, t).value # Nothing}
        IN  /\ Range(rows) = {[key |-> k, at |-> ValueAt(machine, k, t).at] : k \in found}
            /\ \A i, j \in DOMAIN rows : i < j => Less(rows[i].key, rows[j].key)
=============================================================================
