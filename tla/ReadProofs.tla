----------------------------- MODULE ReadProofs -----------------------------
(***************************************************************************)
(* What a read shows: of one shard's machine, and of a group that is read  *)
(* through any of its members.                                             *)
(*                                                                         *)
(* The machine, under every sequence of commands and for every set of keys, *)
(* values and timestamps: one lock a key, and a read timestamp that is not *)
(* behind any version, so that a scan and a get agree.                     *)
(***************************************************************************)
EXTENDS MvccMachine, ClientReads, TLAPS

\* A leaf that names no prover is tried with these, in this order.
USE SMTT(30), Z3T(30), ZenonT(40)

ALock(x) ==
    /\ x.start \in Nat
    /\ x = [start |-> x.start, primary |-> x.primary, value |-> x.value, fresh |-> x.fresh]

\* Every key's locks and versions, and the machine's read timestamp, are of their types.
MachineTypes ==
    /\ m = [row |-> m.row, wrote |-> m.wrote, lock |-> m.lock, last |-> m.last]
    /\ m.row = [k \in Key |-> m.row[k]] /\ m.wrote = [k \in Key |-> m.wrote[k]]
    /\ m.lock = [k \in Key |-> m.lock[k]]
    /\ \A k \in Key : \A v \in m.row[k] : v.at \in Nat
    /\ \A k \in Key : \A x \in m.lock[k] : ALock(x)
    /\ m.last \in Nat

NotBehind == \A k \in Key : \A v \in m.row[k] : v.at <= m.last

MachineInv == MachineTypes /\ OneLock /\ NotBehind

-----------------------------------------------------------------------------
\* A key without a newest lock has no lock (get_newest_lock reads the last row of a scan).
LEMMA NoNewestNoLock ==
    ASSUME MachineTypes, OneLock, NEW k \in Key, NewestLock(m, k) = {} PROVE m.lock[k] = {}
<1> SUFFICES ASSUME NEW x \in m.lock[k] PROVE FALSE
  OBVIOUS
<1>1. \A y \in m.lock[k] : y.start <= x.start
  BY DEF MachineTypes, OneLock, ALock
<1> QED
  BY <1>1 DEF NewestLock

\* A step that writes at most versions of one key, at a timestamp it raises the read
\* timestamp to, and takes locks away.
LEMMA Kept ==
    ASSUME MachineInv, MachineTypes',
           \A k \in Key : \A x \in m'.lock[k] : \A y \in m'.lock[k] : x = y,
           NEW t \in Nat, t <= m'.last, m.last <= m'.last,
           \A k \in Key : \A v \in m'.row[k] : v \in m.row[k] \/ v.at = t
    PROVE  MachineInv'
<1>1. OneLock'
  BY DEF OneLock
<1>2. NotBehind'
  <2> SUFFICES ASSUME NEW k \in Key, NEW v \in m'.row[k] PROVE v.at <= m'.last
    BY DEF NotBehind
  <2>1. CASE v.at = t
    BY <2>1
  <2>2. CASE v \in m.row[k]
    <3>1. v.at \in Nat /\ v.at <= m.last /\ m.last \in Nat /\ m'.last \in Nat
      BY <2>2 DEF MachineInv, MachineTypes, NotBehind
    <3> QED
      BY <3>1
  <2> QED
    BY <2>1, <2>2
<1> QED
  BY <1>1, <1>2 DEF MachineInv

\* Writing a version, with or without its write record (_apply_set, _apply_delete).
LEMMA SetInv ==
    ASSUME MachineInv, NEW k \in Key, NEW v, NEW t \in Timestamp, NEW s \in Nat,
           GivenSet(k, v, t, s) \/ GivenDelete(k, t)
    PROVE  MachineInv'
<1>1. t \in Nat /\ m.last \in Nat
  BY BoundAssumption DEF Timestamp, MachineInv, MachineTypes
<1>2. PICK w : \/ m' = Advance(PutVersion(m, k, w, t), t)
               \/ m' = Advance(PutRecord(PutVersion(m, k, w, t), k, s, t), t)
  BY DEF GivenSet, GivenDelete, Applied, ApplySet, ApplyDelete, Done
<1>3. PICK new : new = {x \in m.row[k] : x.at # t} \cup {[at |-> t, value |-> w]}
  BY Zenon
<1>4. /\ m'.row = [m.row EXCEPT ![k] = new] /\ m'.lock = m.lock
      /\ m'.last = Newer(m.last, t)
      /\ m' = [row |-> m'.row, wrote |-> m'.wrote, lock |-> m'.lock, last |-> m'.last]
      /\ m'.wrote = [j \in Key |-> m'.wrote[j]]
  BY <1>2, <1>3, Zenon DEF Advance, PutRecord, PutVersion, MachineInv, MachineTypes
<1>5. m'.last \in Nat /\ t <= m'.last /\ m.last <= m'.last
  BY <1>1, <1>4 DEF Newer
<1>6. /\ m'.row = [j \in Key |-> m'.row[j]] /\ m'.row[k] = new
      /\ \A j \in Key : j # k => m'.row[j] = m.row[j]
  BY <1>4 DEF MachineInv, MachineTypes
<1>7. \A j \in Key : \A x \in m'.row[j] : x \in m.row[j] \/ x.at = t
  BY <1>3, <1>6
<1>8. MachineTypes'
  BY <1>1, <1>4, <1>5, <1>6, <1>7 DEF MachineInv, MachineTypes
<1>9. \A j \in Key : \A x \in m'.lock[j] : \A y \in m'.lock[j] : x = y
  BY <1>4 DEF MachineInv, OneLock
<1> QED
  BY <1>1, <1>5, <1>7, <1>8, <1>9, Kept

\* A lock is taken only of a key that has none (_apply_prewrite).
LEMMA PrewriteInv ==
    ASSUME MachineInv, NEW k \in Key, NEW v, NEW s \in Timestamp, NEW p,
           GivenPrewrite(k, v, s, p)
    PROVE  MachineInv'
<1>1. CASE m' = m
  BY <1>1 DEF MachineInv, MachineTypes, OneLock, NotBehind
<1>2. CASE /\ NewestLock(m, k) = {}
           /\ m' = [m EXCEPT !.lock[k] = @ \cup {[start |-> s, primary |-> p,
                                                  value |-> v, fresh |-> TRUE]}]
  <2>1. m.lock[k] = {}
    BY <1>2, NoNewestNoLock DEF MachineInv
  <2>2. PICK x : x = [start |-> s, primary |-> p, value |-> v, fresh |-> TRUE]
    BY Zenon
  <2>3. /\ m'.row = m.row /\ m'.wrote = m.wrote /\ m'.last = m.last
        /\ m'.lock = [m.lock EXCEPT ![k] = {x}]
        /\ m' = [row |-> m'.row, wrote |-> m'.wrote, lock |-> m'.lock, last |-> m'.last]
    BY <1>2, <2>1, <2>2, Zenon DEF MachineInv, MachineTypes
  <2>4. /\ m'.lock = [j \in Key |-> m'.lock[j]] /\ m'.lock[k] = {x}
        /\ \A j \in Key : j # k => m'.lock[j] = m.lock[j]
    BY <2>3, Zenon DEF MachineInv, MachineTypes
  <2>5. ALock(x)
    BY <2>2, BoundAssumption DEF Timestamp, ALock
  <2>6. MachineTypes'
    BY <2>3, <2>4, <2>5 DEF MachineInv, MachineTypes
  <2>7. OneLock'
    BY <2>4 DEF MachineInv, OneLock
  <2> QED
    BY <2>3, <2>6, <2>7 DEF MachineInv, NotBehind
<1> QED
  BY <1>1, <1>2 DEF GivenPrewrite, Applied, ApplyPrewrite, Fail, Done

\* Taking a lock away, or its TTL passing, leaves at most the lock there was.
LEMMA FewerLocks ==
    ASSUME MachineInv, NEW k \in Key,
           m'.row = m.row, m'.wrote = m.wrote, m'.last = m.last,
           m' = [row |-> m'.row, wrote |-> m'.wrote, lock |-> m'.lock, last |-> m'.last],
           NEW S, m'.lock = [m.lock EXCEPT ![k] = S],
           \A x \in S : ALock(x), \A x, y \in S : x = y
    PROVE  MachineInv'
<1>1. /\ m'.lock = [j \in Key |-> m'.lock[j]] /\ m'.lock[k] = S
      /\ \A j \in Key : j # k => m'.lock[j] = m.lock[j]
  BY DEF MachineInv, MachineTypes
<1>2. MachineTypes'
  BY <1>1 DEF MachineInv, MachineTypes
<1>3. OneLock'
  BY <1>1 DEF MachineInv, OneLock
<1> QED
  BY <1>2, <1>3 DEF MachineInv, NotBehind

\* The lock becomes a version at the commit timestamp (_apply_commit).
LEMMA CommitInv ==
    ASSUME MachineInv, NEW k \in Key, NEW s \in Timestamp, NEW t \in Timestamp, GivenCommit(k, s, t)
    PROVE  MachineInv'
<1>1. t \in Nat /\ m.last \in Nat
  BY BoundAssumption DEF Timestamp, MachineInv, MachineTypes
<1>2. CASE m' = m
  BY <1>2 DEF MachineInv, MachineTypes, OneLock, NotBehind
<1>3. ASSUME NEW w,
             m' = Advance(RemoveLock(PutRecord(PutVersion(m, k, w, t), k, s, t), k, s), t)
      PROVE  MachineInv'
  <2>1. PICK new : new = {x \in m.row[k] : x.at # t} \cup {[at |-> t, value |-> w]}
    BY Zenon
  <2>2. PICK S : S = {x \in m.lock[k] : x.start # s}
    BY Zenon
  <2>3. /\ m'.row = [m.row EXCEPT ![k] = new] /\ m'.lock = [m.lock EXCEPT ![k] = S]
        /\ m'.last = Newer(m.last, t)
        /\ m' = [row |-> m'.row, wrote |-> m'.wrote, lock |-> m'.lock, last |-> m'.last]
        /\ m'.wrote = [j \in Key |-> m'.wrote[j]]
    BY <1>3, <2>1, <2>2, Zenon DEF Advance, RemoveLock, PutRecord, PutVersion, MachineInv, MachineTypes
  <2>4. m'.last \in Nat /\ t <= m'.last /\ m.last <= m'.last
    BY <1>1, <2>3 DEF Newer
  <2>5. /\ m'.row = [j \in Key |-> m'.row[j]] /\ m'.row[k] = new
        /\ \A j \in Key : j # k => m'.row[j] = m.row[j]
    BY <2>3 DEF MachineInv, MachineTypes
  <2>6. /\ m'.lock = [j \in Key |-> m'.lock[j]] /\ m'.lock[k] = S
        /\ \A j \in Key : j # k => m'.lock[j] = m.lock[j]
    BY <2>3, Zenon DEF MachineInv, MachineTypes
  <2>7. \A j \in Key : \A x \in m'.row[j] : x \in m.row[j] \/ x.at = t
    BY <2>1, <2>5
  <2>8. \A j \in Key : m'.lock[j] \subseteq m.lock[j]
    BY <2>2, <2>6
  <2>9. MachineTypes'
    BY <1>1, <2>3, <2>4, <2>5, <2>6, <2>7, <2>8 DEF MachineInv, MachineTypes
  <2>10. \A j \in Key : \A x \in m'.lock[j] : \A y \in m'.lock[j] : x = y
    BY <2>8 DEF MachineInv, OneLock
  <2> QED
    BY <1>1, <2>4, <2>7, <2>9, <2>10, Kept
<1> QED
  BY <1>2, <1>3 DEF GivenCommit, Applied, ApplyCommit, NoLock, Fail, Done

\* A lock goes (_apply_rollback, _apply_clean_lock).
LEMMA RemoveInv ==
    ASSUME MachineInv, NEW k \in Key, NEW s, GivenRollback(k, s) \/ GivenCleanLock(k, s)
    PROVE  MachineInv'
<1>1. CASE m' = m
  BY <1>1 DEF MachineInv, MachineTypes, OneLock, NotBehind
<1>2. ASSUME NEW t, m' = RemoveLock(m, k, t) PROVE MachineInv'
  <2>1. PICK S : S = {x \in m.lock[k] : x.start # t}
    BY Zenon
  <2>2. /\ m'.row = m.row /\ m'.wrote = m.wrote /\ m'.last = m.last
        /\ m'.lock = [m.lock EXCEPT ![k] = S]
        /\ m' = [row |-> m'.row, wrote |-> m'.wrote, lock |-> m'.lock, last |-> m'.last]
    BY <1>2, <2>1, Zenon DEF RemoveLock, MachineInv, MachineTypes
  <2>3. (\A x \in S : ALock(x)) /\ \A x, y \in S : x = y
    BY <2>1 DEF MachineInv, MachineTypes, OneLock
  <2> QED
    BY <2>2, <2>3, FewerLocks
<1>3. CASE GivenRollback(k, s)
  BY <1>1, <1>2, <1>3 DEF GivenRollback, Applied, ApplyRollback, NoLock, Fail, Done
<1>4. CASE GivenCleanLock(k, s)
  BY <1>1, <1>2, <1>4 DEF GivenCleanLock, Applied, ApplyCleanLock, Done
<1> QED
  BY <1>3, <1>4

\* A lock's TTL passes.
LEMMA AgeInv == ASSUME MachineInv, NEW k \in Key, GivenAge(k) PROVE MachineInv'
<1>1. PICK S : S = {[x EXCEPT !.fresh = FALSE] : x \in m.lock[k]}
  BY Zenon
<1>2. /\ m'.row = m.row /\ m'.wrote = m.wrote /\ m'.last = m.last
      /\ m'.lock = [m.lock EXCEPT ![k] = S]
      /\ m' = [row |-> m'.row, wrote |-> m'.wrote, lock |-> m'.lock, last |-> m'.last]
  BY <1>1, Zenon DEF GivenAge, Aged, MachineInv, MachineTypes
<1>3. \A x, y \in S : x = y
  BY <1>1, Zenon DEF MachineInv, OneLock
<1>4. \A x \in S : ALock(x)
  BY <1>1 DEF MachineInv, MachineTypes, ALock
<1> QED
  BY <1>2, <1>3, <1>4, FewerLocks

\* The invariant holds after every sequence of commands and restores (MachineNext).
LEMMA MachineInvariance == MachineSpec => []MachineInv
<1>1. m = Empty => MachineInv
  BY DEF Empty, MachineInv, MachineTypes, OneLock, NotBehind
<1>2. m' = Empty => MachineInv'
  BY DEF Empty, MachineInv, MachineTypes, OneLock, NotBehind
<1>3. ASSUME MachineInv, Install PROVE MachineInv'
  <2>1. m' = m
    BY <1>3 DEF Install, Restored, Snapshot, MachineInv, MachineTypes
  <2> QED
    BY <1>3, <2>1 DEF MachineInv, MachineTypes, OneLock, NotBehind
<1>4. ASSUME MachineInv, [MachineNext]_m PROVE MachineInv'
  <2>1. CASE UNCHANGED m
    BY <1>4, <2>1 DEF MachineInv, MachineTypes, OneLock, NotBehind
  <2>2. CASE MachineNext
    <3>1. \A s \in 0 .. MaxTimestamp : s \in Nat
      BY BoundAssumption
    <3> QED
      BY <1>2, <1>3, <1>4, <2>2, <3>1, SetInv, PrewriteInv, CommitInv, RemoveInv, AgeInv, Zenon
         DEF MachineNext, Reset
  <2> QED
    BY <1>4, <2>1, <2>2
<1> QED
  BY <1>1, <1>4, PTL DEF MachineSpec, MachineInit

-----------------------------------------------------------------------------
\* A key has at most one lock, whatever commands are proposed in whatever order (OneLock:
\* get_newest_lock and get_lock speak of the same lock).
THEOREM MachineHasOneLock == MachineSpec => []OneLock
<1>1. MachineInv => OneLock
  BY DEF MachineInv
<1> QED
  BY <1>1, MachineInvariance, PTL

\* A read that names no timestamp sees the newest version there is (NewestIsRead:
\* _last_applied_timestamp is never behind a version, after a restore too).
THEOREM MachineReadsNewest == MachineSpec => []NewestIsRead
<1>1. ASSUME MachineInv PROVE NewestIsRead
  <2> SUFFICES ASSUME NEW k \in Key PROVE VersionAt(m, k, m.last) = LatestVersion(m, k)
    BY DEF NewestIsRead, ReadTimestamp
  <2>1. {v \in m.row[k] : v.at <= m.last} = m.row[k]
    BY <1>1 DEF MachineInv, NotBehind
  <2> QED
    BY <2>1 DEF VersionAt, LatestVersion
<1> QED
  BY <1>1, MachineInvariance, PTL

\* With one lock a key, the newest lock is every lock there is (get_newest_lock).
LEMMA NewestIsOnly == ASSUME MachineInv, NEW k \in Key PROVE NewestLock(m, k) = m.lock[k]
<1>1. \A x, y \in m.lock[k] : x = y /\ x.start \in Nat
  BY DEF MachineInv, OneLock, MachineTypes, ALock
<1> QED
  BY <1>1 DEF NewestLock

\* A read of one key is refused exactly when a lock on it hides it (get).
LEMMA RefusedByLock ==
    ASSUME MachineInv, NEW k \in Key, NEW t \in Nat
    PROVE  Get(m, k, t).ok <=> \A x \in m.lock[k] : ~Hides(x, t)
<1>1. NewestLock(m, k) = m.lock[k]
  BY NewestIsOnly
<1>2. \A x, y \in m.lock[k] : x = y /\ x.start \in Nat
  BY DEF MachineInv, OneLock, MachineTypes, ALock
<1>3. CASE \E x \in m.lock[k] : t # 0 /\ x.start = t
  <2>1. Get(m, k, t).ok
    BY <1>1, <1>3 DEF Get
  <2>2. \A x \in m.lock[k] : ~Hides(x, t)
    BY <1>2, <1>3 DEF Hides
  <2> QED
    BY <2>1, <2>2
<1>4. CASE ~\E x \in m.lock[k] : t # 0 /\ x.start = t
  BY <1>1, <1>4 DEF Get
<1> QED
  BY <1>3, <1>4

\* What is read of a key that no lock hides: the transaction's own lock, or the version
\* (get).
LEMMA ReadOfKey ==
    ASSUME MachineInv, NEW k \in Key, NEW t \in Nat, \A x \in m.lock[k] : ~Hides(x, t)
    PROVE  Get(m, k, t) =
              IF \E x \in m.lock[k] : x.start = t
              THEN [ok |-> TRUE, value |-> (CHOOSE x \in m.lock[k] : x.start = t).value,
                    at |-> 0]
              ELSE [ok |-> TRUE, value |-> ValueAt(m, k, ReadTimestamp(m, t)).value,
                    at |-> ValueAt(m, k, ReadTimestamp(m, t)).at]
<1>1. NewestLock(m, k) = m.lock[k]
  BY NewestIsOnly
<1>2. \A x, y \in m.lock[k] : x = y /\ x.start \in Nat
  BY DEF MachineInv, OneLock, MachineTypes, ALock
<1>3. CASE \E x \in m.lock[k] : x.start = t
  <2>1. PICK x \in m.lock[k] : x.start = t
    BY <1>3
  <2>2. t # 0
    BY <2>1 DEF Hides
  <2>3. {y \in m.lock[k] : t # 0 /\ y.start = t} = {x} /\ m.lock[k] = {x}
    BY <1>2, <2>1, <2>2
  <2>4. (CHOOSE y \in m.lock[k] : y.start = t) = x
    BY <2>1, <2>3
  <2>5. (CHOOSE y \in {x} : TRUE) = x
    OBVIOUS
  <2> QED
    BY <1>1, <1>3, <2>3, <2>4, <2>5, Zenon DEF Get
<1>4. CASE ~\E x \in m.lock[k] : x.start = t
  BY <1>1, <1>4 DEF Get
<1> QED
  BY <1>3, <1>4

\* A range read answers exactly when each of its keys can be read by itself, and with the
\* same values (ScanAgreesWithGet: scan_versions and get, which look at locks, tombstones
\* and timestamps in two places).
THEOREM MachineScansAsItReads == MachineSpec => []ScanAgreesWithGet
<1>1. ASSUME MachineInv PROVE ScanAgreesWithGet
  <2> SUFFICES ASSUME NEW t \in 0 .. MaxTimestamp, NEW rows, rows = ScanRows(m, Key, t)
               PROVE  /\ ScanRefused(m, Key, t) <=> \E k \in Key : ~Get(m, k, t).ok
                      /\ ~ScanRefused(m, Key, t) =>
                            \A k \in Key :
                                IF k \in DOMAIN rows
                                THEN Get(m, k, t) = [ok |-> TRUE, value |-> rows[k].value,
                                                     at |-> rows[k].at]
                                ELSE Get(m, k, t).value = Nothing
    BY DEF ScanAgreesWithGet
  <2>1. t \in Nat
    BY BoundAssumption
  <2>2. ScanRefused(m, Key, t) <=> \E k \in Key : ~Get(m, k, t).ok
    BY <1>1, <2>1, RefusedByLock, Zenon DEF ScanRefused
  <2>3. ASSUME ~ScanRefused(m, Key, t), NEW k \in Key
        PROVE  IF k \in DOMAIN rows
               THEN Get(m, k, t) = [ok |-> TRUE, value |-> rows[k].value, at |-> rows[k].at]
               ELSE Get(m, k, t).value = Nothing
    <3>1. \A x \in m.lock[k] : ~Hides(x, t)
      BY <2>3 DEF ScanRefused
    <3>2. PICK got : got = Get(m, k, t)
      OBVIOUS
    <3>3. CASE \E x \in m.lock[k] : x.start = t
      <4>1. PICK v : v = (CHOOSE x \in m.lock[k] : x.start = t).value
        BY Zenon
      <4>2. got = [ok |-> TRUE, value |-> v, at |-> 0]
        BY <1>1, <2>1, <3>1, <3>2, <3>3, <4>1, ReadOfKey
      <4>3. k \in DOMAIN rows /\ rows[k] = [value |-> v, at |-> 0]
        BY <3>3, <4>1, Zenon DEF ScanRows
      <4> QED
        BY <3>2, <4>2, <4>3
    <3>4. CASE ~\E x \in m.lock[k] : x.start = t
      <4>1. PICK v : v = ValueAt(m, k, ReadTimestamp(m, t))
        OBVIOUS
      <4>2. got = [ok |-> TRUE, value |-> v.value, at |-> v.at]
        BY <1>1, <2>1, <3>1, <3>2, <3>4, <4>1, ReadOfKey
      <4>3. CASE v.value # Nothing
        <5>1. k \in DOMAIN rows /\ rows[k] = [value |-> v.value, at |-> v.at]
          BY <3>4, <4>1, <4>3, Zenon DEF ScanRows
        <5> QED
          BY <3>2, <4>2, <5>1
      <4>4. CASE v.value = Nothing
        <5>1. k \notin DOMAIN rows
          BY <3>4, <4>1, <4>4, Zenon DEF ScanRows
        <5> QED
          BY <3>2, <4>2, <4>4, <5>1
      <4> QED
        BY <4>3, <4>4
    <3> QED
      BY <3>3, <3>4
  <2> QED
    BY <2>2, <2>3
<1> QED
  BY <1>1, MachineInvariance, PTL

-----------------------------------------------------------------------------
(***************************************************************************)
(* Reads at a confirmed index show every write that was done when they     *)
(* began, for every group, number of readers and writes.                   *)
(*                                                                         *)
(* What makes the invariant inductive: a group's log never goes back to an *)
(* earlier write, the owner's log ends with the newest one, and nobody has *)
(* reached the new group before the table names it.                        *)
(***************************************************************************)

Reads == [pc : {"idle", "ask", "wait", "keep"}, g : Group, at : Old \cup New \cup {Nobody},
          named : BOOLEAN, index : Nat, answer : Nat, floor : Nat, basis : Nat, began : Nat]

Types ==
    /\ log \in [Group -> Seq(Nat)]
    /\ \A g \in Group : applied[g] \in [Members(g) -> Nat]
    /\ applied = [g \in Group |-> applied[g]]
    /\ open \subseteq Group /\ owner \in Group /\ copy \in Group
    /\ newest \in Nat /\ time \in Nat /\ cache \in [index : Nat, kept : Nat, basis : Nat]
    /\ read \in [Thread -> Reads]

\* A log shows ever newer writes, and none that is later than the newest.
Rising(s, top) ==
    /\ \A i \in 1 .. Len(s) : s[i] <= top
    /\ \A i, j \in 1 .. Len(s) : i <= j => s[i] <= s[j]

Logs ==
    /\ \A g \in Group : Rising(log[g], newest)
    /\ \A g \in Group : \A n \in Members(g) : applied[g][n] <= Len(log[g])
    /\ Len(log[owner]) \in Nat \ {0} /\ log[owner][Len(log[owner])] = newest
    /\ \A g \in open : Len(log[g]) > 0
    /\ owner = 1 => /\ open = {1} /\ copy = 1 /\ log[2] = << >>
                    /\ \A p \in Thread : read[p].g = 1
    /\ ~Moves => owner = 1

\* i is a position of s that shows b.
Shows(s, i, b) == i \in 1 .. Len(s) /\ s[i] = b

\* A read at its member, at its index, and with its answer.
Standing(r) ==
    /\ r.pc # "idle" => r.at \in Members(r.g) /\ r.floor <= newest
    /\ r.pc # "idle" /\ r.named => r.index > 0
    /\ r.pc \in {"wait", "keep"} /\ ~r.named =>
          /\ Shows(log[r.g], r.index, r.basis)
          /\ r.g = owner => r.floor <= r.basis
    /\ r.pc = "keep" /\ ~r.named => r.basis <= r.answer
    /\ ~Moves /\ r.pc # "idle" /\ r.named => Shows(log[1], r.index, r.basis)
    /\ ~Moves /\ r.pc = "keep" => r.basis <= r.answer

CacheStands == ~Moves /\ cache.index > 0 => Shows(log[1], cache.index, cache.basis)

IInv == Types /\ Logs /\ CacheStands /\ \A p \in Thread : Standing(read[p])

-----------------------------------------------------------------------------
\* At first the shard is in its first group, with the leader's no-op.
LEMMA InitInv == Init => IInv
<1> SUFFICES ASSUME Init PROVE IInv
  OBVIOUS
<1>1. /\ log \in [Group -> Seq(Nat)] /\ log[1] = <<0>> /\ log[2] = << >>
  BY DEF Init, Group
<1>2. NoRead \in Reads /\ NoRead.pc = "idle" /\ NoRead.g = 1
  BY DEF NoRead, Reads, Group
<1>3. Types
  <2>1. \A g \in Group : Len(log[g]) \in Nat
    BY <1>1
  <2> QED
    BY <1>1, <1>2, <2>1 DEF Init, Types, Group, NoIndex
<1>4. Logs
  <2>1. \A g \in Group : Rising(log[g], newest)
    BY <1>1 DEF Init, Rising, Group
  <2>2. \A g \in Group : \A n \in Members(g) : applied[g][n] <= Len(log[g])
    BY <1>1 DEF Init, Group
  <2>3. owner = 1 /\ newest = 0 /\ Len(log[1]) = 1 /\ log[1][1] = 0
    BY <1>1 DEF Init
  <2>4. open = {1} /\ copy = 1 /\ \A p \in Thread : read[p].g = 1
    BY <1>2 DEF Init
  <2>5. Len(log[owner]) \in Nat \ {0} /\ log[owner][Len(log[owner])] = newest
    BY <2>3
  <2>6. \A g \in open : Len(log[g]) > 0
    BY <2>3, <2>4
  <2> QED
    BY <1>1, <2>1, <2>2, <2>3, <2>4, <2>5, <2>6, Zenon DEF Logs
<1>5. \A p \in Thread : Standing(read[p])
  BY <1>2 DEF Init, Standing
<1> QED
  BY <1>3, <1>4, <1>5 DEF IInv, Init, CacheStands, NoIndex

\* A step of one thread that leaves the groups alone.
LEMMA ThreadStep ==
    ASSUME IInv, NEW p \in Thread, NEW r \in Reads, Standing(r), read' = [read EXCEPT ![p] = r],
           UNCHANGED <<log, applied, open, owner, newest, time>>,
           cache' \in [index : Nat, kept : Nat, basis : Nat], CacheStands',
           copy' \in Group, owner = 1 => copy' = 1 /\ r.g = 1
    PROVE  IInv'
<1>1. read'[p] = r /\ \A q \in Thread : q # p => read'[q] = read[q]
  BY DEF IInv, Types
<1>2. Types'
  BY DEF IInv, Types
<1>3. Logs'
  BY <1>1 DEF IInv, Logs
<1>4. \A q \in Thread : Standing(read[q])'
  <2> SUFFICES ASSUME NEW q \in Thread PROVE Standing(read[q])'
    OBVIOUS
  <2>1. CASE q = p
    BY <1>1, <2>1 DEF Standing
  <2>2. CASE q # p
    BY <1>1, <2>2 DEF IInv, Standing
  <2> QED
    BY <2>1, <2>2
<1> QED
  BY <1>2, <1>3, <1>4 DEF IInv

\* A step of a group that only adds to its log.
LEMMA LogStep ==
    ASSUME IInv, Types', Logs', UNCHANGED <<cache, read>>,
           \A g \in Group : \A i \in 1 .. Len(log[g]) :
               i \in 1 .. Len(log'[g]) /\ log'[g][i] = log[g][i],
           newest <= newest',
           \A p \in Thread : read[p].g = owner' => owner = owner'
    PROVE  IInv'
<1>1. \A g \in Group : \A i, b : Shows(log[g], i, b) => Shows(log'[g], i, b)
  BY DEF Shows
<1>2. CacheStands'
  BY <1>1 DEF IInv, CacheStands, Group
<1>3. ASSUME NEW p \in Thread PROVE Standing(read[p])'
  <2>1. PICK r \in Reads : r = read[p]
    BY DEF IInv, Types
  <2>2. Standing(r) /\ r.floor \in Nat /\ r.g \in Group /\ newest \in Nat /\ newest' \in Nat
    <3>1. r.floor \in Nat /\ r.g \in Group
      BY <2>1 DEF Reads
    <3> QED
      BY <2>1, <3>1, Zenon DEF IInv, Types
  <2>3. r.floor <= newest => r.floor <= newest'
    BY <2>2
  <2>4. Shows(log[r.g], r.index, r.basis) => Shows(log'[r.g], r.index, r.basis)
    BY <1>1, <2>2, Zenon
  <2>5. Shows(log[1], r.index, r.basis) => Shows(log'[1], r.index, r.basis)
    BY <1>1 DEF Group
  <2>6. r.g = owner' => r.g = owner
    BY <2>1
  <2>7. Standing(r)'
    BY <2>2, <2>3, <2>4, <2>5, <2>6, Zenon DEF Standing
  <2> QED
    BY <2>1, <2>7
<1> QED
  BY <1>2, <1>3 DEF IInv

\* A write (Write): the owner's log goes on with a write newer than all before.
LEMMA WriteInv == ASSUME IInv, Write PROVE IInv'
<1>1. /\ newest' = newest + 1 /\ log' = [log EXCEPT ![owner] = Append(@, newest + 1)]
      /\ UNCHANGED <<applied, open, owner, copy, time, cache, read>>
  BY DEF Write, clock
<1>2. /\ newest \in Nat /\ owner \in Group /\ log \in [Group -> Seq(Nat)]
      /\ \A g \in Group : log[g] \in Seq(Nat) /\ Rising(log[g], newest)
  BY DEF IInv, Types, Logs
<1>3. log'[owner] = Append(log[owner], newest + 1) /\ \A g \in Group : g # owner => log'[g] = log[g]
  BY <1>1, <1>2
<1>4. /\ log'[owner] \in Seq(Nat) /\ Len(log'[owner]) = Len(log[owner]) + 1
      /\ Len(log[owner]) \in Nat
      /\ log'[owner][Len(log[owner]) + 1] = newest + 1
      /\ \A i \in 1 .. Len(log[owner]) : log'[owner][i] = log[owner][i] /\ log[owner][i] \in Nat
  BY <1>2, <1>3
<1>5. Types'
  <2>1. log' \in [Group -> Seq(Nat)]
    BY <1>1, <1>2, <1>4
  <2> QED
    BY <1>1, <1>2, <2>1 DEF IInv, Types
<1>6. ASSUME NEW g \in Group PROVE Rising(log'[g], newest + 1)
  <2>1. CASE g # owner
    <3>1. \A i \in 1 .. Len(log[g]) : log[g][i] \in Nat /\ log[g][i] <= newest
      BY <1>2 DEF Rising
    <3>2. \A i \in 1 .. Len(log[g]) : log[g][i] <= newest + 1
      BY <1>2, <3>1
    <3>3. \A i, j \in 1 .. Len(log[g]) : i <= j => log[g][i] <= log[g][j]
      BY <1>2, Zenon DEF Rising
    <3>4. log'[g] = log[g]
      BY <1>3, <2>1, Zenon
    <3> QED
      BY <3>2, <3>3, <3>4, Zenon DEF Rising
  <2>2. CASE g = owner
    <3>1. \A i \in 1 .. Len(log[owner]) : log[owner][i] <= newest
      BY <1>2 DEF Rising
    <3>2. \A i, j \in 1 .. Len(log[owner]) : i <= j => log[owner][i] <= log[owner][j]
      BY <1>2 DEF Rising
    <3>3. \A i \in 1 .. Len(log'[owner]) :
              i \in 1 .. Len(log[owner]) \/ i = Len(log[owner]) + 1
      BY <1>4
    <3>4. \A i \in 1 .. Len(log'[owner]) : log'[owner][i] <= newest + 1 /\ log'[owner][i] \in Nat
      <4> SUFFICES ASSUME NEW i \in 1 .. Len(log'[owner])
                   PROVE  log'[owner][i] <= newest + 1 /\ log'[owner][i] \in Nat
        OBVIOUS
      <4>1. CASE i = Len(log[owner]) + 1
        BY <4>1, <1>2, <1>4
      <4>2. CASE i \in 1 .. Len(log[owner])
        <5>1. log'[owner][i] = log[owner][i] /\ log[owner][i] \in Nat /\ log[owner][i] <= newest
          BY <4>2, <1>4, <3>1
        <5> QED
          BY <5>1, <1>2
      <4> QED
        BY <3>3, <4>1, <4>2
    <3>5. \A i, j \in 1 .. Len(log'[owner]) : i <= j => log'[owner][i] <= log'[owner][j]
      <4> SUFFICES ASSUME NEW i \in 1 .. Len(log'[owner]), NEW j \in 1 .. Len(log'[owner]), i <= j
                   PROVE  log'[owner][i] <= log'[owner][j]
        OBVIOUS
      <4>1. CASE j = Len(log[owner]) + 1
        BY <4>1, <1>4, <3>4
      <4>2. CASE j \in 1 .. Len(log[owner])
        <5>1. i \in 1 .. Len(log[owner])
          BY <4>2, <1>4
        <5> QED
          BY <4>2, <5>1, <1>4, <3>2
      <4> QED
        BY <3>3, <4>1, <4>2
    <3> QED
      BY <2>2, <3>4, <3>5 DEF Rising
  <2> QED
    BY <2>1, <2>2
<1>7. ASSUME NEW g \in Group, NEW n \in Members(g) PROVE applied'[g][n] <= Len(log'[g])
  <2>1. applied[g][n] <= Len(log[g]) /\ applied[g][n] \in Nat /\ Len(log[g]) \in Nat
    BY <1>2 DEF IInv, Logs, Types
  <2>2. Len(log'[g]) = Len(log[g]) \/ Len(log'[g]) = Len(log[g]) + 1
    BY <1>3, <1>4
  <2> QED
    BY <1>1, <2>1, <2>2
<1>8. Logs'
  <2>1. \A g \in open : Len(log'[g]) > 0
    <3> SUFFICES ASSUME NEW g \in open PROVE Len(log'[g]) > 0
      OBVIOUS
    <3>1. g \in Group /\ Len(log[g]) > 0 /\ Len(log[g]) \in Nat
      BY <1>2 DEF IInv, Logs, Types
    <3>2. Len(log'[g]) = Len(log[g]) \/ Len(log'[g]) = Len(log[g]) + 1
      BY <1>3, <1>4, <3>1
    <3> QED
      BY <3>1, <3>2
  <2> QED
    BY <1>1, <1>4, <1>6, <1>7, <2>1 DEF IInv, Logs
<1>9. \A g \in Group : \A i \in 1 .. Len(log[g]) :
          i \in 1 .. Len(log'[g]) /\ log'[g][i] = log[g][i]
  <2>1. \A i \in 1 .. Len(log[owner]) :
            i \in 1 .. Len(log'[owner]) /\ log'[owner][i] = log[owner][i]
    BY <1>4
  <2> QED
    BY <1>3, <2>1
<1>10. newest <= newest'
  BY <1>1, <1>2
<1> QED
  BY <1>1, <1>5, <1>8, <1>9, <1>10, LogStep

\* The move (Move): the new group's log ends with the newest write, and no reader is there.
LEMMA MoveInv == ASSUME IInv, Move PROVE IInv'
<1>1. /\ Moves /\ owner = 1 /\ owner' = 2 /\ open' = {1, 2}
      /\ log' = [log EXCEPT ![2] = <<0, 0, newest>>]
      /\ UNCHANGED <<applied, copy, newest, time, cache, read>>
  BY DEF Move, clock
<1>2. newest \in Nat /\ log \in [Group -> Seq(Nat)] /\ 1 \in Group /\ 2 \in Group
  BY DEF IInv, Types, Group
<1>3. log'[2] = <<0, 0, newest>> /\ log'[1] = log[1]
  BY <1>1, <1>2
<1>4. Types'
  <2>1. log' \in [Group -> Seq(Nat)]
    BY <1>1, <1>2
  <2> QED
    BY <1>1, <1>2, <2>1 DEF IInv, Types, Group
<1>5. Rising(log'[2], newest) /\ Len(log'[2]) = 3
  BY <1>2, <1>3 DEF Rising
<1>6. log[2] = << >> /\ Len(log[2]) = 0 /\ \A p \in Thread : read[p].g = 1
  BY <1>1 DEF IInv, Logs
<1>7. Logs'
  <2>1. \A g \in Group : Rising(log'[g], newest)
    BY <1>3, <1>5 DEF IInv, Logs, Group
  <2>2. \A g \in Group : \A n \in Members(g) : applied[g][n] <= Len(log'[g])
    <3>1. \A n \in Members(1) : applied[1][n] <= Len(log'[1])
      BY <1>2, <1>3 DEF IInv, Logs
    <3>2. \A n \in Members(2) : applied[2][n] \in Nat /\ applied[2][n] <= 0
      BY <1>2, <1>6 DEF IInv, Logs, Types
    <3> QED
      BY <1>5, <3>1, <3>2 DEF Group
  <2> QED
    BY <1>1, <1>3, <1>5, <2>1, <2>2 DEF IInv, Logs
<1>8. \A g \in Group : \A i \in 1 .. Len(log[g]) :
          i \in 1 .. Len(log'[g]) /\ log'[g][i] = log[g][i]
  BY <1>3, <1>6 DEF Group
<1> QED
  BY <1>1, <1>2, <1>4, <1>6, <1>7, <1>8, LogStep

\* A member applies an entry, the clock goes on, the old group is closed.
LEMMA GroupInv ==
    ASSUME IInv, (\E g \in Group : \E n \in Members(g) : Apply(g, n)) \/ Tick \/ Close
    PROVE  IInv'
<1>1. ASSUME NEW g \in Group, NEW n \in Members(g), Apply(g, n) PROVE IInv'
  <2>1. /\ applied[g][n] < Len(log[g]) /\ applied' = [applied EXCEPT ![g][n] = @ + 1]
        /\ UNCHANGED <<log, open, owner, copy, newest, time, cache, read>>
    BY <1>1 DEF Apply, clock
  <2>2. /\ applied = [h \in Group |-> applied[h]] /\ applied[g] \in [Members(g) -> Nat]
        /\ Len(log[g]) \in Nat
    BY DEF IInv, Types
  <2>3. /\ applied'[g] = [applied[g] EXCEPT ![n] = @ + 1]
        /\ applied' = [h \in Group |-> applied'[h]]
        /\ \A h \in Group : h # g => applied'[h] = applied[h]
    BY <2>1, <2>2, Zenon
  <2>4. Types'
    <3>1. applied'[g] \in [Members(g) -> Nat]
      BY <2>2, <2>3
    <3>2. \A h \in Group : applied'[h] \in [Members(h) -> Nat]
      BY <2>3, <3>1, Zenon DEF IInv, Types
    <3> QED
      BY <2>1, <2>3, <3>2, Zenon DEF IInv, Types
  <2>5. \A h \in Group : \A l \in Members(h) : applied'[h][l] <= Len(log[h])
    BY <2>1, <2>2, <2>3 DEF IInv, Logs
  <2>6. Logs'
    BY <2>1, <2>5 DEF IInv, Logs
  <2> QED
    BY <2>1, <2>4, <2>6 DEF IInv, CacheStands, Standing
<1>2. CASE Tick
  <2>1. time' = time + 1 /\ UNCHANGED <<log, applied, open, owner, copy, newest, cache, read>>
    BY <1>2 DEF Tick, groups
  <2>2. Types'
    BY <2>1 DEF IInv, Types
  <2>3. Logs' /\ CacheStands'
    BY <2>1, Zenon DEF IInv, Logs, CacheStands
  <2>4. \A p \in Thread : Standing(read[p])'
    BY <2>1, ZenonT(40) DEF IInv, Standing
  <2> QED
    BY <2>2, <2>3, <2>4, Zenon DEF IInv
<1>3. CASE Close
  <2>1. /\ owner = 2 /\ open' = {2}
        /\ UNCHANGED <<log, applied, owner, copy, newest, time, cache, read>>
    BY <1>3 DEF Close, clock
  <2>2. Types' /\ Logs'
    BY <2>1 DEF IInv, Types, Logs, Group
  <2> QED
    BY <2>1, <2>2 DEF IInv, CacheStands, Standing
<1> QED
  BY <1>1, <1>2, <1>3

\* A read begins, with or without an index of the cache (SmartClient.get).
LEMMA BeginInv == ASSUME IInv, NEW p \in Thread, NEW level, Begin(p, level) PROVE IInv'
<1>1. PICK n \in Members(copy) :
         LET r == [NoRead EXCEPT !.pc = "ask", !.g = copy, !.at = n,
                                 !.floor = newest, !.began = time]
         IN  Go(p, IF level = "cached" /\ Fresh
                   THEN [r EXCEPT !.named = TRUE, !.index = cache.index, !.basis = cache.basis]
                   ELSE r)
  BY Zenon DEF Begin
<1>2. UNCHANGED <<log, applied, open, owner, newest, time, copy, cache>>
  BY DEF Begin, groups, clock
<1> DEFINE r == [NoRead EXCEPT !.pc = "ask", !.g = copy, !.at = n,
                               !.floor = newest, !.began = time]
           s == [r EXCEPT !.named = TRUE, !.index = cache.index, !.basis = cache.basis]
<1>3. /\ copy \in Group /\ newest \in Nat /\ time \in Nat
      /\ cache.index \in Nat /\ cache.basis \in Nat
      /\ n \in Old \cup New
  BY DEF IInv, Types, Members, Group
<1>4. /\ r \in Reads /\ r.pc = "ask" /\ r.g = copy /\ r.at = n /\ r.floor = newest /\ ~r.named
  BY <1>3, Zenon DEF Reads, NoRead, Group
<1>5. /\ s \in Reads /\ s.pc = "ask" /\ s.g = copy /\ s.at = n /\ s.floor = newest /\ s.named
      /\ s.index = cache.index /\ s.basis = cache.basis
  BY <1>3, Zenon DEF Reads, NoRead, Group
<1>6. \/ read' = [read EXCEPT ![p] = r]
      \/ read' = [read EXCEPT ![p] = s] /\ cache.index > 0
  BY <1>1, Zenon DEF Go, Fresh
<1> HIDE DEF r, s
<1>7. Standing(r)
  BY <1>3, <1>4 DEF Standing
<1>8. cache.index > 0 => Standing(s)
  BY <1>3, <1>5 DEF Standing, IInv, CacheStands
<1>9. CacheStands' /\ cache' \in [index : Nat, kept : Nat, basis : Nat]
  BY <1>2 DEF IInv, CacheStands, Types
<1>10. owner = 1 => copy = 1
  BY DEF IInv, Logs
<1>11. CASE read' = [read EXCEPT ![p] = r]
  BY <1>2, <1>3, <1>4, <1>7, <1>9, <1>10, <1>11, ThreadStep, Zenon
<1>12. CASE read' = [read EXCEPT ![p] = s] /\ cache.index > 0
  BY <1>2, <1>3, <1>5, <1>8, <1>9, <1>10, <1>12, ThreadStep, Zenon
<1> QED
  BY <1>6, <1>11, <1>12

\* The rest of a read: another member, its index, its answer, and what the cache keeps of
\* it (ask_shard, ClientServicer._index_for_a_read, MemoryRaftNode.get, remember).
LEMMA ReadInv ==
    ASSUME IInv, NEW p \in Thread,
           Refused(p) \/ TakeIndex(p) \/ Answer(p) \/ TimesOut(p) \/ Keep(p)
    PROVE  IInv'
<1>1. PICK r \in Reads : r = read[p]
  BY DEF IInv, Types
<1>2. Standing(r) /\ (owner = 1 => r.g = 1 /\ copy = 1)
  BY <1>1 DEF IInv, Logs
<1>3. /\ r.g \in Group /\ r.floor \in Nat /\ r.index \in Nat /\ r.basis \in Nat
      /\ log \in [Group -> Seq(Nat)] /\ log[r.g] \in Seq(Nat) /\ newest \in Nat
      /\ copy \in Group /\ owner \in Group /\ 1 \in Group
      /\ cache \in [index : Nat, kept : Nat, basis : Nat] /\ time \in Nat
  BY Zenon DEF Reads, IInv, Types, Group
<1>4. UNCHANGED cache /\ UNCHANGED log =>
          CacheStands' /\ cache' \in [index : Nat, kept : Nat, basis : Nat]
  BY <1>3 DEF IInv, CacheStands
<1>5. NoRead \in Reads /\ Standing(NoRead) /\ NoRead.g = 1
  BY DEF NoRead, Reads, Standing, Group
<1>6. CASE Refused(p)
  <2>1. /\ r.pc = "ask" /\ copy' \in {copy, owner}
        /\ \E n \in Members(copy') : Go(p, [read[p] EXCEPT !.pc = "ask", !.g = copy', !.at = n])
        /\ UNCHANGED <<log, applied, open, owner, newest, time, cache>>
    BY <1>1, <1>6, Zenon DEF Refused, AskAgain, groups, clock
  <2>2. PICK n \in Members(copy') : read' = [read EXCEPT ![p] = [r EXCEPT !.pc = "ask", !.g = copy', !.at = n]]
    BY <1>1, <2>1, Zenon DEF Go
  <2>3. copy' \in Group /\ n \in Old \cup New
    BY <1>3, <2>1, <2>2 DEF Members
  <2>4. PICK s : s = [r EXCEPT !.pc = "ask", !.g = copy', !.at = n]
    OBVIOUS
  <2>5. /\ s \in Reads /\ s.pc = "ask" /\ s.g = copy' /\ s.at = n /\ s.floor = r.floor
        /\ s.named = r.named /\ s.index = r.index /\ s.basis = r.basis
    BY <2>3, <2>4, Zenon DEF Reads
  <2>6. Standing(s)
    BY <1>2, <2>1, <2>2, <2>5 DEF Standing
  <2>7. owner = 1 => copy' = 1 /\ s.g = 1
    BY <1>2, <2>1, <2>5
  <2>8. read' = [read EXCEPT ![p] = s]
    BY <2>2, <2>4
  <2> QED
    BY <1>4, <2>1, <2>3, <2>5, <2>6, <2>7, <2>8, ThreadStep, Zenon
<1>7. CASE TakeIndex(p)
  <2>1. PICK s : s = [r EXCEPT !.pc = "wait", !.index = IF r.named THEN r.index ELSE Len(log[r.g]),
                               !.basis = IF r.named THEN r.basis ELSE log[r.g][Len(log[r.g])]]
    OBVIOUS
  <2>2. /\ r.pc = "ask" /\ r.g \in open /\ read' = [read EXCEPT ![p] = s]
        /\ UNCHANGED <<log, applied, open, owner, newest, time, cache, copy>>
    BY <1>1, <1>7, <2>1 DEF TakeIndex, IndexFor, Go, groups, clock
  <2>3. PICK l \in Nat : l = Len(log[r.g])
    BY <1>3
  <2>4. l \in 1 .. l /\ log[r.g][l] \in Nat
    <3>1. Len(log[r.g]) > 0
      BY <2>2 DEF IInv, Logs
    <3>2. l \in 1 .. l
      BY <2>3, <3>1
    <3>3. log[r.g] \in Seq(Nat)
      BY <1>3
    <3> QED
      BY <2>3, <3>2, <3>3
  <2>5. /\ s \in Reads /\ s.pc = "wait" /\ s.g = r.g /\ s.at = r.at /\ s.floor = r.floor
        /\ s.named = r.named
        /\ s.index = (IF r.named THEN r.index ELSE l)
        /\ s.basis = (IF r.named THEN r.basis ELSE log[r.g][l])
    BY <1>3, <2>1, <2>3, <2>4, ZenonT(40) DEF Reads
  <2>6. Shows(log[r.g], l, log[r.g][l]) /\ (r.g = owner => r.floor <= log[r.g][l])
    <3>1. r.floor <= newest
      BY <1>2, <2>2 DEF Standing
    <3>2. r.g = owner => log[r.g][l] = newest
      BY <2>3, Zenon DEF IInv, Logs
    <3>3. Shows(log[r.g], l, log[r.g][l])
      BY <2>3, <2>4 DEF Shows
    <3> QED
      BY <3>1, <3>2, <3>3
  <2>7. Standing(s)
    BY <1>2, <2>2, <2>5, <2>6 DEF Standing
  <2> QED
    BY <1>2, <1>3, <1>4, <2>2, <2>5, <2>7, ThreadStep, Zenon
<1>8. CASE Answer(p)
  <2>1. PICK a : a = applied[r.g][r.at]
    OBVIOUS
  <2>2. PICK s : s = [r EXCEPT !.pc = "keep", !.answer = log[r.g][a]]
    OBVIOUS
  <2>3. /\ r.pc = "wait" /\ a >= r.index /\ read' = [read EXCEPT ![p] = s]
        /\ UNCHANGED <<log, applied, open, owner, newest, time, cache, copy>>
    BY <1>1, <1>8, <2>1, <2>2, Zenon DEF Answer, Go, groups, clock
  <2>4. a \in Nat /\ a <= Len(log[r.g]) /\ Len(log[r.g]) \in Nat
    <3>1. r.at \in Members(r.g)
      BY <1>2, <2>3 DEF Standing
    <3>2. Len(log[r.g]) \in Nat
      BY <1>3
    <3>3. applied[r.g] \in [Members(r.g) -> Nat]
      BY <1>3 DEF IInv, Types
    <3>4. applied[r.g][r.at] <= Len(log[r.g])
      BY <1>3, <3>1, Zenon DEF IInv, Logs
    <3> QED
      BY <2>1, <3>1, <3>2, <3>3, <3>4
  <2>5. r.index > 0
    BY <1>2, <1>3, <2>3 DEF Standing, Shows, Reads
  <2>6. a \in 1 .. Len(log[r.g]) /\ log[r.g][a] \in Nat
    <3>1. a \in 1 .. Len(log[r.g])
      BY <1>3, <2>3, <2>4, <2>5
    <3>2. \A q \in Seq(Nat) : \A i \in 1 .. Len(q) : q[i] \in Nat
      OBVIOUS
    <3>3. log[r.g] \in Seq(Nat)
      BY <1>3
    <3> QED
      BY <3>1, <3>2, <3>3, Zenon
  <2>7. /\ s \in Reads /\ s.pc = "keep" /\ s.g = r.g /\ s.at = r.at /\ s.floor = r.floor
        /\ s.named = r.named /\ s.index = r.index /\ s.basis = r.basis /\ s.answer = log[r.g][a]
    BY <2>2, <2>6, Zenon DEF Reads
  <2>8. Shows(log[r.g], r.index, r.basis) => r.basis <= log[r.g][a]
    <3>1. Rising(log[r.g], newest)
      BY <1>3 DEF IInv, Logs
    <3> QED
      BY <2>3, <2>6, <3>1 DEF Shows, Rising
  <2>9. ~Moves => r.g = 1
    BY <1>2 DEF IInv, Logs
  <2>10. Standing(s)
    BY <1>2, <2>3, <2>7, <2>8, <2>9 DEF Standing
  <2> QED
    BY <1>2, <1>3, <1>4, <2>3, <2>7, <2>10, ThreadStep, ZenonT(40)
<1>9. CASE TimesOut(p)
  <2>1. /\ read' = [read EXCEPT ![p] = NoRead]
        /\ UNCHANGED <<log, applied, open, owner, newest, time, cache, copy>>
    BY <1>9, ZenonT(40) DEF TimesOut, Go, groups, clock
  <2> QED
    BY <1>2, <1>3, <1>4, <1>5, <2>1, ThreadStep, ZenonT(40)
<1>10. CASE Keep(p)
  <2>1. /\ r.pc = "keep" /\ read' = [read EXCEPT ![p] = NoRead]
        /\ cache' = IF r.named THEN cache
                    ELSE [index |-> r.index, kept |-> time, basis |-> r.basis]
        /\ UNCHANGED <<log, applied, open, owner, newest, time, copy>>
    BY <1>1, <1>10 DEF Keep, Go, groups, clock
  <2>2. CASE r.named
    BY <1>2, <1>3, <1>4, <1>5, <2>1, <2>2, ThreadStep, Zenon
  <2>3. CASE ~r.named
    <3>1. /\ cache' \in [index : Nat, kept : Nat, basis : Nat]
          /\ cache'.index = r.index /\ cache'.basis = r.basis
      BY <1>3, <2>1, <2>3, ZenonT(40)
    <3>2. ~Moves => Shows(log[1], r.index, r.basis)
      BY <1>2, <2>1, <2>3, ZenonT(40) DEF Standing, IInv, Logs
    <3>3. CacheStands'
      BY <2>1, <3>1, <3>2, Zenon DEF CacheStands
    <3> QED
      BY <1>2, <1>3, <1>5, <2>1, <3>1, <3>3, ThreadStep, ZenonT(40)
  <2> QED
    BY <2>2, <2>3
<1> QED
  BY <1>6, <1>7, <1>8, <1>9, <1>10

\* The invariant holds in every state of the groups and their readers (Next).
LEMMA Invariance == Spec => []IInv
<1>1. ASSUME IInv, [Next]_vars PROVE IInv'
  <2>1. CASE UNCHANGED vars
    <3>1. UNCHANGED <<log, applied, open, owner, copy, newest, time, cache, read>>
      BY <2>1 DEF vars, groups, clock
    <3>2. Types'
      BY <1>1, <3>1, Zenon DEF IInv, Types
    <3>3. Logs' /\ CacheStands'
      BY <1>1, <3>1, ZenonT(40) DEF IInv, Logs, CacheStands
    <3>4. ASSUME NEW p \in Thread PROVE Standing(read[p])'
      BY <1>1, <3>1 DEF IInv, Standing
    <3> QED
      BY <3>2, <3>3, <3>4 DEF IInv
  <2>2. ASSUME Next PROVE IInv'
    <3>1. CASE Write
      BY <1>1, <3>1, WriteInv
    <3>2. CASE Move
      BY <1>1, <3>2, MoveInv
    <3>3. CASE Close \/ Tick \/ \E g \in Group : \E n \in Members(g) : Apply(g, n)
      BY <1>1, <3>3, GroupInv
    <3>4. ASSUME NEW p \in Thread, NEW level \in {"strong", "cached"}, Begin(p, level) PROVE IInv'
      BY <1>1, <3>4, BeginInv
    <3>5. ASSUME NEW p \in Thread, Refused(p) \/ TakeIndex(p) \/ Answer(p) \/ TimesOut(p) \/ Keep(p)
          PROVE  IInv'
      BY <1>1, <3>5, ReadInv
    <3> QED
      BY <2>2, <3>1, <3>2, <3>3, <3>4, <3>5, Zenon DEF Next
  <2> QED
    BY <1>1, <2>1, <2>2
<1> QED
  BY <1>1, InitInv, PTL DEF Spec

-----------------------------------------------------------------------------
\* A strong or a follower read of a shard that is not moved shows every write that was done
\* when it began, with any number of members, readers and writes (ReadsAreFresh).
THEOREM ReadsShowWhatWasDone == ASSUME ~Moves PROVE Spec => []ReadsAreFresh
<1>1. ASSUME IInv PROVE ReadsAreFresh
  <2> SUFFICES ASSUME NEW p \in Thread, Answered(p), ~read[p].named
               PROVE  read[p].answer >= read[p].floor
    BY DEF ReadsAreFresh
  <2>1. read[p] \in Reads /\ Standing(read[p]) /\ read[p].g = owner
    BY <1>1 DEF IInv, Types, Logs
  <2> QED
    BY <2>1 DEF Standing, Answered, Reads
<1> QED
  BY <1>1, Invariance, PTL

\* A read that obtained its index in the group the table names shows every write that was
\* done when it began, also while the shard is moved (OwnerIsFresh).
THEOREM OwnersReadsShowWhatWasDone == Spec => []OwnerIsFresh
<1>1. ASSUME IInv PROVE OwnerIsFresh
  <2> SUFFICES ASSUME NEW p \in Thread, Answered(p), ~read[p].named, read[p].g = owner
               PROVE  read[p].answer >= read[p].floor
    BY DEF OwnerIsFresh
  <2>1. read[p] \in Reads /\ Standing(read[p])
    BY <1>1 DEF IInv, Types
  <2> QED
    BY <2>1 DEF Standing, Answered, Reads
<1> QED
  BY <1>1, Invariance, PTL

\* A cached read of a shard that is not moved shows what its index stood for, at whichever
\* member it is answered (CachedIsBased).
THEOREM CachedReadsShowTheirBasis == ASSUME ~Moves PROVE Spec => []CachedIsBased
<1>1. ASSUME IInv PROVE CachedIsBased
  <2> SUFFICES ASSUME NEW p \in Thread, Answered(p), read[p].named
               PROVE  read[p].answer >= read[p].basis
    BY DEF CachedIsBased
  <2>1. read[p] \in Reads /\ Standing(read[p])
    BY <1>1 DEF IInv, Types
  <2> QED
    BY <2>1 DEF Standing, Answered, Reads
<1> QED
  BY <1>1, Invariance, PTL
=============================================================================
