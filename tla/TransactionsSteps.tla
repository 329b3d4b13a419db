------------------------- MODULE TransactionsSteps --------------------------
(***************************************************************************)
(* What a step of the distributed transactions may do, for every set of    *)
(* transactions, keys, shards, coordinators and clients: the invariant     *)
(* that makes their theorems provable, and what follows from it and from   *)
(* the shape of a step.                                                    *)
(*                                                                         *)
(* A lock is that of a transaction that has begun to commit and writes the *)
(* key, it is the key's only one, and it is later than the key's records.  *)
(* A record is that of a transaction whose primary has the same record,    *)
(* and the records of a key belong to transactions that did not overlap.   *)
(* No two transactions share a timestamp, and whoever settles somebody     *)
(* else's lock rolls forward only what was decided.                        *)
(***************************************************************************)
EXTENDS Transactions, TLAPS

\* A leaf that names no prover is tried with these, in this order.
USE SMTT(30), Z3T(30), ZenonT(40)

\* What the machine of a shard may be asked of a key: one lock, and a last record.
Tidy(q, k) ==
    /\ q \in Machine
    /\ \A x, y \in q.lock[k] : x = y
    /\ q.wrote[k] = {} \/ LatestWrite(q, k) # {}

\* n is q with the lock x on k, which had none and whose records are before it.
Takes(q, n, k, x) ==
    /\ q.lock[k] = {} /\ \A w \in q.wrote[k] : w.commit <= x.start
    /\ n.row = q.row /\ n.wrote = q.wrote /\ n.lock = [q.lock EXCEPT ![k] = {x}]

\* n is q with the lock x of k turned into a version and a record at c.
Puts(q, n, k, x, c) ==
    /\ q.lock[k] = {x} /\ n.lock = [q.lock EXCEPT ![k] = {}]
    /\ n.row = [q.row EXCEPT ![k] = {v \in @ : v.at # c} \cup {[at |-> c, value |-> x.value]}]
    /\ n.wrote = [q.wrote EXCEPT ![k] = {w \in @ : w.commit # c}
                                        \cup {[commit |-> c, start |-> x.start]}]

\* n is q without the locks of k.
Drops(q, n, k) ==
    n.row = q.row /\ n.wrote = q.wrote /\ n.lock = [q.lock EXCEPT ![k] = {}]

\* One _apply_prewrite locks a key that has no lock and no later record, or does nothing.
LEMMA PrewriteOnce ==
    ASSUME NEW q, NEW k \in Key, Tidy(q, k), NEW t \in Txn, NEW s \in Nat, NEW p \in Key,
           NEW o, o = ApplyPrewrite(q, k, t, s, p)
    PROVE  /\ o.m \in Machine
           /\ \/ o.m = q /\ o.code # "ok"
              \/ /\ o.code = "ok"
                 /\ Takes(q, o.m, k, [start |-> s, primary |-> p, value |-> t, fresh |-> TRUE])
  <1>x. PICK x : x = [start |-> s, primary |-> p, value |-> t, fresh |-> TRUE]
    BY Zenon
  <1>1. CASE o.m = q /\ o.code # "ok"
    BY <1>1 DEF Tidy
  <1>2. CASE /\ NewestLock(q, k) = {} /\ ~ \E w \in LatestWrite(q, k) : w.commit > s
             /\ o = Done([q EXCEPT !.lock[k] = @ \cup {x}])
    <2>1. q.lock[k] = {}
      <3> SUFFICES ASSUME NEW y \in q.lock[k] PROVE FALSE
        OBVIOUS
      <3>1. y.start \in Nat /\ \A z \in q.lock[k] : z = y
        BY DEF Tidy, Machine, Lock
      <3>2. y \in NewestLock(q, k)
        BY <3>1 DEF NewestLock
      <3> QED
        BY <3>2, <1>2
    <2>2. \A w \in q.wrote[k] : w.commit <= s
      <3> SUFFICES ASSUME NEW w \in q.wrote[k] PROVE w.commit <= s
        OBVIOUS
      <3>1. PICK u \in LatestWrite(q, k) : TRUE
        BY DEF Tidy
      <3>2. w.commit \in Nat /\ u.commit \in Nat
        BY <3>1 DEF Tidy, Machine, Record, LatestWrite
      <3>3. w.commit <= u.commit /\ ~(u.commit > s)
        BY <1>2, <3>1 DEF LatestWrite
      <3> QED
        BY <3>2, <3>3
    <2>3. o.code = "ok" /\ o.m = [q EXCEPT !.lock = [q.lock EXCEPT ![k] = {x}]]
      BY <1>2, <2>1 DEF Done, Tidy, Machine
    <2>4. x \in Lock
      BY <1>x DEF Lock, Txn
    <2>5. o.m.row = q.row /\ o.m.wrote = q.wrote /\ o.m.lock = [q.lock EXCEPT ![k] = {x}]
      BY <2>3 DEF Tidy, Machine
    <2>6. o.m \in Machine
      BY <2>3, <2>4 DEF Tidy, Machine
    <2> QED
      BY <2>1, <2>2, <2>3, <2>5, <2>6, <1>x DEF Takes
  <1> QED
    BY <1>1, <1>2, <1>x DEF ApplyPrewrite, Fail, Done

\* One _apply_commit turns the lock it names into a version and a record, or does nothing.
LEMMA CommitOnce ==
    ASSUME NEW q, NEW k \in Key, Tidy(q, k), NEW s \in Nat, NEW c \in Nat,
           NEW o, o = ApplyCommit(q, k, s, c)
    PROVE  /\ o.m \in Machine
           /\ \/ o.m = q /\ o.code # "ok"
              \/ /\ o.code = "ok"
                 /\ \E x \in q.lock[k] : x.start = s /\ Puts(q, o.m, k, x, c)
  <1>1. CASE o.m = q /\ o.code # "ok"
    BY <1>1 DEF Tidy
  <1>2. ASSUME NEW x \in LockOf(q, k, s),
               o = Done(Advance(RemoveLock(PutRecord(PutVersion(q, k, x.value, c), k, s, c), k, s), c))
        PROVE  o.m \in Machine /\ o.code = "ok" /\ x.start = s /\ Puts(q, o.m, k, x, c)
    <2>1. q.lock[k] = {x} /\ x.start = s /\ x \in Lock /\ q \in Machine
      BY <1>2 DEF LockOf, Tidy, Machine
    <2>2. {y \in q.lock[k] : y.start # s} = {}
      BY <2>1
    <2>3. PICK row : row = [q.row EXCEPT ![k] = {v \in @ : v.at # c} \cup {[at |-> c, value |-> x.value]}]
      BY Zenon
    <2>4. PICK wrote : wrote = [q.wrote EXCEPT ![k] = {w \in @ : w.commit # c}
                                        \cup {[commit |-> c, start |-> s]}]
      BY Zenon
    <2>5. PICK lock : lock = [q.lock EXCEPT ![k] = {}]
      BY Zenon
    <2>6. o.code = "ok" /\ o.m = [row |-> row, wrote |-> wrote, lock |-> lock, last |-> Newer(q.last, c)]
      <3>1. q = [row |-> q.row, wrote |-> q.wrote, lock |-> q.lock, last |-> q.last]
        BY <2>1 DEF Machine
      <3>2. PICK a : a = PutVersion(q, k, x.value, c)
        OBVIOUS
      <3>3. a = [row |-> row, wrote |-> q.wrote, lock |-> q.lock, last |-> q.last]
        BY <2>3, <3>1, <3>2, Zenon DEF PutVersion
      <3>4. PICK b : b = PutRecord(a, k, s, c)
        OBVIOUS
      <3>5. b = [row |-> row, wrote |-> wrote, lock |-> q.lock, last |-> q.last]
        BY <2>4, <3>3, <3>4, Zenon DEF PutRecord
      <3>6. PICK d : d = RemoveLock(b, k, s)
        OBVIOUS
      <3>7. d = [row |-> row, wrote |-> wrote, lock |-> lock, last |-> q.last]
        BY <2>2, <2>5, <3>5, <3>6, Zenon DEF RemoveLock
      <3>8. Advance(d, c) = [row |-> row, wrote |-> wrote, lock |-> lock, last |-> Newer(q.last, c)]
        BY <3>7 DEF Advance
      <3> QED
        BY <1>2, <3>2, <3>4, <3>6, <3>8 DEF Done
    <2>7. o.m.row = row /\ o.m.wrote = wrote /\ o.m.lock = lock
      BY <2>6
    <2>8. row \in [Key -> SUBSET Version]
      BY <2>1, <2>3 DEF Machine, Version, Lock
    <2>9. wrote \in [Key -> SUBSET Record]
      BY <2>1, <2>4 DEF Machine, Record
    <2>10. lock \in [Key -> SUBSET Lock] /\ Newer(q.last, c) \in Nat
      BY <2>1, <2>5 DEF Machine, Newer
    <2>11. o.m \in Machine
      BY <2>6, <2>8, <2>9, <2>10 DEF Machine
    <2> QED
      BY <2>1, <2>3, <2>4, <2>5, <2>6, <2>7, <2>11 DEF Puts
  <1>3. LockOf(q, k, s) \subseteq q.lock[k]
    BY DEF LockOf
  <1>4. CASE LockOf(q, k, s) = {}
    BY <1>1, <1>4 DEF ApplyCommit, NoLock, Fail
  <1>5. CASE LockOf(q, k, s) # {}
    <2>1. PICK x : x = CHOOSE y \in LockOf(q, k, s) : TRUE
      OBVIOUS
    <2>2. x \in LockOf(q, k, s)
      BY <1>5, <2>1
    <2>3. o = Done(Advance(RemoveLock(PutRecord(PutVersion(q, k, x.value, c), k, s, c), k, s), c))
      BY <1>5, <2>1 DEF ApplyCommit
    <2> QED
      BY <1>2, <1>3, <2>2, <2>3
  <1> QED
    BY <1>4, <1>5

\* One _apply_rollback takes the lock it names away, or does nothing.
LEMMA RollbackOnce ==
    ASSUME NEW q, NEW k \in Key, Tidy(q, k), NEW s \in Nat, NEW o, o = ApplyRollback(q, k, s)
    PROVE  o.m \in Machine /\ (o.m = q \/ Drops(q, o.m, k))
  <1>1. CASE o.m = q
    BY <1>1 DEF Tidy
  <1>2. CASE LockOf(q, k, s) # {} /\ o = Done(RemoveLock(q, k, s))
    <2>1. PICK x \in q.lock[k] : x.start = s
      BY <1>2 DEF LockOf
    <2>2. {y \in q.lock[k] : y.start # s} = {} /\ q \in Machine
      BY <2>1 DEF Tidy
    <2>3. PICK lock : lock = [q.lock EXCEPT ![k] = {}]
      BY Zenon
    <2>r. q = [row |-> q.row, wrote |-> q.wrote, lock |-> q.lock, last |-> q.last]
      BY <2>2 DEF Machine
    <2>d. PICK d : d = RemoveLock(q, k, s)
      OBVIOUS
    <2>e. d = [row |-> q.row, wrote |-> q.wrote, lock |-> lock, last |-> q.last]
      BY <2>2, <2>3, <2>r, <2>d, Zenon DEF RemoveLock
    <2>4. o.m = [row |-> q.row, wrote |-> q.wrote, lock |-> lock, last |-> q.last]
      BY <1>2, <2>d, <2>e DEF Done
    <2>5. lock \in [Key -> SUBSET Lock]
      BY <2>2, <2>3 DEF Machine
    <2>6. o.m \in Machine
      BY <2>2, <2>4, <2>5 DEF Machine
    <2> QED
      BY <2>3, <2>4, <2>6 DEF Drops
  <1> QED
    BY <1>1, <1>2 DEF ApplyRollback, NoLock, Fail, Done

\* What a proposed prewrite may have done when its caller goes on: applied twice, once or
\* not at all, and answered or not (_propose_command, retried by the client).
LEMMA PrewriteAsked ==
    ASSUME NEW q, NEW k \in Key, Tidy(q, k), NEW t \in Txn, NEW s \in Nat, NEW p \in Key,
           NEW once, once = ApplyPrewrite(q, k, t, s, p),
           NEW twice, twice = ApplyPrewrite(once.m, k, t, s, p),
           NEW o \in Outcomes(q, once, twice)
    PROVE  /\ o.m \in Machine
           /\ \/ o.m = q
              \/ Takes(q, o.m, k, [start |-> s, primary |-> p, value |-> t, fresh |-> TRUE])
  <1>x. PICK x : x = [start |-> s, primary |-> p, value |-> t, fresh |-> TRUE]
    BY Zenon
  <1>1. once.m \in Machine /\ (once.m = q \/ Takes(q, once.m, k, x))
    BY PrewriteOnce, <1>x
  <1>2. twice.m \in Machine /\ (twice.m = q \/ twice.m = once.m)
    <2>1. CASE once.m = q
      BY <1>1, <2>1
    <2>2. CASE Takes(q, once.m, k, x)
      <3>1. once.m.lock[k] = {x} /\ once.m.wrote = q.wrote
        BY <2>2 DEF Takes, Tidy, Machine
      <3>2. Tidy(once.m, k)
        BY <1>1, <3>1 DEF Tidy, LatestWrite
      <3>3. twice.m \in Machine /\ (twice.m = once.m \/ Takes(once.m, twice.m, k, x))
        BY <3>2, PrewriteOnce, <1>x
      <3> QED
        BY <3>1, <3>3 DEF Takes
    <2> QED
      BY <1>1, <2>1, <2>2
  <1>3. q \in Machine
    BY DEF Tidy
  <1>4. o = once \/ o = twice \/ o.m \in {q, once.m}
    BY DEF Outcomes
  <1> QED
    BY <1>1, <1>2, <1>3, <1>4, <1>x

\* What a proposed commit may have done to q when its caller goes on, with the answer o.
CommitGives(q, k, s, c, o) ==
    /\ o.m \in Machine
    /\ o.m = q \/ \E x \in q.lock[k] : x.start = s /\ Puts(q, o.m, k, x, c)
    /\ o.code = "ok" => \E x \in q.lock[k] : x.start = s /\ Puts(q, o.m, k, x, c)
    /\ ~Timeouts /\ ~Retries /\ o.code # "ok" => o.m = q

\* A proposed commit does what CommitGives says, however often it is applied (the second
\* time finds no lock).
LEMMA CommitAsked ==
    ASSUME NEW q, NEW k \in Key, Tidy(q, k), NEW s \in Nat, NEW c \in Nat,
           NEW once, once = ApplyCommit(q, k, s, c),
           NEW twice, twice = ApplyCommit(once.m, k, s, c),
           NEW o \in Outcomes(q, once, twice)
    PROVE  CommitGives(q, k, s, c, o)
  <1>1. /\ once.m \in Machine /\ q \in Machine
        /\ \/ once.m = q /\ once.code # "ok"
           \/ \E x \in q.lock[k] : x.start = s /\ Puts(q, once.m, k, x, c)
    BY CommitOnce DEF Tidy
  <1>2. once.code = "ok" => \E x \in q.lock[k] : x.start = s /\ Puts(q, once.m, k, x, c)
    BY <1>1
  <1>3. /\ twice.m \in Machine /\ (twice.m = q \/ twice.m = once.m)
        /\ twice = once \/ twice.code # "ok"
    <2>1. CASE once.m = q
      BY <1>1, <2>1
    <2>2. ASSUME NEW x \in q.lock[k], Puts(q, once.m, k, x, c)
          PROVE  twice.m = once.m /\ twice.code # "ok"
      <3>1. once.m.lock[k] = {}
        BY <1>1, <2>2 DEF Puts, Machine
      <3> QED
        BY <3>1, Zenon DEF ApplyCommit, LockOf, NoLock, Fail
    <2> QED
      BY <1>1, <2>1, <2>2
  <1>4. \/ o = once
        \/ o = twice /\ Retries
        \/ o.m \in {q, once.m} /\ o.code \in {"timeout", "silent"} /\ Timeouts
    BY DEF Outcomes
  <1>5. once.code # "ok" => once.m = q
    BY CommitOnce
  <1> QED
    BY <1>1, <1>2, <1>3, <1>4, <1>5 DEF CommitGives

\* A proposed rollback leaves the key as it is or without its lock.
LEMMA RollbackAsked ==
    ASSUME NEW q, NEW k \in Key, Tidy(q, k), NEW s \in Nat,
           NEW once, once = ApplyRollback(q, k, s),
           NEW twice, twice = ApplyRollback(once.m, k, s),
           NEW o \in Outcomes(q, once, twice)
    PROVE  o.m \in Machine /\ (o.m = q \/ Drops(q, o.m, k))
  <1>1. once.m \in Machine /\ q \in Machine /\ (once.m = q \/ Drops(q, once.m, k))
    BY RollbackOnce DEF Tidy
  <1>2. twice.m \in Machine /\ (twice.m = q \/ twice.m = once.m)
    <2>1. CASE once.m = q
      BY <1>1, <2>1
    <2>2. CASE Drops(q, once.m, k)
      <3>1. once.m.lock[k] = {}
        BY <1>1, <2>2 DEF Drops, Machine
      <3> QED
        BY <1>1, <3>1, Zenon DEF ApplyRollback, LockOf, NewestLock, Done
    <2> QED
      BY <1>1, <2>1, <2>2
  <1>4. o = once \/ o = twice \/ o.m \in {q, once.m}
    BY DEF Outcomes
  <1> QED
    BY <1>1, <1>2, <1>4

\* n is m with some versions of k gone and perhaps a tombstone.
Wipes(q, n, k) ==
    /\ n.wrote = q.wrote /\ n.lock = q.lock
    /\ \A j \in Key \ {k} : n.row[j] = q.row[j]
    /\ \A v \in n.row[k] : v \in q.row[k] \/ v.value = Nothing

\* One _apply_delete writes a tombstone over what it finds at its timestamp.
LEMMA DeleteOnce ==
    ASSUME NEW q \in Machine, NEW k \in Key, NEW t \in Nat, NEW o, o = ApplyDelete(q, k, t)
    PROVE  o.m \in Machine /\ Wipes(q, o.m, k)
  <1>1. q = [row |-> q.row, wrote |-> q.wrote, lock |-> q.lock, last |-> q.last]
    BY DEF Machine
  <1>2. PICK row : row = [q.row EXCEPT ![k] = {v \in @ : v.at # t} \cup {[at |-> t, value |-> Nothing]}]
    BY Zenon
  <1>3. PICK a : a = PutVersion(q, k, Nothing, t)
    OBVIOUS
  <1>4. a = [row |-> row, wrote |-> q.wrote, lock |-> q.lock, last |-> q.last]
    BY <1>1, <1>2, <1>3, Zenon DEF PutVersion
  <1>5. o.m = [row |-> row, wrote |-> q.wrote, lock |-> q.lock, last |-> Newer(q.last, t)]
    BY <1>3, <1>4 DEF ApplyDelete, Done, Advance
  <1>6. row \in [Key -> SUBSET Version] /\ Newer(q.last, t) \in Nat
    BY <1>2 DEF Machine, Version, Newer
  <1>7. o.m \in Machine
    BY <1>5, <1>6 DEF Machine
  <1>8. /\ \A j \in Key \ {k} : row[j] = q.row[j]
        /\ \A v \in row[k] : v \in q.row[k] \/ v.value = Nothing
    BY <1>2 DEF Machine
  <1> QED
    BY <1>5, <1>7, <1>8 DEF Wipes

\* A proposed delete touches no record, no lock and no other key.
LEMMA DeleteAsked ==
    ASSUME NEW q \in Machine, NEW k \in Key, NEW t \in Nat,
           NEW once, once = ApplyDelete(q, k, t), NEW twice, twice = ApplyDelete(once.m, k, t),
           NEW o \in Outcomes(q, once, twice)
    PROVE  o.m \in Machine /\ Wipes(q, o.m, k)
  <1>1. once.m \in Machine /\ Wipes(q, once.m, k) /\ Wipes(q, q, k)
    BY DeleteOnce DEF Wipes
  <1>2. twice.m \in Machine /\ Wipes(once.m, twice.m, k)
    BY <1>1, DeleteOnce
  <1>3. Wipes(q, twice.m, k)
    BY <1>1, <1>2 DEF Wipes
  <1>4. o = once \/ o = twice \/ o.m \in {q, once.m}
    BY DEF Outcomes
  <1> QED
    BY <1>1, <1>2, <1>3, <1>4

-----------------------------------------------------------------------------
(* Transactions: what is kept of the columns of a key, of the clock and of   *)
(* what everybody knows.                                                     *)

\* The columns of k in the machine of its shard: versions, records and locks; and the machine
\* of a replica of that shard that is behind.
Rows(k) == At(k).row[k]
Records(k) == At(k).wrote[k]
Locks(k) == At(k).lock[k]
Behind(k) == lag[ShardOf[k]]

\* The shapes of what the clients hold.
Place == Key \cup {Calm.key}
Seeing == UNION {[D -> Value \cup {Nothing}] : D \in SUBSET Key}
TxnRecord ==
    [pc : {"new", "reading", "prewriting", "prewritten", "validating", "stamped", "secondary",
           "undo", "raised", "done", "dead"},
     status : {"pending", "prewritten", "committed", "aborted"}, start : Nat, commit : Nat,
     todo : SUBSET Key, pre : [Key -> {"todo", "ok", "no"}], saw : Seeing, tries : Nat]
Errand ==
    [pc : {"idle", "look", "record", "lock", "stamp", "forward", "back"},
     key : Place, start : Nat, primary : Place, commit : Nat]
Found == [pc : {"new", "again", "done"}, value : Value \cup {Nothing}, was : BOOLEAN]

\* Every variable has its shape.
Shape ==
    /\ db \in [Shard -> Machine] /\ lag \in [Shard -> Machine]
    /\ clock \in Nat /\ run \in [Coordinator -> [next : Nat, end : Nat]]
    /\ txn \in [Txn -> TxnRecord] /\ res \in [Asker -> Errand]
    /\ get \in [Getter -> Found]
    /\ del \in [Deleter -> [pc : {"new", "stamped", "done"}, at : Nat]]

\* The timestamps the clock has given: nobody will be given one of them again.
InRun(c, n) == run[c].next <= n /\ n < run[c].end
Spent(n) == n <= clock /\ \A c \in Coordinator : ~InRun(c, n)
StampsOf(t) == {txn[t].start, txn[t].commit} \ {0}

\* Timestamps are handed out of runs that the clock has passed, and no two coordinators
\* have one in common.
Runs ==
    /\ \A c \in Coordinator : run[c].next >= 1 /\ run[c].end <= clock + 1
    /\ \A c, d \in Coordinator : \A n \in Nat : InRun(c, n) /\ InRun(d, n) => c = d

\* Whatever timestamp a transaction has is spent and its own.
Stamps ==
    /\ Runs
    /\ \A t \in Txn : \A n \in StampsOf(t) : Spent(n)
    /\ \A t, u \in Txn : \A n \in StampsOf(t) : n \in StampsOf(u) => t = u
    /\ \A t \in Txn : txn[t].start < run[Home[t]].next

\* t has begun to commit: only then may there be locks of it.
Begun(t) == txn[t].pc \notin {"new", "reading"}

\* A lock on k is that of a transaction that writes k and has begun to commit.
Mark(k, x) ==
    LET t == x.value
    IN  /\ x.start = txn[t].start /\ x.start # 0 /\ x.primary = Primary(t)
        /\ k \in Written(t) /\ Begun(t)

\* The record t leaves on the keys it writes, and its commit point: the one on its primary.
RecordBy(t) == [commit |-> txn[t].commit, start |-> txn[t].start]
HasDecided(t) ==
    /\ txn[t].start # 0 /\ txn[t].start < txn[t].commit
    /\ RecordBy(t) \in Records(Primary(t))

\* What the columns of a key tell: of its locks, of its records, and of its versions.
Marks == \A k \in Key : \A x \in Locks(k) \cup Behind(k).lock[k] : x \in Lock /\ Mark(k, x)
OneLockEach == \A k \in Key : \A x, y \in Locks(k) : x = y
LocksAreLate == \A k \in Key : \A x \in Locks(k) : \A w \in Records(k) : w.commit <= x.start
Peaks == \A k \in Key : Records(k) = {} \/ LatestWrite(At(k), k) # {}
RecordsAreDecided ==
    \A k \in Key : \A w \in Records(k) :
        \E t \in Txn : w = RecordBy(t) /\ k \in Written(t) /\ HasDecided(t)
RecordsApart ==
    \A k \in Key : \A v, w \in Records(k) : v = w \/ v.commit <= w.start \/ w.commit <= v.start
VersionsAreRecorded ==
    \A k \in Key : \A v \in Rows(k) : v.value # Nothing => RecordBy(v.value) \in Records(k)
BehindIsBehind == \A k \in Key : Behind(k).wrote[k] \subseteq Records(k)

\* All of it, for every key.
Columns ==
    /\ Marks /\ OneLockEach /\ LocksAreLate /\ Peaks
    /\ RecordsAreDecided /\ RecordsApart /\ VersionsAreRecorded /\ BehindIsBehind

\* p asks about a lock of some transaction, and rolls forward only what has decided.
Asked(p) ==
    /\ res[p].pc # "idle" => res[p].key \in Key
    /\ res[p].pc \in {"record", "lock", "stamp", "forward", "back"} =>
          \E t \in Txn :
             /\ txn[t].start # 0 /\ res[p].start = txn[t].start
             /\ res[p].primary = Primary(t) /\ res[p].key \in Written(t)
             /\ res[p].pc = "forward" => HasDecided(t) /\ res[p].commit = txn[t].commit

\* Where t is in its commit tells its timestamps and its status, r being its record.
Going(t, r) ==
    /\ r.pc = "new" => r.start = 0
    /\ r.start = 0 => DOMAIN r.saw = {}
    /\ r.pc \notin {"new", "dead"} => r.start # 0
    /\ r.pc \in {"new", "reading", "prewriting"} => r.status = "pending"
    /\ r.pc \in {"prewritten", "validating", "stamped"} => r.status = "prewritten"
    /\ r.pc \in {"prewriting", "prewritten", "validating", "stamped", "secondary", "undo",
                 "raised"} => WritesOf[t] # << >>
    /\ r.pc \in {"new", "reading", "prewriting", "prewritten", "validating"}
       \/ r.status = "pending" => r.commit = 0
    /\ r.pc \in {"stamped", "secondary"} => r.start < r.commit
    /\ r.pc \in {"secondary", "undo"} => r.todo \subseteq Written(t)
Goings == \A t \in Txn : Going(t, txn[t])

\* A coordinator is at its secondaries after the commit point.
SecondariesWait == \A t \in Txn : txn[t].pc = "secondary" => HasDecided(t)

\* A value read of k is in a record of k.
ReadOf(v, k) == v # Nothing => RecordBy(v) \in Records(k)
Reads ==
    /\ \A t \in Txn : \A k \in DOMAIN txn[t].saw : ReadOf(txn[t].saw[k], k)
    /\ \A g \in Getter : ReadOf(get[g].value, KeyOf[g])

\* The inductive invariant.
TxInv ==
    /\ Shape /\ Stamps /\ Columns /\ (\A p \in Asker : Asked(p))
    /\ Goings /\ SecondariesWait /\ Reads

-----------------------------------------------------------------------------
(* What a step may do to the columns of a key.                               *)

\* The step leaves the columns of k alone.
Unmoved(k) == Rows(k)' = Rows(k) /\ Records(k)' = Records(k) /\ Locks(k)' = Locks(k)

\* No more records, locks, and versions but tombstones.
Fewer(k) ==
    /\ Records(k)' = Records(k)
    /\ \/ Rows(k)' = Rows(k)
       \/ Deleter # {} /\ \A v \in Rows(k)' : v \in Rows(k) \/ v.value = Nothing
    /\ \A y \in Locks(k)' : \E x \in Locks(k) :
          y.start = x.start /\ y.primary = x.primary /\ y.value = x.value
    /\ \A y, z \in Locks(k)' : y = z

\* A transaction that has not taken its commit timestamp locks the key.
Took(k) ==
    \E x \in Lock :
        /\ Locks(k) = {} /\ Locks(k)' = {x} /\ Rows(k)' = Rows(k) /\ Records(k)' = Records(k)
        /\ Mark(k, x) /\ txn[x.value].commit = 0 /\ \A w \in Records(k) : w.commit <= x.start

\* The commit point; whose coordinator knows, if every proposal is answered once.
Deciding(t) ==
    /\ txn[t].pc = "stamped"
    /\ ~Timeouts /\ ~Retries => txn'[t].pc = "secondary" /\ txn'[t].status = "committed"

\* The lock of a transaction becomes its version and its record; that of a secondary, and
\* any a resolver rolls forward, only once the transaction has decided.
Put(k, t) ==
    /\ \E x \in Locks(k) : x.value = t /\ Locks(k) = {x}
    /\ txn[t].start < txn[t].commit
    /\ HasDecided(t) \/ (k = Primary(t) /\ Deciding(t))
    /\ Locks(k)' = {}
    /\ Rows(k)' = {v \in Rows(k) : v.at # txn[t].commit}
                  \cup {[at |-> txn[t].commit, value |-> t]}
    /\ Records(k)' = {w \in Records(k) : w.commit # txn[t].commit} \cup {RecordBy(t)}

\* A step does one of these to one key, and leaves the others alone.
Effect ==
    /\ \A k \in Key : Fewer(k) \/ Took(k) \/ \E t \in Txn : Put(k, t)
    /\ \A j, k \in Key : j = k \/ Unmoved(j) \/ Unmoved(k)

\* What is known of a transaction stays known.
Stable(t) ==
    /\ txn[t].start # 0 => txn'[t].start = txn[t].start
    /\ txn[t].commit # 0 => txn'[t].commit = txn[t].commit
    /\ Begun(t) => Begun(t)'

\* A replica that is behind stays as it is or catches up.
LagStep == \A k \in Key : Behind(k)' = Behind(k) \/ Behind(k)' = At(k)

\* The types of a key's columns.
LEMMA ColumnTypes ==
    ASSUME PlanAssumption, Shape, NEW k \in Key
    PROVE  /\ ShardOf[k] \in Shard /\ At(k) \in Machine /\ Behind(k) \in Machine
           /\ Rows(k) \subseteq Version /\ Records(k) \subseteq Record /\ Locks(k) \subseteq Lock
  <1>1. ShardOf[k] \in Shard
    BY DEF PlanAssumption
  <1>2. At(k) \in Machine /\ Behind(k) \in Machine
    BY <1>1 DEF Shape, At, Behind
  <1> QED
    BY <1>1, <1>2 DEF Machine, Rows, Records, Locks

\* A primary is one of the keys its transaction writes.
LEMMA PrimaryIsKey ==
    ASSUME PlanAssumption, NEW t \in Txn, WritesOf[t] # << >>
    PROVE  Primary(t) \in Key /\ Primary(t) \in Written(t)
  <1>1. WritesOf[t] \in Seq(Key)
    BY DEF PlanAssumption
  <1>2. Len(WritesOf[t]) \in Nat /\ Len(WritesOf[t]) # 0
    BY <1>1
  <1>3. 1 \in 1 .. Len(WritesOf[t])
    BY <1>2
  <1> QED
    BY <1>1, <1>3 DEF Primary, Written

\* What a transaction writes are keys.
LEMMA WrittenAreKeys ==
    ASSUME PlanAssumption, NEW t \in Txn PROVE Written(t) \subseteq Key
  <1>1. WritesOf[t] \in Seq(Key)
    BY DEF PlanAssumption
  <1> QED
    BY <1>1 DEF Written

\* A transaction with a key to write has a primary.
LEMMA WriterHasPrimary ==
    ASSUME PlanAssumption, NEW t \in Txn, NEW k \in Written(t)
    PROVE  Primary(t) \in Key /\ Primary(t) \in Written(t) /\ WritesOf[t] # << >>
  <1>1. WritesOf[t] # << >>
    BY DEF Written
  <1> QED
    BY <1>1, PrimaryIsKey

\* Timestamps tell transactions apart.
LEMMA StampsTell ==
    ASSUME Shape, Stamps, NEW t \in Txn, NEW u \in Txn
    PROVE  /\ txn[t].start = txn[u].start /\ txn[t].start # 0 => t = u
           /\ txn[t].commit = txn[u].commit /\ txn[t].commit # 0 => t = u
  BY DEF Stamps, StampsOf

\* The types of what a transaction knows of time.
LEMMA TxnTypes ==
    ASSUME Shape, NEW t \in Txn
    PROVE  /\ txn[t] \in TxnRecord /\ txn[t].start \in Nat /\ txn[t].commit \in Nat
           /\ txn[t].start = 0 \/ txn[t].start \in StampsOf(t)
           /\ txn[t].commit = 0 \/ txn[t].commit \in StampsOf(t)
           /\ \A n \in StampsOf(t) : n \in Nat
  <1>1. txn[t] \in TxnRecord
    BY Zenon DEF Shape
  <1>2. txn[t].start \in Nat /\ txn[t].commit \in Nat
    BY <1>1, Zenon DEF TxnRecord
  <1> QED
    BY <1>1, <1>2, Zenon DEF StampsOf

\* What a transaction has decided it has decided for good, if records stay.
LEMMA DecidedStays ==
    ASSUME PlanAssumption, Shape, NEW t \in Txn, Stable(t), HasDecided(t),
           Records(Primary(t)) \subseteq Records(Primary(t))'
    PROVE  HasDecided(t)' /\ RecordBy(t)' = RecordBy(t)
  <1>1. txn[t].start \in Nat /\ txn[t].commit \in Nat
    BY DEF Shape, TxnRecord
  <1>2. txn'[t].start = txn[t].start /\ txn'[t].commit = txn[t].commit
    BY <1>1 DEF Stable, HasDecided
  <1>3. RecordBy(t)' = RecordBy(t)
    BY <1>2 DEF RecordBy
  <1> QED
    BY <1>2, <1>3 DEF HasDecided

\* A lock put as a record: no record goes, and the new one is the last.
LEMMA PutGrows ==
    ASSUME PlanAssumption, Shape, Stamps, Columns, NEW k \in Key, NEW t \in Txn, Put(k, t)
    PROVE  /\ Records(k)' = Records(k) \cup {RecordBy(t)}
           /\ \A w \in Records(k) : w.commit <= txn[t].commit /\ w.commit <= txn[t].start
           /\ k \in Written(t) /\ txn[t].start # 0
  <1>1. PICK x \in Locks(k) : x.value = t /\ Locks(k) = {x}
    BY DEF Put
  <1>2. x.start = txn[t].start /\ k \in Written(t) /\ x.start # 0
    BY <1>1 DEF Columns, Marks, Mark
  <1>3. txn[t].start \in Nat /\ txn[t].commit \in Nat /\ txn[t].start < txn[t].commit
    BY DEF Shape, TxnRecord, Put
  <1>4. ASSUME NEW w \in Records(k) PROVE w.commit \in Nat /\ w.commit <= txn[t].start
    BY <1>1, <1>2, ColumnTypes DEF Columns, LocksAreLate, Record
  <1>5. \A w \in Records(k) : w.commit # txn[t].commit /\ w.commit <= txn[t].commit
    BY <1>3, <1>4
  <1>6. {w \in Records(k) : w.commit # txn[t].commit} = Records(k)
    BY <1>5
  <1> QED
    BY <1>2, <1>4, <1>5, <1>6 DEF Put

\* No step takes a record away.
LEMMA RecordsGrow ==
    ASSUME PlanAssumption, Shape, Stamps, Columns, Effect, NEW k \in Key
    PROVE  Records(k) \subseteq Records(k)'
  BY PutGrows, Zenon DEF Effect, Fewer, Took

\* A decision is for good: no step takes the record of the primary away.
LEMMA DecidedGrows ==
    ASSUME PlanAssumption, Shape, Stamps, Columns, Effect, NEW t \in Txn, Stable(t),
           HasDecided(t), WritesOf[t] # << >>
    PROVE  HasDecided(t)' /\ RecordBy(t)' = RecordBy(t)
  <1>1. Primary(t) \in Key
    BY PrimaryIsKey
  <1> QED
    BY <1>1, RecordsGrow, DecidedStays

\* Locks keep the marks of their transactions.
LEMMA MarkStays ==
    ASSUME Shape, NEW k \in Key, NEW x \in Lock, Mark(k, x), Stable(x.value), NEW y,
           y.start = x.start, y.primary = x.primary, y.value = x.value
    PROVE  Mark(k, y)'
  <1>1. x.value \in Txn
    BY DEF Lock, Txn
  <1> QED
    BY <1>1 DEF Mark, Stable

\* A record of a transaction on a key is its record from then on.
LEMMA RecordStays ==
    ASSUME PlanAssumption, Shape, Stamps, Columns, Effect, NEW k \in Key, NEW v \in Txn,
           Stable(v), RecordBy(v) \in Records(k)
    PROVE  RecordBy(v)' = RecordBy(v) /\ RecordBy(v)' \in Records(k)'
  <1>1. PICK t \in Txn : RecordBy(v) = RecordBy(t) /\ k \in Written(t) /\ HasDecided(t)
    BY DEF Columns, RecordsAreDecided
  <1>2. txn[v].start = txn[t].start /\ txn[t].start # 0
    BY <1>1 DEF RecordBy, HasDecided
  <1>3. v = t
    BY <1>2, StampsTell
  <1>4. RecordBy(v)' = RecordBy(v)
    BY <1>1, <1>3, WriterHasPrimary, DecidedGrows
  <1> QED
    BY <1>4, RecordsGrow

\* The columns of every key stay in order over every step.
LEMMA ColumnsStay ==
    ASSUME PlanAssumption, Shape, Shape', Stamps, Columns, Effect, LagStep,
           \A t \in Txn : Stable(t)
    PROVE  Columns'
  <1>1. BehindIsBehind'
    <2> SUFFICES ASSUME NEW k \in Key PROVE Behind(k)'.wrote[k] \subseteq Records(k)'
      BY DEF BehindIsBehind
    <2>1. Behind(k)'.wrote[k] \subseteq Records(k)
      BY DEF LagStep, Columns, BehindIsBehind, Records
    <2> QED
      BY <2>1, RecordsGrow
  <1>2. Marks'
    <2> SUFFICES ASSUME NEW k \in Key, NEW y \in Locks(k)' \cup Behind(k)'.lock[k]
                 PROVE  y \in Lock /\ Mark(k, y)'
      BY DEF Marks
    <2>1. \A x \in Lock : Mark(k, x) => Mark(k, x)'
      BY MarkStays DEF Lock, Txn
    <2>2. CASE y \in Behind(k)'.lock[k]
      <3>1. y \in Behind(k).lock[k] \/ y \in Locks(k)
        BY <2>2 DEF LagStep, Locks
      <3>2. y \in Lock /\ Mark(k, y)
        BY <3>1 DEF Columns, Marks
      <3> QED
        BY <2>1, <3>2
    <2>3. CASE y \in Locks(k)'
      <3>0. y \in Lock
        <4>1. ShardOf[k] \in Shard
          BY DEF PlanAssumption
        <4>2. At(k)' \in Machine
          BY <4>1 DEF Shape, At
        <4> QED
          BY <2>3, <4>2 DEF Locks, Machine
      <3>1. CASE Fewer(k)
        <4>1. PICK x \in Locks(k) :
                      y.start = x.start /\ y.primary = x.primary /\ y.value = x.value
          BY <2>3, <3>1 DEF Fewer
        <4>2. x \in Lock /\ Mark(k, x)
          BY DEF Columns, Marks
        <4>3. Stable(x.value)
          BY <4>2 DEF Lock, Txn
        <4> QED
          BY <3>0, <4>1, <4>2, <4>3, MarkStays
      <3>2. CASE Took(k)
        BY <2>1, <2>3, <3>2 DEF Took
      <3>3. CASE \E t \in Txn : Put(k, t)
        BY <2>3, <3>3 DEF Put
      <3> QED
        BY <3>1, <3>2, <3>3 DEF Effect
    <2> QED
      BY <2>2, <2>3
  <1>3. OneLockEach' /\ LocksAreLate'
    <2> SUFFICES ASSUME NEW k \in Key
                 PROVE  /\ \A x, y \in Locks(k)' : x = y
                        /\ \A x \in Locks(k)' : \A w \in Records(k)' : w.commit <= x.start
      BY DEF OneLockEach, LocksAreLate
    <2>1. CASE Fewer(k)
      BY <2>1 DEF Fewer, Columns, LocksAreLate
    <2>2. CASE Took(k)
      BY <2>2 DEF Took
    <2>3. CASE \E t \in Txn : Put(k, t)
      BY <2>3 DEF Put
    <2> QED
      BY <2>1, <2>2, <2>3 DEF Effect
  <1>4. Peaks'
    <2> SUFFICES ASSUME NEW k \in Key, Records(k)' # {} PROVE LatestWrite(At(k), k)' # {}
      BY DEF Peaks
    <2>1. CASE Records(k)' = Records(k)
      BY <2>1 DEF Columns, Peaks, LatestWrite, Records
    <2>2. ASSUME NEW t \in Txn, Put(k, t) PROVE LatestWrite(At(k), k)' # {}
      <3>1. /\ Records(k)' = Records(k) \cup {RecordBy(t)}
            /\ \A w \in Records(k) : w.commit <= txn[t].commit
        BY <2>2, PutGrows
      <3>2. RecordBy(t).commit = txn[t].commit /\ txn[t].commit \in Nat
        BY DEF RecordBy, Shape, TxnRecord
      <3>3. \A w \in Records(k)' : w.commit <= RecordBy(t).commit
        BY <3>1, <3>2
      <3>4. RecordBy(t) \in LatestWrite(At(k), k)'
        BY <3>1, <3>3 DEF LatestWrite, Records
      <3> QED
        BY <3>4
    <2> QED
      BY <2>1, <2>2, Zenon DEF Effect, Fewer, Took
  <1>5. RecordsAreDecided'
    <2> SUFFICES ASSUME NEW k \in Key, NEW w \in Records(k)'
                 PROVE  \E t \in Txn : w = RecordBy(t)' /\ k \in Written(t) /\ HasDecided(t)'
      BY DEF RecordsAreDecided
    <2>1. ASSUME NEW t \in Txn, k \in Written(t), HasDecided(t)
          PROVE  HasDecided(t)' /\ RecordBy(t)' = RecordBy(t)
      BY <2>1, WriterHasPrimary, DecidedGrows
    <2>2. CASE w \in Records(k)
      <3>1. PICK t \in Txn : w = RecordBy(t) /\ k \in Written(t) /\ HasDecided(t)
        BY <2>2, Zenon DEF Columns, RecordsAreDecided
      <3> QED
        BY <2>1, <3>1, Zenon
    <2>3. ASSUME NEW t \in Txn, Put(k, t), w = RecordBy(t)
          PROVE  w = RecordBy(t)' /\ k \in Written(t) /\ HasDecided(t)'
      <3>1. /\ k \in Written(t) /\ txn[t].start # 0
            /\ RecordBy(t) \in Records(k)'
        BY <2>3, PutGrows
      <3>2. CASE HasDecided(t)
        BY <2>1, <2>3, <3>1, <3>2
      <3>3. CASE k = Primary(t)
        <4>1. txn[t].start \in Nat /\ txn[t].commit \in Nat /\ txn[t].start < txn[t].commit
          BY <2>3, TxnTypes, ZenonT(40) DEF Put
        <4>2. txn'[t].start = txn[t].start /\ txn'[t].commit = txn[t].commit
          BY <3>1, <4>1 DEF Stable
        <4>3. RecordBy(t)' = RecordBy(t)
          BY <4>2 DEF RecordBy
        <4> QED
          BY <2>3, <3>1, <3>3, <4>1, <4>2, <4>3 DEF HasDecided
      <3> QED
        <4>1. HasDecided(t) \/ k = Primary(t)
          BY <2>3, Zenon DEF Put
        <4> QED
          BY <3>2, <3>3, <4>1, Zenon
    <2>4. CASE w \notin Records(k)
      <3>1. PICK t \in Txn : Put(k, t)
        BY <2>4, Zenon DEF Effect, Fewer, Took
      <3>2. w = RecordBy(t)
        <4>1. Records(k)' = Records(k) \cup {RecordBy(t)}
          BY <3>1, PutGrows
        <4> QED
          BY <2>4, <4>1, ZenonT(40)
      <3> QED
        BY <2>3, <3>1, <3>2
    <2> QED
      BY <2>2, <2>4
  <1>6. RecordsApart'
    <2> SUFFICES ASSUME NEW k \in Key, NEW v \in Records(k)', NEW w \in Records(k)'
                 PROVE  v = w \/ v.commit <= w.start \/ w.commit <= v.start
      BY DEF RecordsApart
    <2>1. CASE Records(k)' = Records(k)
      BY <2>1 DEF Columns, RecordsApart
    <2>2. ASSUME NEW t \in Txn, Put(k, t) PROVE v = w \/ v.commit <= w.start \/ w.commit <= v.start
      <3>1. /\ Records(k)' = Records(k) \cup {RecordBy(t)}
            /\ \A u \in Records(k) : u.commit <= txn[t].start
        BY <2>2, PutGrows
      <3>2. RecordBy(t).start = txn[t].start
        BY DEF RecordBy
      <3> QED
        BY <3>1, <3>2 DEF Columns, RecordsApart
    <2> QED
      BY <2>1, <2>2, Zenon DEF Effect, Fewer, Took
  <1>7. VersionsAreRecorded'
    <2> SUFFICES ASSUME NEW k \in Key, NEW v \in Rows(k)', v.value # Nothing
                 PROVE  RecordBy(v.value)' \in Records(k)'
      BY DEF VersionsAreRecorded
    <2>1. CASE v \in Rows(k)
      <3>1. RecordBy(v.value) \in Records(k)
        BY <2>1 DEF Columns, VersionsAreRecorded
      <3>2. v.value \in Txn
        BY <2>1, ColumnTypes DEF Version, Txn
      <3> QED
        BY <3>1, <3>2, RecordStays
    <2>2. CASE v \notin Rows(k)
      <3>1. PICK t \in Txn : Put(k, t)
        BY <2>2, ZenonT(40) DEF Effect, Fewer, Took
      <3>2. v.value = t
        BY <2>2, <3>1 DEF Put
      <3>3. /\ Records(k)' = Records(k) \cup {RecordBy(t)}
            /\ txn[t].start # 0 /\ txn[t].start < txn[t].commit
        BY <3>1, PutGrows, ZenonT(40) DEF Put
      <3>4. txn'[t].start = txn[t].start /\ txn'[t].commit = txn[t].commit
        BY <3>3 DEF Stable, Shape, TxnRecord
      <3> QED
        BY <3>2, <3>3, <3>4 DEF RecordBy
    <2> QED
      BY <2>1, <2>2
  <1> QED
    BY <1>1, <1>2, <1>3, <1>4, <1>5, <1>6, <1>7, Zenon DEF Columns

-----------------------------------------------------------------------------
(* What the steps that write a shard do to the columns.                      *)

\* The machine of a shard may be asked of each of its keys.
LEMMA TidyAt ==
    ASSUME PlanAssumption, Shape, Columns, NEW k \in Key PROVE Tidy(At(k), k)
  BY ColumnTypes DEF Columns, OneLockEach, Peaks, Locks, Records, Tidy

\* Writing one shard changes the columns of no key but the one written.
LEMMA DbStep ==
    ASSUME PlanAssumption, Shape, NEW k \in Key, NEW n \in Machine,
           db' = [db EXCEPT ![ShardOf[k]] = n],
           \A j \in Key : j # k => /\ n.row[j] = At(k).row[j] /\ n.wrote[j] = At(k).wrote[j]
                                   /\ n.lock[j] = At(k).lock[j]
    PROVE  db' \in [Shard -> Machine] /\ At(k)' = n /\ \A j \in Key : j # k => Unmoved(j)
  <1>1. ShardOf[k] \in Shard /\ db \in [Shard -> Machine]
    BY Zenon DEF PlanAssumption, Shape
  <1>2. db' \in [Shard -> Machine] /\ db'[ShardOf[k]] = n
    BY <1>1
  <1>3. ASSUME NEW j \in Key, j # k PROVE Unmoved(j)
    <2>1. ShardOf[j] \in Shard
      BY DEF PlanAssumption
    <2>2. CASE ShardOf[j] = ShardOf[k]
      BY <1>2, <1>3, <2>2 DEF Unmoved, Rows, Records, Locks, At
    <2>3. CASE ShardOf[j] # ShardOf[k]
      <3>1. db'[ShardOf[j]] = db[ShardOf[j]]
        BY <1>1, <2>1, <2>3
      <3> QED
        BY <3>1 DEF Unmoved, Rows, Records, Locks, At
    <2> QED
      BY <2>2, <2>3
  <1> QED
    BY <1>2, <1>3 DEF At

\* To leave a key alone is to add nothing to it.
LEMMA UnmovedIsFewer == ASSUME OneLockEach, NEW k \in Key, Unmoved(k) PROVE Fewer(k)
  BY DEF Unmoved, Fewer, OneLockEach

\* A step that leaves the shards alone leaves every key alone.
LEMMA StillIsEffect == ASSUME OneLockEach, UNCHANGED db PROVE Effect
  <1>1. \A k \in Key : Unmoved(k)
    BY DEF Unmoved, Rows, Records, Locks, At
  <1> QED
    BY <1>1, UnmovedIsFewer DEF Effect

\* A step that touches one key has an effect on it.
LEMMA EffectAt ==
    ASSUME OneLockEach, NEW k \in Key, \A j \in Key : j # k => Unmoved(j),
           Unmoved(k) \/ Fewer(k) \/ Took(k) \/ \E t \in Txn : Put(k, t)
    PROVE  Effect
  <1>1. \A j \in Key : Unmoved(j) => Fewer(j)
    BY UnmovedIsFewer
  <1> QED
    BY <1>1 DEF Effect

\* A shard that stays as it is.
LEMMA KeepEffect ==
    ASSUME PlanAssumption, Shape, Columns, NEW k \in Key, db' = [db EXCEPT ![ShardOf[k]] = At(k)]
    PROVE  db' \in [Shard -> Machine] /\ Effect
  <1>1. ShardOf[k] \in Shard /\ db \in [Shard -> Machine]
    BY DEF PlanAssumption, Shape
  <1>2. db' = db
    BY <1>1 DEF At
  <1> QED
    BY <1>1, <1>2, StillIsEffect DEF Columns

\* A lock of a transaction is found under its start timestamp.
LEMMA LockIsOf ==
    ASSUME Shape, Stamps, Columns, NEW k \in Key, NEW t \in Txn, NEW x \in Locks(k),
           x.start = txn[t].start
    PROVE  x.value = t
  <1>1. x \in Lock /\ Mark(k, x)
    BY DEF Columns, Marks
  <1>2. x.value \in Txn /\ txn[x.value].start = txn[t].start /\ txn[t].start # 0
    BY <1>1 DEF Lock, Txn, Mark
  <1> QED
    BY <1>2, StampsTell

\* A commit, by the coordinator or by a resolver.
LEMMA CommitEffect ==
    ASSUME PlanAssumption, Shape, Stamps, Columns, NEW k \in Key, NEW t \in Txn,
           txn[t].start < txn[t].commit,
           NEW s, NEW c, s = txn[t].start, c = txn[t].commit,
           NEW o \in Outcomes(At(k), ApplyCommit(At(k), k, s, c),
                              ApplyCommit(ApplyCommit(At(k), k, s, c).m, k, s, c)),
           \/ HasDecided(t)
           \/ k = Primary(t) /\ (o.code = "ok" \/ Timeouts \/ Retries => Deciding(t)),
           db' = [db EXCEPT ![ShardOf[k]] = o.m]
    PROVE  /\ db' \in [Shard -> Machine] /\ Effect
           /\ o.code = "ok" => RecordBy(t) \in Records(k)'
  <1>1. PICK q : q = At(k)
    OBVIOUS
  <1>2. Tidy(q, k) /\ q \in Machine
    BY <1>1, TidyAt, ColumnTypes, Zenon
  <1>3. s \in Nat /\ c \in Nat
    BY Zenon DEF Shape, TxnRecord
  <1>4. /\ o.m \in Machine
        /\ o.m = q \/ \E x \in q.lock[k] : x.start = s /\ Puts(q, o.m, k, x, c)
        /\ o.code = "ok" => \E x \in q.lock[k] : x.start = s /\ Puts(q, o.m, k, x, c)
        /\ ~Timeouts /\ ~Retries /\ o.code # "ok" => o.m = q
    <2>1. PICK once : once = ApplyCommit(q, k, s, c)
      BY Zenon
    <2>2. PICK twice : twice = ApplyCommit(once.m, k, s, c)
      BY Zenon
    <2>3. o \in Outcomes(q, once, twice)
      BY <1>1, <2>1, <2>2, Zenon
    <2>4. CommitGives(q, k, s, c, o)
      BY <1>2, <1>3, <2>1, <2>2, <2>3, CommitAsked, Zenon
    <2> QED
      BY <2>4, Zenon DEF CommitGives
  <1>5. CASE o.m = q /\ o.code # "ok"
    BY <1>1, <1>5, KeepEffect, Zenon
  <1>6. ASSUME NEW x \in q.lock[k], x.start = s, Puts(q, o.m, k, x, c),
               o.code = "ok" \/ Timeouts \/ Retries
        PROVE  db' \in [Shard -> Machine] /\ Effect /\ RecordBy(t) \in Records(k)'
    <2>1. x.value = t
      BY <1>1, <1>6, LockIsOf, Zenon DEF Locks
    <2>2. /\ q.row \in [Key -> SUBSET Version] /\ q.wrote \in [Key -> SUBSET Record]
          /\ q.lock \in [Key -> SUBSET Lock]
      BY <1>2, Zenon DEF Machine
    <2>3. \A j \in Key : j # k => /\ o.m.row[j] = q.row[j] /\ o.m.wrote[j] = q.wrote[j]
                                  /\ o.m.lock[j] = q.lock[j]
      BY <1>6, <2>2, Zenon DEF Puts
    <2>4. db' \in [Shard -> Machine] /\ At(k)' = o.m /\ \A j \in Key : j # k => Unmoved(j)
      BY <1>1, <1>4, <2>3, DbStep, ZenonT(40)
    <2>5. /\ o.m.lock[k] = {} /\ q.lock[k] = {x}
          /\ o.m.row[k] = {v \in q.row[k] : v.at # c} \cup {[at |-> c, value |-> t]}
          /\ o.m.wrote[k] = {w \in q.wrote[k] : w.commit # c} \cup {[commit |-> c, start |-> s]}
      BY <1>6, <2>1, <2>2, ZenonT(40) DEF Puts
    <2>6. Put(k, t)
      BY <1>1, <1>6, <2>1, <2>4, <2>5, Zenon DEF Put, Locks, Rows, Records, RecordBy
    <2>7. RecordBy(t) \in Records(k)'
      BY <2>4, <2>5, ZenonT(40) DEF Records, RecordBy
    <2> QED
      BY <2>4, <2>6, <2>7, EffectAt, Zenon DEF Columns
  <1> QED
    BY <1>4, <1>5, <1>6, ZenonT(40)

\* A rollback, by the coordinator or by a resolver.
LEMMA RollbackEffect ==
    ASSUME PlanAssumption, Shape, Columns, NEW k \in Key, NEW s \in Nat,
           NEW o \in Outcomes(At(k), ApplyRollback(At(k), k, s),
                              ApplyRollback(ApplyRollback(At(k), k, s).m, k, s)),
           db' = [db EXCEPT ![ShardOf[k]] = o.m]
    PROVE  db' \in [Shard -> Machine] /\ Effect
  <1>1. PICK q : q = At(k)
    OBVIOUS
  <1>2. Tidy(q, k) /\ q \in Machine
    BY <1>1, TidyAt, ColumnTypes
  <1>3. o.m \in Machine /\ (o.m = q \/ Drops(q, o.m, k))
    BY <1>1, <1>2, RollbackAsked, Zenon
  <1>4. CASE o.m = q
    BY <1>1, <1>4, KeepEffect, Zenon
  <1>5. CASE Drops(q, o.m, k)
    <2>1. q.lock \in [Key -> SUBSET Lock]
      BY <1>2, ZenonT(40) DEF Machine
    <2>2. /\ \A j \in Key : j # k => /\ o.m.row[j] = q.row[j] /\ o.m.wrote[j] = q.wrote[j]
                                     /\ o.m.lock[j] = q.lock[j]
          /\ o.m.lock[k] = {} /\ o.m.row[k] = q.row[k] /\ o.m.wrote[k] = q.wrote[k]
      BY <1>5, <2>1 DEF Drops
    <2>3. db' \in [Shard -> Machine] /\ At(k)' = o.m /\ \A j \in Key : j # k => Unmoved(j)
      BY <1>1, <1>3, <2>2, DbStep, ZenonT(40)
    <2>4. Fewer(k)
      BY <1>1, <2>2, <2>3, Zenon DEF Fewer, Rows, Records, Locks
    <2> QED
      BY <2>3, <2>4, EffectAt, Zenon DEF Columns
  <1> QED
    BY <1>3, <1>4, <1>5

\* A prewrite, by a transaction that has begun to commit.
LEMMA PrewriteEffect ==
    ASSUME PlanAssumption, Shape, Columns, NEW t \in Txn, NEW k \in Written(t),
           txn[t].pc = "prewriting", Going(t, txn[t]),
           NEW s, NEW p, s = txn[t].start, p = Primary(t),
           NEW o \in Outcomes(At(k), ApplyPrewrite(At(k), k, t, s, p),
                              ApplyPrewrite(ApplyPrewrite(At(k), k, t, s, p).m, k, t, s, p)),
           db' = [db EXCEPT ![ShardOf[k]] = o.m]
    PROVE  db' \in [Shard -> Machine] /\ Effect
  <1>k. k \in Key /\ p \in Key
    BY WrittenAreKeys, WriterHasPrimary
  <1>1. PICK q : q = At(k)
    OBVIOUS
  <1>2. Tidy(q, k) /\ q \in Machine
    BY <1>k, <1>1, TidyAt, ColumnTypes, Zenon
  <1>s. s \in Nat /\ s # 0 /\ txn[t].commit = 0
    BY Zenon DEF Shape, TxnRecord, Going
  <1>x. PICK x : x = [start |-> s, primary |-> p, value |-> t, fresh |-> TRUE]
    BY Zenon
  <1>3. o.m \in Machine /\ (o.m = q \/ Takes(q, o.m, k, x))
    BY <1>k, <1>s, <1>x, <1>1, <1>2, PrewriteAsked, Zenon
  <1>4. CASE o.m = q
    BY <1>k, <1>1, <1>4, KeepEffect, Zenon
  <1>5. CASE Takes(q, o.m, k, x)
    <2>1. q.lock \in [Key -> SUBSET Lock]
      BY <1>2, Zenon DEF Machine
    <2>2. /\ \A j \in Key : j # k => /\ o.m.row[j] = q.row[j] /\ o.m.wrote[j] = q.wrote[j]
                                     /\ o.m.lock[j] = q.lock[j]
          /\ o.m.lock[k] = {x} /\ o.m.row[k] = q.row[k] /\ o.m.wrote[k] = q.wrote[k]
      BY <1>k, <1>5, <2>1, Zenon DEF Takes
    <2>3. db' \in [Shard -> Machine] /\ At(k)' = o.m /\ \A j \in Key : j # k => Unmoved(j)
      BY <1>k, <1>1, <1>3, <2>2, DbStep, ZenonT(40)
    <2>4. x \in Lock /\ x.value = t /\ x.start = s /\ x.primary = p
      BY <1>k, <1>s, <1>x, Zenon DEF Lock, Txn
    <2>5. Mark(k, x)
      BY <1>s, <2>4, Zenon DEF Mark, Begun
    <2>6. Took(k)
      BY <1>1, <1>s, <1>5, <2>2, <2>3, <2>4, <2>5, ZenonT(40) DEF Took, Takes, Rows, Records, Locks
    <2> QED
      BY <1>k, <2>3, <2>6, EffectAt, Zenon DEF Columns
  <1> QED
    BY <1>3, <1>4, <1>5, Zenon

\* A delete outside any transaction.
LEMMA DeleteEffect ==
    ASSUME PlanAssumption, Shape, Columns, Deleter # {}, NEW k \in Key, NEW t \in Nat,
           NEW o \in Outcomes(At(k), ApplyDelete(At(k), k, t),
                              ApplyDelete(ApplyDelete(At(k), k, t).m, k, t)),
           db' = [db EXCEPT ![ShardOf[k]] = o.m]
    PROVE  db' \in [Shard -> Machine] /\ Effect
  <1>1. PICK q : q = At(k)
    OBVIOUS
  <1>2. q \in Machine
    BY <1>1, ColumnTypes, Zenon
  <1>3. o.m \in Machine /\ Wipes(q, o.m, k)
    BY <1>1, <1>2, DeleteAsked, ZenonT(40)
  <1>4. \A j \in Key : j # k => /\ o.m.row[j] = q.row[j] /\ o.m.wrote[j] = q.wrote[j]
                                /\ o.m.lock[j] = q.lock[j]
    BY <1>3 DEF Wipes
  <1>5. db' \in [Shard -> Machine] /\ At(k)' = o.m /\ \A j \in Key : j # k => Unmoved(j)
    BY <1>1, <1>3, <1>4, DbStep, Zenon
  <1>6. Fewer(k)
    BY <1>1, <1>3, <1>5, ZenonT(40) DEF Wipes, Fewer, Rows, Records, Locks, Columns, OneLockEach
  <1> QED
    BY <1>5, <1>6, EffectAt, Zenon DEF Columns

\* A lock's TTL passes.
LEMMA ExpireEffect ==
    ASSUME PlanAssumption, Shape, Columns, NEW k \in Key,
           db' = [db EXCEPT ![ShardOf[k]] = Aged(@, k)]
    PROVE  db' \in [Shard -> Machine] /\ Effect
  <1>1. PICK q : q = At(k)
    OBVIOUS
  <1>2. q \in Machine /\ ShardOf[k] \in Shard
    BY <1>1, ColumnTypes
  <1>3. PICK S : S = {[x EXCEPT !.fresh = FALSE] : x \in q.lock[k]}
    BY Zenon
  <1>4. PICK lock : lock = [q.lock EXCEPT ![k] = S]
    BY Zenon
  <1>5. q = [row |-> q.row, wrote |-> q.wrote, lock |-> q.lock, last |-> q.last]
    BY <1>2 DEF Machine
  <1>6. PICK n : n = Aged(q, k)
    OBVIOUS
  <1>7. n = [row |-> q.row, wrote |-> q.wrote, lock |-> lock, last |-> q.last]
    BY <1>3, <1>4, <1>5, <1>6, ZenonT(40) DEF Aged
  <1>8. q.lock[k] \subseteq Lock /\ \A x, y \in q.lock[k] : x = y
    BY <1>1, <1>2 DEF Machine, Columns, OneLockEach, Locks
  <1>9. \A y \in S : y \in Lock /\ \E x \in q.lock[k] :
            y.start = x.start /\ y.primary = x.primary /\ y.value = x.value
    BY <1>3, <1>8, ZenonT(40) DEF Lock
  <1>10. \A y, z \in S : y = z
    BY <1>3, <1>8, Zenon
  <1>11. lock \in [Key -> SUBSET Lock] /\ lock[k] = S /\ \A j \in Key : j # k => lock[j] = q.lock[j]
    BY <1>2, <1>4, <1>9 DEF Machine
  <1>12. n \in Machine
    BY <1>2, <1>7, <1>11 DEF Machine
  <1>13. db' = [db EXCEPT ![ShardOf[k]] = n]
    BY <1>1, <1>6 DEF At
  <1>14. db' \in [Shard -> Machine] /\ At(k)' = n /\ \A j \in Key : j # k => Unmoved(j)
    <2>1. n.row = q.row /\ n.wrote = q.wrote /\ n.lock = lock
      BY <1>7
    <2>2. \A j \in Key : j # k => /\ n.row[j] = At(k).row[j] /\ n.wrote[j] = At(k).wrote[j]
                                  /\ n.lock[j] = At(k).lock[j]
      BY <1>1, <1>11, <2>1
    <2> QED
      BY <1>12, <1>13, <2>2, DbStep, ZenonT(40)
  <1>15. Fewer(k)
    <2>1. Rows(k)' = Rows(k) /\ Records(k)' = Records(k)
      BY <1>1, <1>7, <1>14 DEF Rows, Records
    <2>2. Locks(k)' = S /\ Locks(k) = q.lock[k]
      <3>1. n.lock = lock
        BY <1>7
      <3> QED
        BY <1>1, <1>11, <1>14, <3>1, Zenon DEF Locks
    <2> QED
      BY <1>9, <1>10, <2>1, <2>2, ZenonT(40) DEF Fewer
  <1> QED
    BY <1>14, <1>15, EffectAt DEF Columns

-----------------------------------------------------------------------------
(* The clock: a timestamp that is given is spent, and was not before.        *)

\* A timestamp taken from the run or, when that is used up, from a new one (get_timestamp,
\* _fetch_batch) is one nobody has had, and later than its coordinator's earlier ones.
LEMMA StampIsNew ==
    ASSUME PlanAssumption, Shape, Runs, NEW c \in Coordinator, TakeStamp(c),
           NEW s, s = Stamp(c)
    PROVE  /\ clock' \in Nat /\ run' \in [Coordinator -> [next : Nat, end : Nat]] /\ s \in Nat
           /\ s >= 1 /\ Runs' /\ ~Spent(s) /\ Spent(s)' /\ s < run'[c].next
           /\ \A n \in Nat : Spent(n) => Spent(n)'
           /\ \A n \in Nat : n <= clock /\ n < run[c].next => n < s
           /\ \A d \in Coordinator : \A n \in Nat :
                 n <= clock /\ n < run[d].next => n < run'[d].next
  <1>1. clock \in Nat /\ \A d \in Coordinator : run[d].next \in Nat /\ run[d].end \in Nat
    BY DEF Shape
  <1>b. BatchSize \in Nat /\ BatchSize # 0
    BY Zenon DEF PlanAssumption
  <1>2. CASE run[c].next < run[c].end
    <2>1. s = run[c].next /\ clock' = clock
      BY <1>1, <1>2 DEF TakeStamp, Stamp
    <2>2. /\ run' \in [Coordinator -> [next : Nat, end : Nat]]
          /\ run'[c].next = s + 1 /\ run'[c].end = run[c].end
          /\ \A d \in Coordinator : d # c => run'[d] = run[d]
      <3>1. PICK q \in [next : Nat, end : Nat] : q = run[c]
        BY DEF Shape
      <3>2. PICK r : r = [q EXCEPT !.next = q.next + 1]
        BY Zenon
      <3>3. r \in [next : Nat, end : Nat] /\ r.next = s + 1 /\ r.end = run[c].end
        BY <2>1, <3>1, <3>2
      <3>4. run' = [run EXCEPT ![c].next = @ + 1]
        BY <1>1, <1>2 DEF TakeStamp
      <3>5. run' = [run EXCEPT ![c] = r]
        BY <3>1, <3>2, <3>4
      <3> QED
        BY <3>3, <3>5 DEF Shape
    <2>3. s \in Nat /\ s >= 1 /\ InRun(c, s) /\ run[c].end <= clock + 1
      BY <1>1, <1>2, <2>1 DEF Runs, InRun
    <2>4. \A d \in Coordinator : \A n \in Nat : InRun(d, n)' => InRun(d, n) /\ n # s
      <3> SUFFICES ASSUME NEW d \in Coordinator, NEW n \in Nat, InRun(d, n)'
                   PROVE  InRun(d, n) /\ n # s
        OBVIOUS
      <3>1. CASE d = c
        BY <1>1, <2>1, <2>2, <3>1 DEF InRun
      <3>2. CASE d # c
        <4>1. InRun(d, n)
          BY <2>2, <3>2 DEF InRun
        <4> QED
          BY <2>3, <3>2, <4>1 DEF Runs
      <3> QED
        BY <3>1, <3>2
    <2>5. Runs'
      <3>1. \A d \in Coordinator : run'[d].next >= 1 /\ run'[d].end <= clock' + 1
        BY <1>1, <2>1, <2>2, <2>3 DEF Runs
      <3> QED
        BY <2>4, <3>1 DEF Runs
    <2>6. ~Spent(s) /\ Spent(s)' /\ \A n \in Nat : Spent(n) => Spent(n)'
      <3>1. s <= clock
        BY <1>1, <1>2, <2>1, <2>3
      <3> QED
        BY <2>1, <2>3, <2>4, <3>1 DEF Spent
    <2>7. \A d \in Coordinator : \A n \in Nat : n < run[d].next => n < run'[d].next
      BY <1>1, <2>1, <2>2
    <2>8. clock' \in Nat /\ s < run'[c].next /\ \A n \in Nat : n < run[c].next => n < s
      BY <1>1, <2>1, <2>2, <2>3
    <2> QED
      BY <2>2, <2>3, <2>5, <2>6, <2>7, <2>8, Zenon
  <1>3. CASE ~(run[c].next < run[c].end)
    <2>1. s = clock + 1 /\ clock' = clock + BatchSize
      BY <1>1, <1>3 DEF TakeStamp, Stamp
    <2>2. /\ run' \in [Coordinator -> [next : Nat, end : Nat]]
          /\ run'[c].next = clock + 2 /\ run'[c].end = clock + BatchSize + 1
          /\ \A d \in Coordinator : d # c => run'[d] = run[d]
      <3>1. PICK r : r = [next |-> clock + 2, end |-> clock + BatchSize + 1]
        BY Zenon
      <3>2. r \in [next : Nat, end : Nat] /\ r.next = clock + 2 /\ r.end = clock + BatchSize + 1
        BY <1>1, <1>b, <3>1
      <3>3. run' = [run EXCEPT ![c] = r]
        BY <1>1, <1>3, <3>1 DEF TakeStamp
      <3> QED
        BY <3>2, <3>3 DEF Shape
    <2>3. \A d \in Coordinator : run[d].end <= clock + 1 /\ run[d].next >= 1
      BY DEF Runs
    <2>4. ASSUME NEW d \in Coordinator, NEW n \in Nat, InRun(d, n)'
          PROVE  n # s /\ (IF d = c THEN n > clock ELSE InRun(d, n) /\ n <= clock)
      <3>1. CASE d = c
        BY <1>1, <2>1, <2>2, <2>4, <3>1 DEF InRun
      <3>2. CASE d # c
        BY <1>1, <2>1, <2>2, <2>3, <2>4, <3>2 DEF InRun
      <3> QED
        BY <3>1, <3>2
    <2>5. Runs'
      <3>1. \A d \in Coordinator : run'[d].next >= 1 /\ run'[d].end <= clock' + 1
        BY <1>1, <1>b, <2>1, <2>2, <2>3
      <3>2. ASSUME NEW d \in Coordinator, NEW e \in Coordinator, NEW n \in Nat,
                   InRun(d, n)', InRun(e, n)'
            PROVE  d = e
        BY <1>1, <2>4, <3>2 DEF Runs
      <3> QED
        BY <3>1, <3>2 DEF Runs
    <2>6. ~Spent(s) /\ Spent(s)' /\ \A n \in Nat : Spent(n) => Spent(n)'
      <3>1. s \in Nat /\ ~(s <= clock) /\ s <= clock'
        BY <1>1, <1>b, <2>1
      <3>2. ASSUME NEW n \in Nat, Spent(n) PROVE Spent(n)'
        BY <1>1, <1>b, <2>1, <2>4, <3>2 DEF Spent
      <3> QED
        BY <2>4, <3>1, <3>2 DEF Spent
    <2>7. \A d \in Coordinator : \A n \in Nat :
              n <= clock /\ n < run[d].next => n < run'[d].next
      BY <1>1, <2>2
    <2> QED
      BY <1>1, <1>b, <2>1, <2>2, <2>5, <2>6, <2>7
  <1> QED
    BY <1>2, <1>3, Zenon

\* A transaction takes a new timestamp, or nobody does.
LEMMA StampsNew ==
    ASSUME PlanAssumption, Shape, Stamps, NEW c \in Coordinator, TakeStamp(c),
           NEW s, s = Stamp(c), NEW t,
           \A u \in Txn : txn'[u].start \in Nat /\ txn'[u].commit \in Nat,
           \A u \in Txn : u # t => StampsOf(u)' = StampsOf(u) /\ txn'[u].start = txn[u].start,
           t \in Txn => /\ StampsOf(t)' \subseteq StampsOf(t) \cup {s}
                        /\ txn'[t].start = txn[t].start \/ (Home[t] = c /\ txn'[t].start = s)
    PROVE  Stamps'
  <1>1. /\ s \in Nat /\ Runs' /\ ~Spent(s) /\ Spent(s)' /\ s < run'[c].next
        /\ \A n \in Nat : Spent(n) => Spent(n)'
        /\ \A d \in Coordinator : \A n \in Nat :
              n <= clock /\ n < run[d].next => n < run'[d].next
    BY StampIsNew, Zenon DEF Stamps
  <1>2. \A u \in Txn : \A n \in StampsOf(u) : n \in Nat /\ Spent(n) /\ n # s
    BY <1>1, TxnTypes, Zenon DEF Stamps
  <1>3. \A u \in Txn : \A n \in StampsOf(u)' : Spent(n)' /\ (n \in StampsOf(u) \/ (n = s /\ u = t))
    BY <1>1, <1>2, Zenon
  <1>4. \A u, v \in Txn : \A n \in StampsOf(u)' : n \in StampsOf(v)' => u = v
    <2> SUFFICES ASSUME NEW u \in Txn, NEW v \in Txn, NEW n \in StampsOf(u)',
                        n \in StampsOf(v)'
                 PROVE  u = v
      OBVIOUS
    <2>1. n \in StampsOf(u) \/ (n = s /\ u = t)
      BY <1>3, Zenon
    <2>2. n \in StampsOf(v) \/ (n = s /\ v = t)
      BY <1>3, Zenon
    <2> QED
      BY <1>2, <2>1, <2>2, ZenonT(40) DEF Stamps
  <1>5. ASSUME NEW u \in Txn PROVE txn'[u].start < run'[Home[u]].next
    <2>1. Home[u] \in Coordinator /\ clock \in Nat
      BY ZenonT(40) DEF PlanAssumption, Shape
    <2>2. txn[u].start \in Nat /\ txn[u].start <= clock /\ txn[u].start < run[Home[u]].next
      <3>1. txn[u].start \in Nat /\ (txn[u].start = 0 \/ txn[u].start \in StampsOf(u))
        BY TxnTypes, Zenon
      <3>2. txn[u].start = 0 \/ txn[u].start <= clock
        BY <3>1, Zenon DEF Stamps, Spent
      <3>3. txn[u].start < run[Home[u]].next
        BY Zenon DEF Stamps
      <3> QED
        BY <2>1, <3>1, <3>2, <3>3
    <2> QED
      BY <1>1, <2>1, <2>2, Zenon
  <1> QED
    BY <1>1, <1>3, <1>4, <1>5, Zenon DEF Stamps

\* Timestamps stay apart when nobody takes one.
LEMMA StampsSame ==
    ASSUME Stamps, UNCHANGED <<run, clock>>,
           \A u \in Txn : StampsOf(u)' \subseteq StampsOf(u) /\ txn'[u].start = txn[u].start
    PROVE  Stamps'
  <1>1. Runs' /\ \A n : Spent(n)' <=> Spent(n)
    BY DEF Stamps, Runs, Spent, InRun
  <1> QED
    BY <1>1, ZenonT(40) DEF Stamps

-----------------------------------------------------------------------------
(* What a step has to show to keep the invariant.                            *)

\* What the client has been told does not change,
Silent(u) ==
    \/ txn'[u].status = txn[u].status
    \/ txn[u].status = "pending" /\ txn'[u].status = "prewritten"

\* or the transaction ends here.
Verdict(u) ==
    /\ txn[u].pc = "secondary" => txn'[u].pc \in {"secondary", "dead"}
    /\ txn[u].pc \in {"dead", "done"} => txn'[u].pc = txn[u].pc
    /\ \/ Silent(u)
       \/ /\ UNCHANGED db /\ txn'[u].status = "aborted" /\ txn'[u].pc = "done"
          /\ txn[u].pc \in {"reading", "prewriting", "undo"}
       \/ /\ UNCHANGED db /\ txn'[u].status = "committed" /\ txn'[u].pc = "done"
          /\ txn[u].pc = "reading" /\ WritesOf[u] = << >>
       \/ /\ txn'[u].status = "committed" /\ txn'[u].pc = "secondary"
          /\ txn[u].pc = "stamped"

\* A commit timestamp is a new one, unless nothing is written.
Dated(u) ==
    \/ txn'[u].commit = txn[u].commit
    \/ WritesOf[u] = << >>
    \/ \E c \in Coordinator : TakeStamp(c) /\ txn'[u].commit = Stamp(c)

\* u reads k in this step, as it was at its start timestamp.
Freshly(u, k) ==
    /\ UNCHANGED db /\ txn[u].start # 0 /\ txn'[u].start = txn[u].start
    /\ ReadOf(txn'[u].saw[k], k)
    /\ \A x \in Locks(k) : ~(x.start < txn[u].start)
    /\ txn'[u].saw[k] = ValueAt(At(k), k, txn[u].start).value

\* What u has read it keeps, and the rest it reads in this step.
Sees(u) ==
    \A k \in DOMAIN txn'[u].saw :
        (k \in DOMAIN txn[u].saw /\ txn'[u].saw[k] = txn[u].saw[k]) \/ Freshly(u, k)

\* What every step does.
Step ==
    /\ Effect /\ \A u \in Txn : Stable(u) /\ Verdict(u) /\ Dated(u) /\ Sees(u)
    /\ \A u, v \in Txn : u = v \/ Silent(u) \/ Silent(v)
    /\ UNCHANGED <<run, clock>> \/ \E c \in Coordinator : TakeStamp(c)

\* A step of one transaction, or of none.
LEMMA StepOfOne ==
    ASSUME NEW t, \A u \in Txn : u # t => txn'[u] = txn[u],
           t \in Txn => Stable(t) /\ Verdict(t) /\ Dated(t) /\ Sees(t), Effect,
           UNCHANGED <<run, clock>> \/ \E c \in Coordinator : TakeStamp(c)
    PROVE  Step
  <1>1. ASSUME NEW u \in Txn, u # t
        PROVE  Stable(u) /\ Verdict(u) /\ Dated(u) /\ Sees(u) /\ Silent(u)
    BY <1>1, Zenon DEF Stable, Verdict, Dated, Sees, Silent, Begun
  <1> QED
    BY <1>1, Zenon DEF Step

\* What has been read stays written.
LEMMA ReadStays ==
    ASSUME PlanAssumption, Shape, Stamps, Columns, Effect, NEW k \in Key,
           NEW v \in Value \cup {Nothing}, ReadOf(v, k), \A t \in Txn : Stable(t)
    PROVE  ReadOf(v, k)'
  BY RecordStays DEF ReadOf, Txn

\* What a resolver knows stays true.
LEMMA AskedStays ==
    ASSUME PlanAssumption, Shape, Stamps, Columns, Effect, \A t \in Txn : Stable(t),
           NEW p \in Asker, Asked(p), res'[p] = res[p] \/ res'[p].pc = "idle"
    PROVE  Asked(p)'
  <1>1. CASE res'[p].pc = "idle"
    BY <1>1, Zenon DEF Asked
  <1>2. CASE res'[p] = res[p] /\ res[p].pc \in {"record", "lock", "stamp", "forward", "back"}
    <2>1. PICK t \in Txn :
             /\ txn[t].start # 0 /\ res[p].start = txn[t].start
             /\ res[p].primary = Primary(t) /\ res[p].key \in Written(t)
             /\ res[p].pc = "forward" => HasDecided(t) /\ res[p].commit = txn[t].commit
      BY <1>2, Zenon DEF Asked
    <2>2. txn'[t].start = txn[t].start
      BY <2>1, Zenon DEF Stable
    <2>3. res[p].pc = "forward" => HasDecided(t)' /\ res[p].commit = txn'[t].commit
      <3> SUFFICES ASSUME res[p].pc = "forward"
                   PROVE  HasDecided(t)' /\ res[p].commit = txn'[t].commit
        BY ZenonT(40)
      <3>1. HasDecided(t)' /\ RecordBy(t)' = RecordBy(t)
        BY <2>1, WriterHasPrimary, DecidedGrows
      <3> QED
        BY <2>1, <3>1, Zenon DEF RecordBy
    <2> QED
      BY <1>2, <2>1, <2>2, <2>3, Zenon DEF Asked
  <1>3. CASE res'[p] = res[p] /\ res[p].pc \notin {"record", "lock", "stamp", "forward", "back"}
    BY <1>3, Zenon DEF Asked
  <1> QED
    BY <1>1, <1>2, <1>3

\* A step with these parts keeps the invariant; each action below has to show them.
LEMMA Whole ==
    ASSUME PlanAssumption, TxInv, Shape', Stamps', Step, LagStep, Goings',
           \A u \in Txn : txn'[u].pc = "secondary" => txn[u].pc = "secondary" \/ HasDecided(u)',
           \A p \in Asker : res'[p] = res[p] \/ res'[p].pc = "idle" \/ Asked(p)',
           \A g \in Getter : get'[g].value = get[g].value \/ ReadOf(get'[g].value, KeyOf[g])
    PROVE  TxInv' /\ Step
  <1>0. Shape /\ Stamps /\ Columns
    BY Zenon DEF TxInv
  <1>e. Effect /\ \A u \in Txn : Stable(u)
    BY Zenon DEF Step
  <1>1. Columns'
    BY <1>0, <1>e, ColumnsStay, Zenon
  <1>2. \A p \in Asker : Asked(p)'
    BY <1>0, <1>e, AskedStays, Zenon DEF TxInv
  <1>3. SecondariesWait'
    <2> SUFFICES ASSUME NEW u \in Txn, txn[u].pc = "secondary" PROVE HasDecided(u)'
      BY Zenon DEF SecondariesWait
    <2>1. HasDecided(u) /\ WritesOf[u] # << >>
      BY Zenon DEF TxInv, SecondariesWait, Goings, Going
    <2> QED
      BY <1>0, <1>e, <2>1, DecidedGrows, Zenon
  <1>4. Reads'
    <2>1. ASSUME NEW u \in Txn, NEW k \in DOMAIN txn'[u].saw
          PROVE  ReadOf(txn[u].saw[k], k)'
      <3>1. ReadOf(txn'[u].saw[k], k)
        BY <2>1, Zenon DEF TxInv, Reads, Step, Sees, Freshly
      <3>2. txn'[u].saw \in Seeing
        BY Zenon DEF Shape, TxnRecord
      <3>3. PICK v : v = txn'[u].saw[k]
        BY Zenon
      <3>4. k \in Key /\ v \in Value \cup {Nothing}
        BY <3>2, <3>3, ZenonT(40) DEF Seeing
      <3>5. ReadOf(v, k)'
        BY <1>0, <1>e, <3>1, <3>3, <3>4, ReadStays, Zenon
      <3> QED
        BY <3>3, <3>5, Zenon DEF ReadOf
    <2>2. ASSUME NEW g \in Getter PROVE ReadOf(get[g].value, KeyOf[g])'
      <3>1. ReadOf(get'[g].value, KeyOf[g])
        BY Zenon DEF TxInv, Reads
      <3>2. PICK v : v = get'[g].value
        BY Zenon
      <3>3. KeyOf[g] \in Key /\ v \in Value \cup {Nothing}
        BY <3>2, Zenon DEF PlanAssumption, Shape, Found
      <3>4. ReadOf(v, KeyOf[g])'
        BY <1>0, <1>e, <3>1, <3>2, <3>3, ReadStays, Zenon
      <3> QED
        BY <3>2, <3>4, Zenon DEF ReadOf
    <2> QED
      BY <2>1, <2>2, Zenon DEF Reads
  <1> QED
    BY <1>1, <1>2, <1>3, <1>4, Zenon DEF TxInv

\* A step of a transaction that takes no timestamp and reads nothing.
Quiet(u) ==
    /\ Going(u, txn'[u]) /\ Verdict(u)
    /\ txn'[u].start = txn[u].start /\ txn'[u].commit = txn[u].commit
    /\ txn'[u].saw = txn[u].saw /\ (Begun(u) => Begun(u)')
    /\ txn'[u].pc = "secondary" => txn[u].pc = "secondary" \/ HasDecided(u)'

\* Nobody takes a timestamp or reads, and at most one client is told something.
AllQuiet ==
    (\A u \in Txn : Quiet(u)) /\ \A u, v \in Txn : u = v \/ Silent(u) \/ Silent(v)

\* The same for a step at which all transactions are quiet.
LEMMA QuietInv ==
    ASSUME PlanAssumption, TxInv, db' \in [Shard -> Machine], Effect,
           UNCHANGED <<lag, clock, run>>, get' \in [Getter -> Found],
           \A g \in Getter : get'[g].value = get[g].value \/ ReadOf(get'[g].value, KeyOf[g]),
           del' \in [Deleter -> [pc : {"new", "stamped", "done"}, at : Nat]],
           txn' \in [Txn -> TxnRecord], AllQuiet, res' \in [Asker -> Errand],
           \A p \in Asker : res'[p] = res[p] \/ res'[p].pc = "idle" \/ Asked(p)'
    PROVE  TxInv' /\ Step
  <1>1. Shape'
    BY DEF TxInv, Shape
  <1>2. \A u \in Txn : StampsOf(u)' = StampsOf(u) /\ txn'[u].start = txn[u].start /\ Stable(u)
    BY Zenon DEF StampsOf, Stable, Quiet, AllQuiet
  <1>3. Stamps'
    BY <1>2, StampsSame, Zenon DEF TxInv
  <1>4. LagStep
    BY Zenon DEF LagStep, Behind
  <1>5. Goings'
    BY Zenon DEF Goings, Quiet, AllQuiet
  <1>6. \A u \in Txn : txn'[u].pc = "secondary" => txn[u].pc = "secondary" \/ HasDecided(u)'
    BY Zenon DEF Quiet, AllQuiet
  <1>7. \A u \in Txn : Verdict(u) /\ Dated(u) /\ Sees(u)
    BY Zenon DEF AllQuiet, Quiet, Dated, Sees
  <1>8. Step
    BY <1>2, <1>7, Zenon DEF Step, AllQuiet
  <1> QED
    BY <1>1, <1>3, <1>4, <1>5, <1>6, <1>8, Whole, ZenonT(40)

\* Transactions that do not move are quiet.
LEMMA StillTxnsAreQuiet ==
    ASSUME TxInv, UNCHANGED txn PROVE txn' \in [Txn -> TxnRecord] /\ AllQuiet
  BY Zenon DEF TxInv, Shape, Goings, AllQuiet, Quiet, Begun, Verdict, Silent

\* All transactions are quiet when the one that moves is.
LEMMA TurnIsQuiet ==
    ASSUME TxInv, NEW t \in Txn, \A u \in Txn : u # t => txn'[u] = txn[u], Quiet(t)
    PROVE  AllQuiet
  <1>1. ASSUME NEW u \in Txn, u # t PROVE Quiet(u) /\ Silent(u)
    BY <1>1, Zenon DEF TxInv, Goings, Quiet, Begun, Verdict, Silent
  <1> QED
    BY <1>1 DEF AllQuiet

\* The record r of t ends or changes quietly: no timestamp, no read and no commit point.
Verdicts(t, r) ==
    /\ r.start = txn[t].start /\ r.commit = txn[t].commit /\ r.saw = txn[t].saw
    /\ (r.pc \in {"new", "reading"} => ~Begun(t)) /\ (r.pc = "secondary" => txn[t].pc = "secondary")
    /\ txn[t].pc = "secondary" => r.pc \in {"secondary", "dead"}
    /\ txn[t].pc \in {"dead", "done"} => r.pc = txn[t].pc
    /\ \/ r.status = txn[t].status
       \/ txn[t].status = "pending" /\ r.status = "prewritten"
       \/ /\ r.status = "aborted" /\ r.pc = "done" /\ UNCHANGED db
          /\ txn[t].pc \in {"reading", "prewriting", "undo"}

\* A transaction's record is replaced.
LEMMA Turn ==
    ASSUME txn \in [Txn -> TxnRecord], NEW t \in Txn, NEW r \in TxnRecord,
           txn' = [txn EXCEPT ![t] = r]
    PROVE  /\ txn' \in [Txn -> TxnRecord] /\ txn'[t] = r
           /\ \A u \in Txn : u # t => txn'[u] = txn[u]
  OBVIOUS

\* A record that is replaced by a quiet one (status and _pending_writes of a transaction).
LEMMA QuietTurn ==
    ASSUME txn \in [Txn -> TxnRecord], NEW t \in Txn, NEW r \in TxnRecord,
           txn' = [txn EXCEPT ![t] = r], Going(t, r), Verdicts(t, r)
    PROVE  /\ txn' \in [Txn -> TxnRecord] /\ \A u \in Txn : u # t => txn'[u] = txn[u]
           /\ Quiet(t)
  <1>1. txn' \in [Txn -> TxnRecord] /\ txn'[t] = r /\ \A u \in Txn : u # t => txn'[u] = txn[u]
    BY Turn
  <1> QED
    BY <1>1, Zenon DEF Quiet, Verdicts, Verdict, Silent, Begun

\* Whoever settles no lock has an errand of the right shape.
LEMMA CalmIsErrand == Calm \in Errand /\ Calm.pc = "idle"
  <1>1. PICK k : k = CHOOSE j \in Key : TRUE
    OBVIOUS
  <1>2. PICK r : r = [pc |-> "idle", key |-> k, start |-> 0, primary |-> k, commit |-> 0]
    BY Zenon
  <1>3. Calm = r
    BY <1>1, <1>2, Zenon DEF Calm
  <1>4. r.pc = "idle" /\ r.key = k
    BY <1>2
  <1>5. k \in Place
    BY <1>3, <1>4, Zenon DEF Place
  <1> QED
    BY <1>2, <1>3, <1>4, <1>5 DEF Errand

\* At first there are no columns, no timestamps and nobody is under way.
LEMMA InitInv == ASSUME PlanAssumption, Init PROVE TxInv
  <1>1. Empty \in Machine
    BY Zenon DEF Empty, Machine
  <1>2. /\ db \in [Shard -> Machine] /\ lag \in [Shard -> Machine]
        /\ \A k \in Key : At(k) = Empty /\ Behind(k) = Empty
    BY <1>1, Zenon DEF Init, PlanAssumption, At, Behind
  <1>3. txn \in [Txn -> TxnRecord]
    <2>1. << >> \in Seeing /\ DOMAIN << >> = {}
      <3>1. << >> \in [{} -> Value \cup {Nothing}] /\ DOMAIN << >> = {}
        OBVIOUS
      <3> QED
        BY <3>1 DEF Seeing
    <2> QED
      BY <2>1, Zenon DEF Init, TxnRecord
  <1>4. Shape
    BY <1>2, <1>3, CalmIsErrand, Zenon DEF Init, Shape, Found
  <1>5. Stamps
    <2>1. /\ \A t \in Txn : txn[t].start = 0 /\ txn[t].commit = 0
          /\ \A c \in Coordinator : run[c].next = 1 /\ run[c].end = 1
      BY DEF Init
    <2>2. \A t \in Txn : StampsOf(t) = {} /\ Home[t] \in Coordinator
      BY <2>1, ZenonT(40) DEF StampsOf, PlanAssumption
    <2>3. Runs /\ \A c \in Coordinator : 0 < run[c].next
      BY <2>1 DEF Runs, InRun, Init
    <2> QED
      BY <2>1, <2>2, <2>3, ZenonT(40) DEF Stamps
  <1>6. \A k \in Key : /\ Rows(k) = {} /\ Records(k) = {} /\ Locks(k) = {}
                       /\ Behind(k).lock[k] = {} /\ Behind(k).wrote[k] = {}
    <2>1. \A k \in Key : Empty.row[k] = {} /\ Empty.wrote[k] = {} /\ Empty.lock[k] = {}
      BY DEF Empty
    <2> QED
      BY <1>2, <2>1, Zenon DEF Rows, Records, Locks
  <1>7. Columns
    BY <1>6, Zenon DEF Columns, Marks, OneLockEach, LocksAreLate, Peaks, RecordsAreDecided,
                RecordsApart, VersionsAreRecorded, BehindIsBehind
  <1>8. \A p \in Asker : Asked(p)
    BY CalmIsErrand, Zenon DEF Init, Asked
  <1>9. Goings /\ SecondariesWait
    <2>1. \A t \in Txn : /\ txn[t].pc = "new" /\ txn[t].status = "pending" /\ txn[t].start = 0
                          /\ txn[t].commit = 0 /\ DOMAIN txn[t].saw = {}
      BY DEF Init
    <2>2. ASSUME NEW t \in Txn PROVE Going(t, txn[t]) /\ txn[t].pc # "secondary"
      BY <2>1 DEF Going
    <2> QED
      BY <2>2, ZenonT(40) DEF Goings, SecondariesWait
  <1>10. Reads
    <2>1. \A t \in Txn : DOMAIN txn[t].saw = {}
      BY DEF Init
    <2>2. \A g \in Getter : get[g].value = Nothing
      BY DEF Init
    <2> QED
      BY <2>1, <2>2, ZenonT(40) DEF Reads, ReadOf
  <1> QED
    BY <1>4, <1>5, <1>7, <1>8, <1>9, <1>10 DEF TxInv

\* A step of nobody.
LEMMA StutterInv == ASSUME PlanAssumption, TxInv, UNCHANGED vars PROVE TxInv' /\ Step
  <1>1. UNCHANGED <<db, lag, clock, run, txn, res, get, del>> /\ Shape /\ Columns
    BY DEF vars, TxInv
  <1>2. db' \in [Shard -> Machine] /\ Effect
    BY <1>1, StillIsEffect DEF Shape, Columns
  <1>3. txn' \in [Txn -> TxnRecord] /\ AllQuiet
    BY <1>1, StillTxnsAreQuiet
  <1> QED
    BY <1>1, <1>2, <1>3, QuietInv DEF Shape

-----------------------------------------------------------------------------
(* What follows for any transactions, keys, shards, coordinators and clients.*)

\* The record of a transaction on a key, if there is one, is its only one, and it has
\* decided.
LEMMA RecordOfIs ==
    ASSUME PlanAssumption, TxInv, NEW t \in Txn, NEW k \in Key, NEW w \in RecordOf(t, k)
    PROVE  w = RecordBy(t) /\ k \in Written(t) /\ HasDecided(t)
  <1>1. w \in Records(k) /\ txn[t].start # 0 /\ w.start = txn[t].start
    BY DEF RecordOf, Records
  <1>2. PICK u \in Txn : w = RecordBy(u) /\ k \in Written(u) /\ HasDecided(u)
    BY <1>1, Zenon DEF TxInv, Columns, RecordsAreDecided
  <1>3. u = t
    BY <1>1, <1>2, StampsTell, Zenon DEF RecordBy, TxInv
  <1> QED
    BY <1>2, <1>3

\* What a record vouches for is the transaction's own record on that key.
LEMMA RecordByIs ==
    ASSUME PlanAssumption, TxInv, NEW t \in Txn, NEW k \in Key, RecordBy(t) \in Records(k)
    PROVE  RecordBy(t) \in RecordOf(t, k)
  <1>1. PICK u \in Txn : RecordBy(t) = RecordBy(u) /\ HasDecided(u)
    BY DEF TxInv, Columns, RecordsAreDecided
  <1> QED
    BY <1>1, Zenon DEF RecordBy, HasDecided, RecordOf, Records

\* To have decided is to have a record on the primary.
LEMMA DecidedIs ==
    ASSUME PlanAssumption, TxInv, NEW t \in Txn, WritesOf[t] # << >>
    PROVE  Decided(t) <=> HasDecided(t)
  <1>1. Primary(t) \in Key
    BY PrimaryIsKey
  <1>2. HasDecided(t) => RecordBy(t) \in Records(Primary(t))
    BY DEF HasDecided
  <1> QED
    BY <1>1, <1>2, RecordOfIs, RecordByIs, ZenonT(40) DEF Decided

-----------------------------------------------------------------------------
(* Repeatable reads, with timestamps taken in order and no deletes.          *)

\* Timestamps are taken in the order in which they are fetched: there is one client of the
\* oracle, or each fetches them one by one (TSOClient, batch_size).
InOrder == BatchSize = 1 \/ \A c, d \in Coordinator : c = d

\* Runs of one: every timestamp fetched has been used.
Solo == BatchSize = 1 => \A c \in Coordinator : run[c].next >= run[c].end

\* What u has read of k is what it would read again, and no lock on k will become a
\* version that is old enough for u.
SafeAt(u, k) ==
    /\ ValueAt(At(k), k, txn[u].start).value = txn[u].saw[k]
    /\ \A x \in Locks(k) : x.start < txn[u].start =>
          txn[x.value].commit = 0 \/ txn[u].start < txn[x.value].commit

\* So it is for all that has been read.
Safe == \A u \in Txn : \A k \in DOMAIN txn[u].saw : SafeAt(u, k)

\* With runs of one, no run is ever left with a timestamp to use.
LEMMA SoloStays ==
    ASSUME TxInv, Step, Solo PROVE Solo'
  <1> SUFFICES ASSUME BatchSize = 1 PROVE \A c \in Coordinator : run'[c].next >= run'[c].end
    BY DEF Solo
  <1>1. clock \in Nat /\ \A c \in Coordinator : run[c].next \in Nat /\ run[c].end \in Nat
    BY DEF TxInv, Shape
  <1>2. \A c \in Coordinator : run[c].next >= run[c].end
    BY DEF Solo
  <1>3. ASSUME NEW c \in Coordinator, TakeStamp(c)
        PROVE  \A d \in Coordinator : run'[d].next >= run'[d].end
    <2>1. run' = [run EXCEPT ![c] = [next |-> clock + 2, end |-> clock + BatchSize + 1]]
      <3>1. ~(run[c].next < run[c].end)
        BY <1>1, <1>2
      <3> QED
        BY <1>3, <3>1 DEF TakeStamp
    <2>2. PICK n \in Nat : n = clock + 2
      BY <1>1
    <2>3. run' = [run EXCEPT ![c] = [next |-> n, end |-> n]]
      BY <1>1, <2>1, <2>2
    <2>4. \A d \in Coordinator : run'[d] = run[d] \/ (run'[d].next = n /\ run'[d].end = n)
      BY <2>3 DEF TxInv, Shape
    <2> QED
      BY <1>2, <2>2, <2>4
  <1>4. UNCHANGED run => \A c \in Coordinator : run'[c].next >= run'[c].end
    BY <1>2
  <1> QED
    BY <1>3, <1>4, Zenon DEF Step

\* A timestamp taken now is later than every start timestamp there is (get_timestamp).
LEMMA StampsAreInOrder ==
    ASSUME PlanAssumption, InOrder, TxInv, Solo, NEW c \in Coordinator, NEW u \in Txn
    PROVE  txn[u].start < Stamp(c)
  <1>1. clock \in Nat /\ run[c].next \in Nat /\ run[c].end \in Nat
    BY DEF TxInv, Shape
  <1>2. txn[u].start \in Nat /\ (txn[u].start = 0 \/ txn[u].start \in StampsOf(u))
    BY TxnTypes, Zenon DEF TxInv
  <1>3. txn[u].start <= clock
    BY <1>1, <1>2 DEF TxInv, Stamps, Spent
  <1>4. CASE ~(run[c].next < run[c].end)
    BY <1>1, <1>2, <1>3, <1>4 DEF Stamp
  <1>5. CASE run[c].next < run[c].end
    <2>1. BatchSize # 1
      BY <1>1, <1>5 DEF Solo
    <2>2. Home[u] = c
      BY <2>1 DEF InOrder, PlanAssumption
    <2>3. txn[u].start < run[c].next
      BY <2>2 DEF TxInv, Stamps
    <2> QED
      BY <1>5, <2>3 DEF Stamp
  <1> QED
    BY <1>4, <1>5

\* A transaction that holds a lock commits, if at all, after the start of u.
LEMMA LaterStays ==
    ASSUME PlanAssumption, InOrder, TxInv, Step, Solo, NEW u \in Txn, NEW t \in Txn,
           WritesOf[t] # << >>, txn[t].commit = 0 \/ txn[u].start < txn[t].commit
    PROVE  txn'[t].commit = 0 \/ txn[u].start < txn'[t].commit
  BY StampsAreInOrder, Zenon DEF Step, Dated

\* What was read stays readable: a version that appears later is too new for the reader, since
\* its transaction took its commit timestamp after the reader began, or was seen to hold no lock.
LEMMA SafeStays ==
    ASSUME PlanAssumption, InOrder, Deleter = {}, TxInv, TxInv', Step, Solo, Safe
    PROVE  Safe'
  <1> SUFFICES ASSUME NEW u \in Txn, NEW k \in DOMAIN txn'[u].saw PROVE SafeAt(u, k)'
    BY Zenon DEF Safe
  <1>1. Shape /\ Columns /\ Effect /\ Sees(u) /\ Stable(u)
    BY DEF TxInv, Step
  <1>2. CASE Freshly(u, k)
    <2>1. /\ UNCHANGED db /\ txn'[u].start = txn[u].start
          /\ \A x \in Locks(k)' : ~(x.start < txn'[u].start)
      BY <1>2, Zenon DEF Freshly, Locks, At
    <2>2. ValueAt(At(k), k, txn[u].start)' = ValueAt(At(k), k, txn[u].start)
      BY <2>1, Zenon DEF At
    <2> QED
      BY <1>2, <2>1, <2>2, Zenon DEF SafeAt, Freshly
  <1>3. CASE k \in DOMAIN txn[u].saw /\ txn'[u].saw[k] = txn[u].saw[k]
    <2>1. txn[u].saw \in Seeing /\ txn[u].start \in Nat /\ Going(u, txn[u]) /\ SafeAt(u, k)
      BY <1>3, Zenon DEF TxInv, Shape, TxnRecord, Goings, Safe
    <2>2. k \in Key
      BY <1>3, <2>1, Zenon DEF Seeing
    <2>3. txn'[u].start = txn[u].start
      BY <1>1, <1>3, <2>1, Zenon DEF Going, Stable
    <2>4. PICK s : s = txn[u].start
      BY ZenonT(40)
    <2>s. s \in Nat
      BY <2>1, <2>4
    <2>5. ASSUME \A v : v.at <= s => (v \in Rows(k)' <=> v \in Rows(k)),
                 \A y \in Locks(k)' : y.start < s =>
                    txn'[y.value].commit = 0 \/ s < txn'[y.value].commit
          PROVE  SafeAt(u, k)'
      <3>1. ValueAt(At(k), k, s)' = ValueAt(At(k), k, s)
        <4>1. VersionAt(At(k), k, s)' = VersionAt(At(k), k, s)
          BY <2>5, Zenon DEF VersionAt, Rows
        <4> QED
          BY <4>1 DEF ValueAt
      <3> QED
        BY <1>3, <2>1, <2>3, <2>4, <2>5, <3>1, ZenonT(40) DEF SafeAt
    <2>6. ASSUME NEW x \in Lock, Mark(k, x)
          PROVE  x.value \in Txn /\ WritesOf[x.value] # << >>
      BY <2>6, WriterHasPrimary, Zenon DEF Lock, Txn, Mark
    <2>7. CASE Fewer(k)
      <3>1. ASSUME NEW y \in Locks(k)', y.start < s
            PROVE  txn'[y.value].commit = 0 \/ s < txn'[y.value].commit
        <4>1. PICK x \in Locks(k) : y.start = x.start /\ y.value = x.value
          BY <2>7, <3>1, Zenon DEF Fewer
        <4>2. x \in Lock /\ Mark(k, x)
          BY <1>1, <2>2, Zenon DEF Columns, Marks
        <4>3. txn[x.value].commit = 0 \/ s < txn[x.value].commit
          BY <2>1, <2>4, <3>1, <4>1, Zenon DEF SafeAt
        <4> QED
          BY <2>4, <2>6, <4>1, <4>2, <4>3, LaterStays, Zenon
      <3> QED
        BY <2>5, <2>7, <3>1, Zenon DEF Fewer
    <2>8. CASE Took(k)
      <3>1. PICK x \in Lock : /\ Locks(k)' = {x} /\ Rows(k)' = Rows(k) /\ Mark(k, x)
                              /\ txn[x.value].commit = 0
        BY <2>8, Zenon DEF Took
      <3>2. txn'[x.value].commit = 0 \/ s < txn'[x.value].commit
        BY <2>4, <2>6, <3>1, LaterStays, Zenon
      <3> QED
        BY <2>5, <3>1, <3>2, Zenon
    <2>9. ASSUME NEW t \in Txn, Put(k, t) PROVE SafeAt(u, k)'
      <3>1. PICK x \in Locks(k) : x.value = t
        BY <2>9, Zenon DEF Put
      <3>2. x \in Lock /\ Mark(k, x)
        BY <1>1, <2>2, Zenon DEF Columns, Marks
      <3>3. /\ x.start = txn[t].start /\ txn[t].start \in Nat /\ txn[t].commit \in Nat
            /\ txn[t].start < txn[t].commit
        BY <1>1, <2>9, <3>1, <3>2, TxnTypes, ZenonT(40) DEF Mark, Put
      <3>4. s < txn[t].commit
        <4>1. x.start < s => txn[t].commit = 0 \/ s < txn[t].commit
          BY <2>1, <2>4, <3>1, Zenon DEF SafeAt
        <4> QED
          BY <2>s, <3>3, <4>1
      <3>5. ASSUME NEW v, v.at <= s PROVE v \in Rows(k)' <=> v \in Rows(k)
        <4>1. v.at # txn[t].commit \/ v \notin Rows(k)
          <5>1. v \in Rows(k) => v.at \in Nat
            <6>1. Rows(k) \subseteq Version
              BY <1>1, <2>2, ColumnTypes, ZenonT(40)
            <6> QED
              BY <6>1 DEF Version
          <5> QED
            BY <2>s, <3>3, <3>4, <3>5, <5>1
        <4>2. v # [at |-> txn[t].commit, value |-> t]
          <5> SUFFICES ASSUME v = [at |-> txn[t].commit, value |-> t] PROVE FALSE
            OBVIOUS
          <5>1. v.at = txn[t].commit
            OBVIOUS
          <5> QED
            BY <2>s, <3>3, <3>4, <3>5, <5>1
        <4> QED
          BY <2>9, <4>1, <4>2, ZenonT(40) DEF Put
      <3>6. Locks(k)' = {}
        BY <2>9, Zenon DEF Put
      <3> QED
        BY <2>5, <3>5, <3>6, Zenon
    <2> QED
      BY <1>1, <2>2, <2>7, <2>8, <2>9 DEF Effect
  <1> QED
    BY <1>1, <1>2, <1>3, Zenon DEF Sees

-----------------------------------------------------------------------------
(* One decision, when every proposal is answered and made once.              *)

\* What the client has been told is what the primary says, and nobody is to hear more.
Told(t) ==
    /\ Decided(t) => txn[t].pc \in {"secondary", "dead"} /\ txn[t].status = "committed"
    /\ txn[t].status = "committed" =>
          Committed(t) /\ txn[t].pc \in {"secondary", "dead", "done"}
    /\ txn[t].status = "aborted" => txn[t].pc = "done"

\* So it is of every transaction.
AllTold == \A t \in Txn : Told(t)

\* One lock becomes a record in a step, if any does.
LEMMA OnePut ==
    ASSUME Effect, NEW j \in Key, NEW k \in Key, NEW t \in Txn, NEW u \in Txn,
           Put(j, t), Put(k, u)
    PROVE  j = k /\ t = u
  <1>1. ~Unmoved(j) /\ ~Unmoved(k)
    BY Zenon DEF Put, Unmoved
  <1>2. j = k
    BY <1>1 DEF Effect
  <1> QED
    BY <1>2, Zenon DEF Put

\* No lock becomes a record while the shards are left alone.
LEMMA NoPut ==
    ASSUME UNCHANGED db, NEW k \in Key, NEW t \in Txn PROVE ~Put(k, t)
  BY Zenon DEF Put, Locks, At

\* A transaction shows on a key where it has shown, or where its lock becomes a record.
LEMMA Shows ==
    ASSUME PlanAssumption, TxInv, TxInv', Step, NEW u \in Txn, NEW k \in Written(u)
    PROVE  RecordOf(u, k)' # {} <=> RecordOf(u, k) # {} \/ Put(k, u)
  <1>0. k \in Key /\ Shape /\ Stamps /\ Columns /\ Effect /\ \A v \in Txn : Stable(v)
    BY WrittenAreKeys DEF TxInv, Step
  <1>1. ASSUME NEW v \in Txn, HasDecided(v), WritesOf[v] # << >>
        PROVE  RecordBy(v)' = RecordBy(v) /\ txn'[v].start = txn[v].start
    <2>1. RecordBy(v)' = RecordBy(v)
      BY <1>0, <1>1, DecidedGrows, Zenon
    <2> QED
      BY <1>0, <1>1, <2>1, Zenon DEF HasDecided, Stable
  <1>2. ASSUME NEW w \in RecordOf(u, k) PROVE RecordOf(u, k)' # {}
    <2>1. w = RecordBy(u) /\ HasDecided(u) /\ w \in Records(k) /\ txn[u].start # 0
      BY <1>0, <1>2, RecordOfIs, Zenon DEF RecordOf, Records
    <2>2. w \in Records(k)' /\ txn'[u].start = txn[u].start
      BY <1>0, <1>1, <2>1, WriterHasPrimary, RecordsGrow, Zenon
    <2> QED
      BY <1>2, <2>1, <2>2, Zenon DEF RecordOf, Records
  <1>3. ASSUME Put(k, u) PROVE RecordOf(u, k)' # {}
    <2>1. RecordBy(u) \in Records(k)' /\ txn[u].start # 0
      BY <1>0, <1>3, PutGrows, Zenon
    <2>2. txn'[u].start = txn[u].start
      BY <1>0, <2>1, Zenon DEF Stable
    <2> QED
      <3>1. PICK w \in Records(k)' : w = RecordBy(u)
        BY <2>1, Zenon
      <3>2. w.start = txn[u].start
        BY <3>1 DEF RecordBy
      <3> QED
        BY <2>1, <2>2, <3>1, <3>2, Zenon DEF RecordOf, Records
  <1>4. ASSUME NEW w \in RecordOf(u, k)', RecordOf(u, k) = {} PROVE Put(k, u)
    <2>1. w \in Records(k)' /\ txn'[u].start # 0 /\ w.start = txn'[u].start
      BY <1>4, Zenon DEF RecordOf, Records
    <2>2. ASSUME NEW v \in Txn, txn[v].start # 0, w.start = txn[v].start PROVE v = u
      <3>1. txn'[v].start = txn'[u].start
        BY <1>0, <2>1, <2>2, ZenonT(40) DEF Stable
      <3> QED
        BY <2>1, <3>1, Zenon DEF TxInv, Stamps, StampsOf
    <2>3. w \notin Records(k)
      <3> SUFFICES ASSUME w \in Records(k) PROVE FALSE
        OBVIOUS
      <3>1. PICK v \in Txn : w = RecordBy(v) /\ HasDecided(v)
        BY <1>0 DEF Columns, RecordsAreDecided
      <3>2. v = u
        BY <2>2, <3>1, Zenon DEF RecordBy, HasDecided
      <3> QED
        BY <1>0, <1>4, <3>1, <3>2, RecordByIs
    <2>4. PICK v \in Txn : Put(k, v)
      BY <1>0, <2>1, <2>3, Zenon DEF Effect, Fewer, Took
    <2>5. w = RecordBy(v) /\ txn[v].start # 0
      BY <1>0, <2>1, <2>3, <2>4, PutGrows, Zenon
    <2> QED
      BY <2>2, <2>4, <2>5, Zenon DEF RecordBy
  <1> QED
    BY <1>2, <1>3, <1>4

\* The decision is told as it is made.
LEMMA ToldStays ==
    ASSUME PlanAssumption, ~Timeouts, ~Retries, TxInv, TxInv', Step, NEW t \in Txn, Told(t)
    PROVE  Told(t)'
  <1>0. Verdict(t) /\ Effect /\ Going(t, txn[t]) /\ Going(t, txn'[t])
    BY Zenon DEF TxInv, Goings, Step
  <1>1. Decided(t)' => txn'[t].pc \in {"secondary", "dead"} /\ txn'[t].status = "committed"
    <2> SUFFICES ASSUME Decided(t)'
                 PROVE  txn'[t].pc \in {"secondary", "dead"} /\ txn'[t].status = "committed"
      OBVIOUS
    <2>1. WritesOf[t] # << >> /\ RecordOf(t, Primary(t))' # {}
      BY DEF Decided
    <2>2. Primary(t) \in Key /\ Primary(t) \in Written(t)
      BY <2>1, PrimaryIsKey, Zenon
    <2>3. CASE Decided(t)
      BY <1>0, <2>3, Zenon DEF Told, Verdict, Silent
    <2>4. CASE ~Decided(t)
      <3>1. Put(Primary(t), t)
        BY <2>1, <2>2, <2>4, Shows, Zenon DEF Decided
      <3>2. ~HasDecided(t)
        BY <2>1, <2>4, DecidedIs, Zenon
      <3> QED
        BY <3>1, <3>2, Zenon DEF Put, Deciding
    <2> QED
      BY <2>3, <2>4, ZenonT(40)
  <1>2. Decided(t) => Decided(t)'
    <2> SUFFICES ASSUME Decided(t) PROVE Decided(t)'
      OBVIOUS
    <2>1. WritesOf[t] # << >> /\ RecordOf(t, Primary(t)) # {}
      BY Zenon DEF Decided
    <2>2. Primary(t) \in Written(t)
      BY <2>1, PrimaryIsKey, Zenon
    <2>3. RecordOf(t, Primary(t))' # {}
      BY <2>1, <2>2, Shows, Zenon
    <2> QED
      BY <2>1, <2>3, Zenon DEF Decided
  <1>3. txn'[t].pc = "secondary" => Decided(t)'
    <2> SUFFICES ASSUME txn'[t].pc = "secondary" PROVE Decided(t)'
      OBVIOUS
    <2>1. HasDecided(t)' /\ WritesOf[t] # << >>
      BY <1>0, Zenon DEF TxInv, SecondariesWait, Going
    <2>2. RecordBy(t)' \in RecordOf(t, Primary(t))'
      BY <2>1, Zenon DEF HasDecided, RecordBy, RecordOf, Records
    <2> QED
      BY <2>1, <2>2, ZenonT(40) DEF Decided
  <1>4. ASSUME txn'[t].status = "committed"
        PROVE  Committed(t)' /\ txn'[t].pc \in {"secondary", "dead", "done"}
    <2>1. CASE txn[t].status = "committed"
      <3>1. txn'[t].pc \in {"secondary", "dead", "done"}
        BY <1>0, <2>1, Zenon DEF Told, Verdict
      <3>2. Committed(t)'
        BY <1>2, <1>4, <2>1, ZenonT(40) DEF Told, Committed
      <3> QED
        BY <3>1, <3>2
    <2>2. CASE txn'[t].pc = "done" /\ WritesOf[t] = << >>
      BY <1>4, <2>2 DEF Committed
    <2>3. CASE txn'[t].pc = "secondary"
      BY <1>3, <2>3 DEF Committed
    <2> QED
      BY <1>0, <1>4, <2>1, <2>2, <2>3, ZenonT(40) DEF Verdict, Silent
  <1>5. txn'[t].status = "aborted" => txn'[t].pc = "done"
    BY <1>0, Zenon DEF Told, Verdict, Silent
  <1> QED
    BY <1>1, <1>4, <1>5, Zenon DEF Told

\* The decision, the answer and what shows, as OneDecision speaks of them.
LEMMA PromiseStep ==
    ASSUME PlanAssumption, ~Timeouts, ~Retries, TxInv, TxInv', Step, AllTold, AllTold'
    PROVE  [Promise!Next]_(Promise!vars)
  <1> DEFINE O == [t \in Txn |-> IF Committed(t) THEN "committed"
                                 ELSE IF txn[t].status = "aborted" THEN "aborted" ELSE "open"]
             T == [t \in Txn |-> IF txn[t].status \in {"committed", "aborted"}
                                 THEN txn[t].status ELSE "nothing"]
             S == [t \in Txn |-> {k \in Written(t) : RecordOf(t, k) # {}}]
  <1>1. \A u \in Txn : /\ Committed(u) <=> txn[u].status = "committed"
                       /\ Committed(u)' <=> txn'[u].status = "committed"
    BY Zenon DEF AllTold, Told, Committed
  <1>2. \A u \in Txn : Silent(u) => O'[u] = O[u] /\ T'[u] = T[u]
    BY <1>1, ZenonT(40) DEF Silent
  <1>3. \A u \in Txn : (\A k \in Key : ~Put(k, u)) => S'[u] = S[u]
    BY Shows, WrittenAreKeys
  <1>4. \A u \in Txn : S[u] \subseteq Key /\ S'[u] \subseteq Key
    BY WrittenAreKeys
  <1>5. CASE \A u \in Txn : Silent(u)
    <2>1. O' = O /\ T' = T
      BY <1>2, <1>5, Zenon
    <2>2. CASE \A k \in Key, u \in Txn : ~Put(k, u)
      <3>1. S' = S
        BY <1>3, <2>2
      <3> QED
        BY <2>1, <3>1, ZenonT(40) DEF Promise!vars
    <2>3. ASSUME NEW k \in Key, NEW u \in Txn, Put(k, u) PROVE Promise!Show(u)
      <3>1. O[u] = "committed"
        <4>1. k \in Written(u) /\ WritesOf[u] # << >>
          BY <2>3, PutGrows, WriterHasPrimary, ZenonT(40) DEF TxInv
        <4>2. HasDecided(u)
          <5> SUFFICES ASSUME Deciding(u) PROVE FALSE
            BY <2>3, Zenon DEF Put
          <5>1. txn[u].status = "prewritten" /\ txn'[u].status = "committed"
            BY Zenon DEF Deciding, TxInv, Goings, Going
          <5> QED
            BY <1>5, <5>1 DEF Silent
        <4>3. Committed(u)
          BY <4>1, <4>2, DecidedIs, Zenon DEF Committed
        <4> QED
          BY <4>3
      <3>2. S' = [S EXCEPT ![u] = @ \cup {k}]
        <4>1. \A v \in Txn : v # u => S'[v] = S[v]
          BY <1>3, <2>3, OnePut DEF Step
        <4>2. k \in Written(u)
          BY <2>3, PutGrows, ZenonT(40) DEF TxInv
        <4>3. \A j \in Written(u) : RecordOf(u, j)' # {} <=> RecordOf(u, j) # {} \/ j = k
          BY <2>3, OnePut, Shows, WrittenAreKeys DEF Step
        <4>4. S'[u] = S[u] \cup {k}
          BY <4>2, <4>3
        <4> QED
          BY <4>1, <4>4, ZenonT(40)
      <3> QED
        BY <2>1, <3>1, <3>2, ZenonT(40) DEF Promise!Show
    <2> QED
      BY <2>2, <2>3 DEF Promise!Next
  <1>6. ASSUME NEW t \in Txn, ~Silent(t) PROVE Promise!Next
    <2>1. Verdict(t) /\ Told(t) /\ Going(t, txn[t]) /\ Effect
      BY Zenon DEF Step, AllTold, TxInv, Goings
    <2>2. \A u \in Txn : u # t => O'[u] = O[u] /\ T'[u] = T[u]
      BY <1>2, <1>6, Zenon DEF Step
    <2>3. O[t] = "open"
      BY <1>1, <1>6, <2>1, Zenon DEF Verdict, Told, Going
    <2>4. CASE /\ UNCHANGED db /\ txn'[t].status = "aborted"
      <3>1. O' = [O EXCEPT ![t] = "aborted"] /\ T' = [T EXCEPT ![t] = "aborted"]
        <4>1. O'[t] = "aborted" /\ T'[t] = "aborted"
          BY <1>1, <2>4
        <4>2. O' = [O EXCEPT ![t] = "aborted"]
          BY <2>2, <4>1, ZenonT(40)
        <4>3. T' = [T EXCEPT ![t] = "aborted"]
          BY <2>2, <4>1, Zenon
        <4> QED
          BY <4>2, <4>3, ZenonT(40)
      <3>2. S' = S
        BY <1>3, <2>4, NoPut, Zenon
      <3>3. Promise!Abort(t)
        BY <2>3, <3>1, <3>2, ZenonT(40) DEF Promise!Abort, Promise!Hears
      <3> QED
        BY <3>3 DEF Promise!Next
    <2>5. CASE /\ txn'[t].status = "committed" /\ \A u \in Txn : u # t => S'[u] = S[u]
      <3>1. O' = [O EXCEPT ![t] = "committed"] /\ T' = [T EXCEPT ![t] = "committed"]
        <4>1. O'[t] = "committed" /\ T'[t] = "committed"
          BY <1>1, <2>5, Zenon
        <4>2. O' = [O EXCEPT ![t] = "committed"]
          BY <2>2, <4>1, Zenon
        <4>3. T' = [T EXCEPT ![t] = "committed"]
          BY <2>2, <4>1, Zenon
        <4> QED
          BY <4>2, <4>3, Zenon
      <3>2. S' = [S EXCEPT ![t] = S'[t]]
        BY <2>5, Zenon
      <3>3. Promise!Commit(t)
        BY <1>4, <2>3, <3>1, <3>2, ZenonT(40) DEF Promise!Commit, Promise!Hears
      <3> QED
        BY <3>3 DEF Promise!Next
    <2>6. ASSUME UNCHANGED db PROVE \A u \in Txn : S'[u] = S[u]
      BY <1>3, <2>6, NoPut
    <2>7. ASSUME txn[t].pc = "stamped", txn'[t].status = "committed"
          PROVE  \A u \in Txn : u # t => S'[u] = S[u]
      <3>1. WritesOf[t] # << >> /\ Decided(t)' /\ ~Decided(t)
        BY <1>1, <2>1, <2>7, ZenonT(40) DEF Going, Committed, Told
      <3>2. Primary(t) \in Key /\ Primary(t) \in Written(t)
        BY <3>1, PrimaryIsKey
      <3>3. Put(Primary(t), t)
        BY <3>1, <3>2, Shows, Zenon DEF Decided
      <3> QED
        BY <1>3, <2>1, <3>2, <3>3, OnePut
    <2> QED
      BY <1>6, <2>1, <2>4, <2>5, <2>6, <2>7, ZenonT(40) DEF Verdict
  <1> QED
    BY <1>5, <1>6
=============================================================================
