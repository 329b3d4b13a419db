---------------------------- MODULE Transactions ----------------------------
(***************************************************************************)
(* Transactions over the shards' machines: the coordinator                 *)
(* (transaction/coordinator.py), the lock resolver and the sweep           *)
(* (lock_resolver.py, lock_cleaner.py), and the plain reads and deletes of *)
(* SmartClient.  A proposal to a shard is atomic, as RaftNode leaves it;   *)
(* what its caller hears is not.                                           *)
(*                                                                         *)
(* A transaction is also the value it writes, so what is read says whose   *)
(* it is.  Each coordinator takes timestamps in runs of its own, as        *)
(* TimestampOracle promises them.                                          *)
(***************************************************************************)
EXTENDS Mvcc, Sequences, FiniteSets

CONSTANTS
    Coordinator, Shard,
    Getter,      \* clients that call SmartClient.get
    Deleter,     \* clients that call SmartClient.delete
    Sweeper,     \* the thread of LockCleaner
    Nobody,
    Home,        \* Home[t]: the coordinator of transaction t
    ReadsOf,     \* ReadsOf[t]: the keys t reads
    WritesOf,    \* WritesOf[t]: the keys t writes, in order; the first is its primary
    KeyOf,       \* KeyOf[g]: the key a getter or a deleter names
    ShardOf,     \* ShardOf[k]: the shard of k
    BatchSize,   \* timestamps to a run
    Timeouts,    \* may a proposal fail without its caller knowing what became of it?
    Retries,     \* may ask_shard propose a command again?
    Expiry,      \* may a lock outlive its TTL?
    Lagging,     \* may a question be answered by a replica that is behind?
    Attempts,    \* _retry_max_attempts: calls of commit that SmartClient makes
    MaxCrash     \* bound: coordinators that stop

Txn == Value

\* What a plan must be.
PlanAssumption ==
    /\ Home \in [Txn -> Coordinator] /\ ReadsOf \in [Txn -> SUBSET Key]
    /\ WritesOf \in [Txn -> Seq(Key)] /\ KeyOf \in [Getter \cup Deleter -> Key]
    /\ ShardOf \in [Key -> Shard] /\ BatchSize \in Nat \ {0}
    /\ Attempts \in Nat /\ MaxCrash \in Nat
    /\ {Timeouts, Retries, Expiry, Lagging} \subseteq BOOLEAN

VARIABLES
    db,      \* db[s]: the machine of shard s
    lag,     \* lag[s]: the machine of a replica of s that is behind
    clock,   \* the oracle's counter
    run,     \* run[c]: the timestamps c holds, [next, end)
    txn,     \* txn[t]: where t is and what it knows
    mutex,   \* mutex[c]: who holds c's _commit_lock
    res,     \* res[p]: what p is settling
    get,     \* get[g]: a plain read
    del,     \* del[d]: a delete
    crashes

vars == <<db, lag, clock, run, txn, mutex, res, get, del, crashes>>

Asker == Txn \cup Getter \cup {Sweeper}
Calm == [pc |-> "idle", key |-> CHOOSE k \in Key : TRUE, start |-> 0,
         primary |-> CHOOSE k \in Key : TRUE, commit |-> 0]

Written(t) == {WritesOf[t][i] : i \in 1 .. Len(WritesOf[t])}
Primary(t) == WritesOf[t][1]
At(k) == db[ShardOf[k]]

Init ==
    /\ db = [s \in Shard |-> Empty] /\ lag = db
    /\ clock = 0 /\ crashes = 0
    /\ run = [c \in Coordinator |-> [next |-> 1, end |-> 1]]
    /\ txn = [t \in Txn |-> [pc |-> "new", status |-> "pending", start |-> 0, commit |-> 0,
                             todo |-> {}, pre |-> [k \in Key |-> "todo"], saw |-> << >>,
                             tries |-> 1]]
    /\ mutex = [c \in Coordinator |-> Nobody]
    /\ res = [p \in Asker |-> Calm]
    /\ get = [g \in Getter |-> [pc |-> "new", value |-> Nothing, was |-> FALSE]]
    /\ del = [d \in Deleter |-> [pc |-> "new", at |-> 0]]

-----------------------------------------------------------------------------
(* The clock, and what a proposal comes to *)

\* get_timestamp of c's client: from its run, or the first of a new one.
Stamp(c) == IF run[c].next < run[c].end THEN run[c].next ELSE clock + 1

TakeStamp(c) ==
    \/ /\ run[c].next < run[c].end
       /\ run' = [run EXCEPT ![c].next = @ + 1]
       /\ UNCHANGED clock
    \/ /\ run[c].next >= run[c].end
       /\ run' = [run EXCEPT ![c] = [next |-> clock + 2, end |-> clock + BatchSize + 1]]
       /\ clock' = clock + BatchSize

\* ask_shard with a proposal to the machine m, whose result is `once`, or `twice` if it is
\* proposed again: the answers its caller may hear with the machine each leaves.
\* "silent" is NodeUnreachable, "timeout" an answer that decides nothing.
Outcomes(m, once, twice) ==
    {once}
    \cup (IF Retries THEN {twice} ELSE {})
    \cup (IF Timeouts THEN [code : {"timeout", "silent"}, m : {m, once.m}] ELSE {})

\* get_lock and get_write_record ask no quorum.
Seen(k) == {At(k)} \cup (IF Lagging THEN {lag[ShardOf[k]]} ELSE {})

\* A replica catches up with its shard.
CatchUp(s) ==
    /\ Lagging /\ lag[s] # db[s]
    /\ lag' = [lag EXCEPT ![s] = db[s]]
    /\ UNCHANGED <<db, clock, run, txn, mutex, res, get, del, crashes>>

Propose(k, Command(_), Hear(_)) ==
    \E o \in Outcomes(At(k), Command(At(k)), Command(Command(At(k)).m)) :
        db' = [db EXCEPT ![ShardOf[k]] = o.m] /\ Hear(o.code)

Free(t) == [mutex EXCEPT ![Home[t]] = IF @ = t THEN Nobody ELSE @]
Move(t, pc) == txn' = [txn EXCEPT ![t].pc = pc]
-----------------------------------------------------------------------------
(* The coordinator *)

\* begin, and the add_writes of the transaction
Begin(t) ==
    /\ txn[t].pc = "new"
    /\ txn' = [txn EXCEPT ![t].pc = "reading", ![t].start = Stamp(Home[t])]
    /\ TakeStamp(Home[t])
    /\ UNCHANGED <<db, lag, mutex, res, get, del, crashes>>

\* read: a snapshot read; a lock in the way goes to the resolver first.
Read(t, k) ==
    LET got == Get(At(k), k, txn[t].start)
    IN  /\ txn[t].pc = "reading" /\ res[t].pc = "idle"
        /\ k \in ReadsOf[t] \ DOMAIN txn[t].saw
        /\ \/ /\ got.ok
              /\ txn' = [txn EXCEPT ![t].saw = [j \in {k} \cup DOMAIN @ |->
                                                   IF j = k THEN got.value ELSE @[j]]]
              /\ UNCHANGED res
           \/ /\ ~got.ok
              /\ res' = [res EXCEPT ![t] = [Calm EXCEPT !.pc = "look", !.key = k]]
              /\ UNCHANGED txn
        /\ UNCHANGED <<db, lag, clock, run, mutex, get, del, crashes>>

\* rollback, by the client: nothing to undo while pending, every lock once prewritten.
Rollback(t) ==
    /\ \/ /\ txn[t].pc = "reading"
          /\ txn' = [txn EXCEPT ![t].pc = "done", ![t].status = "aborted"]
       \/ /\ txn[t].pc = "prewritten"
          /\ txn' = [txn EXCEPT ![t].pc = "undo", ![t].todo = Written(t)]
    /\ res' = [res EXCEPT ![t] = Calm]
    /\ UNCHANGED <<db, lag, clock, run, mutex, get, del, crashes>>

\* commit begins once every read is done; a transaction that writes nothing commits at once.
StartCommit(t) ==
    /\ txn[t].pc = "reading" /\ DOMAIN txn[t].saw = ReadsOf[t]
    /\ \/ /\ WritesOf[t] = << >>
          /\ txn' = [txn EXCEPT ![t].pc = "done", ![t].status = "committed",
                                ![t].commit = txn[t].start]
       \/ /\ WritesOf[t] # << >>
          /\ Move(t, "prewriting")
    /\ UNCHANGED <<db, lag, clock, run, mutex, res, get, del, crashes>>

\* _prewrite_all_shards finds a shard with no leader, before anything is written.
NoLeader(t) ==
    /\ Timeouts
    /\ txn[t].pc = "prewriting" /\ \A k \in Key : txn[t].pre[k] = "todo"
    /\ txn' = [txn EXCEPT ![t].pc = "done", ![t].status = "aborted"]
    /\ UNCHANGED <<db, lag, clock, run, mutex, res, get, del, crashes>>

\* _prewrite_shard: the keys of one shard in order, up to the first failure; the shards
\* at the same time.
PrewriteKey(t, i) ==
    LET k == WritesOf[t][i]
    IN  /\ txn[t].pc = "prewriting" /\ txn[t].pre[k] = "todo"
        /\ \A j \in 1 .. i - 1 :
              ShardOf[WritesOf[t][j]] = ShardOf[k] => txn[t].pre[WritesOf[t][j]] = "ok"
        /\ Propose(k, LAMBDA m : ApplyPrewrite(m, k, t, txn[t].start, Primary(t)),
                   LAMBDA code : txn' = [txn EXCEPT ![t].pre[k] =
                                            IF code = "ok" THEN "ok" ELSE "no"])
        /\ UNCHANGED <<lag, clock, run, mutex, res, get, del, crashes>>

\* Has the task of k's shard returned?
Returned(t, k) ==
    LET mates == {j \in Written(t) : ShardOf[j] = ShardOf[k]}
    IN  (\E j \in mates : txn[t].pre[j] = "no") \/ (\A j \in mates : txn[t].pre[j] = "ok")

MutantPrewritten(t) ==   \* a shard that refused is not noticed
    /\ txn[t].pc = "prewriting"
    /\ \A k \in Written(t) : Returned(t, k)
    /\ txn' = [txn EXCEPT ![t].pc = "prewritten", ![t].status = "prewritten"]
    /\ UNCHANGED <<db, lag, clock, run, mutex, res, get, del, crashes>>

\* Every shard has answered: on to the commit point, or everything is rolled back.
Prewritten(t) ==
    /\ txn[t].pc = "prewriting"
    /\ \A k \in Written(t) : Returned(t, k)
    /\ \/ /\ \A k \in Written(t) : txn[t].pre[k] = "ok"
          /\ txn' = [txn EXCEPT ![t].pc = "prewritten", ![t].status = "prewritten"]
       \/ /\ \E k \in Written(t) : txn[t].pre[k] = "no"
          /\ txn' = [txn EXCEPT ![t].pc = "undo", ![t].todo = Written(t)]
    /\ UNCHANGED <<db, lag, clock, run, mutex, res, get, del, crashes>>

\* commit takes _commit_lock.
LockCommit(t) ==
    /\ txn[t].pc = "prewritten" /\ mutex[Home[t]] = Nobody
    /\ mutex' = [mutex EXCEPT ![Home[t]] = t]
    /\ txn' = [txn EXCEPT ![t].pc = "validating", ![t].todo = ReadsOf[t]]
    /\ UNCHANGED <<db, lag, clock, run, res, get, del, crashes>>

MutantValidate(t, k) ==   \* reads are not validated
    /\ txn[t].pc = "validating" /\ k \in txn[t].todo
    /\ txn' = [txn EXCEPT ![t].todo = @ \ {k}]
    /\ UNCHANGED <<db, lag, clock, run, mutex, res, get, del, crashes>>

\* _validate_read_set, one key: a write record committed after start_ts is a conflict.
Validate(t, k) ==
    /\ txn[t].pc = "validating" /\ k \in txn[t].todo
    /\ \E m \in Seen(k) :
          LET stale == \E w \in LatestWrite(m, k) : w.commit > txn[t].start
          IN  txn' = [txn EXCEPT ![t].pc = IF stale THEN "undo" ELSE @,
                                 ![t].todo = IF stale THEN Written(t) ELSE @ \ {k}]
    /\ UNCHANGED <<db, lag, clock, run, mutex, res, get, del, crashes>>

MutantStampCommit(t) ==   \* the commit timestamp is the start timestamp
    /\ txn[t].pc = "validating" /\ txn[t].todo = {}
    /\ txn' = [txn EXCEPT ![t].pc = "stamped", ![t].commit = txn[t].start]
    /\ UNCHANGED <<db, lag, clock, run, mutex, res, get, del, crashes>>

\* The commit timestamp, once the reads are validated.
StampCommit(t) ==
    /\ txn[t].pc = "validating" /\ txn[t].todo = {}
    /\ txn' = [txn EXCEPT ![t].pc = "stamped", ![t].commit = Stamp(Home[t])]
    /\ TakeStamp(Home[t])
    /\ UNCHANGED <<db, lag, mutex, res, get, del, crashes>>

\* The primary is committed.  A refusal or a time-out rolls the transaction back under the
\* lock; silence leaves commit by an exception, as things are.
CommitPrimary(t) ==
    LET k == Primary(t)
        rest == Written(t) \ {k}
    IN  /\ txn[t].pc = "stamped"
        /\ Propose(k, LAMBDA m : ApplyCommit(m, k, txn[t].start, txn[t].commit),
              LAMBDA code :
                 \/ /\ code = "ok"
                    /\ txn' = [txn EXCEPT ![t].pc = "secondary", ![t].todo = rest,
                                          ![t].status = "committed"]
                    /\ mutex' = Free(t)
                 \/ /\ code = "silent"
                    /\ Move(t, "raised") /\ mutex' = Free(t)
                 \/ /\ code \notin {"ok", "silent"}
                    /\ txn' = [txn EXCEPT ![t].pc = "undo", ![t].todo = Written(t)]
                    /\ UNCHANGED mutex)
        /\ UNCHANGED <<lag, clock, run, res, get, del, crashes>>

MutantCommitSecondary(t, k) ==   \* the secondaries do not wait for the primary
    /\ txn[t].pc \in {"stamped", "secondary"} /\ k \in Written(t) \ {Primary(t)}
    /\ LockOf(At(k), k, txn[t].start) # {}
    /\ Propose(k, LAMBDA m : ApplyCommit(m, k, txn[t].start, txn[t].commit), LAMBDA code : TRUE)
    /\ txn' = [txn EXCEPT ![t].todo = @ \ {k}]
    /\ UNCHANGED <<lag, clock, run, mutex, res, get, del, crashes>>

\* _commit_secondary_shards: each in a task of its own, whose outcome nobody reads.
CommitSecondary(t, k) ==
    /\ txn[t].pc = "secondary" /\ k \in txn[t].todo
    /\ Propose(k, LAMBDA m : ApplyCommit(m, k, txn[t].start, txn[t].commit), LAMBDA code : TRUE)
    /\ txn' = [txn EXCEPT ![t].todo = @ \ {k}]
    /\ UNCHANGED <<lag, clock, run, mutex, res, get, del, crashes>>

\* _rollback_all_shards, one key; what the shard answers is not looked at.
Undo(t, k) ==
    /\ txn[t].pc = "undo" /\ k \in txn[t].todo
    /\ Propose(k, LAMBDA m : ApplyRollback(m, k, txn[t].start),
          LAMBDA code :
             \/ /\ code = "silent"
                /\ Move(t, "raised") /\ mutex' = Free(t)
             \/ /\ code # "silent"
                /\ txn' = [txn EXCEPT ![t].todo = @ \ {k}]
                /\ UNCHANGED mutex)
    /\ UNCHANGED <<lag, clock, run, res, get, del, crashes>>

Undone(t) ==
    /\ txn[t].pc = "undo" /\ txn[t].todo = {}
    /\ txn' = [txn EXCEPT ![t].pc = "done", ![t].status = "aborted"]
    /\ mutex' = Free(t)
    /\ UNCHANGED <<db, lag, clock, run, res, get, del, crashes>>

\* SmartClient.commit calls commit again after an exception, which begins again if the
\* transaction is still pending.
CommitAgain(t) ==
    /\ txn[t].pc = "raised" /\ txn[t].status = "pending" /\ txn[t].tries < Attempts
    /\ txn' = [txn EXCEPT ![t].pc = "prewriting", ![t].tries = @ + 1,
                          ![t].pre = [k \in Key |-> "todo"]]
    /\ UNCHANGED <<db, lag, clock, run, mutex, res, get, del, crashes>>

\* The process of c stops: its transactions go no further, its locks stay.
Crash(c) ==
    LET mine == {t \in Txn : Home[t] = c}
    IN  /\ crashes < MaxCrash
        /\ crashes' = crashes + 1
        /\ txn' = [t \in Txn |-> IF t \in mine /\ txn[t].pc # "done"
                                 THEN [txn[t] EXCEPT !.pc = "dead"] ELSE txn[t]]
        /\ res' = [p \in Asker |-> IF p \in mine THEN Calm ELSE res[p]]
        /\ mutex' = [mutex EXCEPT ![c] = Nobody]
        /\ UNCHANGED <<db, lag, clock, run, get, del>>

-----------------------------------------------------------------------------
(* The lock resolver: a reader in await_resolution, or the sweep *)

Settling(p, r) ==
    /\ res' = [res EXCEPT ![p] = r]
    /\ UNCHANGED <<lag, clock, run, txn, mutex, get, del, crashes>>

\* What p does when it has settled nothing: a reader polls, the sweep goes on.
NotYet(p) == IF p = Sweeper THEN Calm ELSE [res[p] EXCEPT !.pc = "look"]

\* _expired_locks: a lock past its TTL, as it is now.
Sweep(k) ==
    /\ res[Sweeper].pc = "idle"
    /\ \E x \in At(k).lock[k] :
          /\ ~x.fresh
          /\ Settling(Sweeper, [Calm EXCEPT !.pc = "record", !.key = k, !.start = x.start,
                                            !.primary = x.primary])
    /\ UNCHANGED db

\* lock_on: no lock is a lock settled.
Look(p) ==
    /\ res[p].pc = "look"
    /\ \E m \in Seen(res[p].key) :
          \/ /\ NewestLock(m, res[p].key) = {}
             /\ Settling(p, Calm)
          \/ \E x \in NewestLock(m, res[p].key) :
                Settling(p, [res[p] EXCEPT !.pc = "record", !.start = x.start,
                                           !.primary = x.primary])
    /\ UNCHANGED db

\* Is the newest write record of k, as m has it, the one of `start`?
WroteLast(m, k, start) == {w \in LatestWrite(m, k) : w.start = start}

\* primary_status asks for the newest write record of the primary,
AskRecord(p) ==
    /\ res[p].pc = "record"
    /\ \E m \in Seen(res[p].primary) :
          Settling(p, [res[p] EXCEPT
              !.pc = IF WroteLast(m, res[p].primary, res[p].start) # {} THEN "stamp" ELSE "lock"])
    /\ UNCHANGED db

MutantAskLockWaits(p) ==   \* a lock past its TTL is still waited for
    /\ res[p].pc = "lock"
    /\ \E m \in Seen(res[p].primary) :
          \/ /\ \E x \in NewestLock(m, res[p].primary) : x.start = res[p].start
             /\ Settling(p, NotYet(p))
          \/ /\ \A x \in NewestLock(m, res[p].primary) : x.start # res[p].start
             /\ Settling(p, [res[p] EXCEPT !.pc = "back"])
    /\ UNCHANGED db

\* and then for its lock: pending while the lock is fresh, aborted otherwise.
AskLock(p) ==
    /\ res[p].pc = "lock"
    /\ \E m \in Seen(res[p].primary) :
          \/ /\ \E x \in NewestLock(m, res[p].primary) : x.start = res[p].start /\ x.fresh
             /\ Settling(p, NotYet(p))
          \/ /\ \A x \in NewestLock(m, res[p].primary) : ~(x.start = res[p].start /\ x.fresh)
             /\ Settling(p, [res[p] EXCEPT !.pc = "back"])
    /\ UNCHANGED db

\* primary_commit_ts asks for the record a second time.
AskStamp(p) ==
    /\ res[p].pc = "stamp"
    /\ \E m \in Seen(res[p].primary) :
          LET found == WroteLast(m, res[p].primary, res[p].start)
          IN  \/ found = {} /\ Settling(p, NotYet(p))
              \/ \E w \in found : Settling(p, [res[p] EXCEPT !.pc = "forward", !.commit = w.commit])
    /\ UNCHANGED db

\* _settle: the lock is committed at the primary's timestamp, or rolled back.  Whatever
\* the shard answers, a reader looks at the key again.
Settle(p) ==
    LET k == res[p].key
    IN  /\ \/ /\ res[p].pc = "forward"
              /\ Propose(k, LAMBDA m : ApplyCommit(m, k, res[p].start, res[p].commit),
                         LAMBDA code : TRUE)
           \/ /\ res[p].pc = "back"
              /\ Propose(k, LAMBDA m : ApplyRollback(m, k, res[p].start), LAMBDA code : TRUE)
        /\ Settling(p, Calm)

\* Time passes: the locks on k outlive their TTL.
Expire(k) ==
    /\ Expiry /\ \E x \in At(k).lock[k] : x.fresh
    /\ db' = [db EXCEPT ![ShardOf[k]] = Aged(@, k)]
    /\ UNCHANGED <<lag, clock, run, txn, mutex, res, get, del, crashes>>

-----------------------------------------------------------------------------
(* SmartClient.get and SmartClient.delete *)

\* The newest value; `was` is whether the key had one when the read began.
GetFirst(g) ==
    LET k == KeyOf[g]
        got == Get(At(k), k, 0)
    IN  /\ get[g].pc = "new"
        /\ \/ /\ got.ok
              /\ get' = [get EXCEPT ![g] = [pc |-> "done", value |-> got.value,
                                            was |-> got.value # Nothing]]
              /\ UNCHANGED res
           \/ /\ ~got.ok
              /\ get' = [get EXCEPT ![g] = [pc |-> "again", value |-> Nothing,
                            was |-> ValueAt(At(k), k, At(k).last).value # Nothing]]
              /\ res' = [res EXCEPT ![g] = [Calm EXCEPT !.pc = "look", !.key = k]]
        /\ UNCHANGED <<db, lag, clock, run, txn, mutex, del, crashes>>

\* The lock has been settled and the read is made once more.  Its result is returned as
\* it is: a second lock in the way reads as a key that is not there.
GetAgain(g) ==
    LET k == KeyOf[g]
    IN  /\ get[g].pc = "again" /\ res[g].pc = "idle"
        /\ get' = [get EXCEPT ![g].pc = "done", ![g].value = Get(At(k), k, 0).value]
        /\ UNCHANGED <<db, lag, clock, run, txn, mutex, res, del, crashes>>

\* delete: a timestamp of its own, then one command, proposed again with the same
\* timestamp if it fails.
StampDelete(d) ==
    /\ del[d].pc = "new"
    /\ \E c \in Coordinator :
          /\ del' = [del EXCEPT ![d] = [pc |-> "stamped", at |-> Stamp(c)]]
          /\ TakeStamp(c)
    /\ UNCHANGED <<db, lag, txn, mutex, res, get, crashes>>

Delete(d) ==
    /\ del[d].pc = "stamped"
    /\ Propose(KeyOf[d], LAMBDA m : ApplyDelete(m, KeyOf[d], del[d].at),
               LAMBDA code : del' = [del EXCEPT ![d].pc = IF code = "silent" THEN @ ELSE "done"])
    /\ UNCHANGED <<lag, clock, run, txn, mutex, res, get, crashes>>

-----------------------------------------------------------------------------
TxnStep(t) ==
    \/ Begin(t) \/ StartCommit(t) \/ NoLeader(t) \/ Prewritten(t) \/ LockCommit(t)
    \/ StampCommit(t) \/ CommitPrimary(t) \/ Undone(t) \/ CommitAgain(t)
    \/ \E k \in Key : Read(t, k) \/ Validate(t, k) \/ CommitSecondary(t, k) \/ Undo(t, k)
    \/ \E i \in 1 .. Len(WritesOf[t]) : PrewriteKey(t, i)

ResolverStep(p) == Look(p) \/ AskRecord(p) \/ AskLock(p) \/ AskStamp(p) \/ Settle(p)

Next ==
    \/ \E t \in Txn : TxnStep(t) \/ Rollback(t)
    \/ \E p \in Asker : ResolverStep(p)
    \/ \E k \in Key : Sweep(k) \/ Expire(k)
    \/ \E g \in Getter : GetFirst(g) \/ GetAgain(g)
    \/ \E d \in Deleter : StampDelete(d) \/ Delete(d)
    \/ \E s \in Shard : CatchUp(s)
    \/ \E c \in Coordinator : Crash(c)

Spec == Init /\ [][Next]_vars

-----------------------------------------------------------------------------
(* Properties *)

\* The write record t has left on k, if any.
RecordOf(t, k) == {w \in At(k).wrote[k] : txn[t].start # 0 /\ w.start = txn[t].start}
Decided(t) == WritesOf[t] # << >> /\ RecordOf(t, Primary(t)) # {}
Committed(t) == Decided(t) \/ (WritesOf[t] = << >> /\ txn[t].status = "committed")

\* Two transactions that wrote the same key did not overlap in time: no update is lost,
\* whichever locks expire, whoever clears them, and whatever is proposed twice
\* (_apply_prewrite and _apply_commit under coordinator and resolver).
NoLostUpdate ==
    \A k \in Key : \A v, w \in At(k).wrote[k] :
        v = w \/ v.commit <= w.start \/ w.commit <= v.start

\* What is written on any key was decided on the primary, at the same commit timestamp:
\* no reader sees a write of a transaction that has not committed
\* (commit's order of primary and secondaries; resolve_lock rolling forward).
WritesAreDecided ==
    \A t \in Txn : \A k \in Written(t) :
        \A w \in RecordOf(t, k) : \E p \in RecordOf(t, Primary(t)) : p.commit = w.commit

\* What a transaction or a plain read has read is a value of a transaction that committed,
\* also when the question that settled a lock was answered by a replica that is behind
\* (get, and resolve_lock's order of questions).
ReadsAreDecided ==
    /\ \A t \in Txn : \A k \in DOMAIN txn[t].saw :
          txn[t].saw[k] # Nothing => Decided(txn[t].saw[k])
    /\ \A g \in Getter : get[g].value # Nothing => Decided(get[g].value)

\* A snapshot read repeated in the same transaction returns the same value (read).
RepeatableRead ==
    \A t \in Txn : \A k \in DOMAIN txn[t].saw :
        txn[t].pc \in {"reading", "prewriting"} /\ LockOf(At(k), k, txn[t].start) = {}
        => ValueAt(At(k), k, txn[t].start).value = txn[t].saw[k]

\* A committed transaction is on every key it writes: written there, or still locked for
\* whoever finds the lock to roll it forward (resolve_lock and _rollback_all_shards).
AllOrNothing ==
    \A t \in Txn : Decided(t) =>
        \A k \in Written(t) :
            RecordOf(t, k) # {} \/ LockOf(At(k), k, txn[t].start) # {}

\* While a lock of a committed transaction is left, the newest write record of its primary
\* is its own: that record is all a resolver asks for (primary_status).
DecisionStays ==
    \A t \in Txn : \A k \in Written(t) :
        Decided(t) /\ LockOf(At(k), k, txn[t].start) # {}
        => WroteLast(At(Primary(t)), Primary(t), txn[t].start) # {}

\* A transaction its client was told is aborted has not committed (commit).
AbortedIsAborted == \A t \in Txn : txn[t].status = "aborted" => ~Committed(t)

\* u has read or overwritten what t wrote, or overwritten what t read.
Precedes(t, u) ==
    \E k \in Key :
        \/ k \in DOMAIN txn[u].saw /\ txn[u].saw[k] = t
        \/ /\ k \in DOMAIN txn[t].saw
           /\ \E w \in RecordOf(u, k) :
                 \/ txn[t].saw[k] = Nothing
                 \/ /\ txn[t].saw[k] # u
                    /\ \E v \in RecordOf(txn[t].saw[k], k) : v.commit < w.commit
        \/ \E v \in RecordOf(t, k), w \in RecordOf(u, k) : v.commit < w.commit

\* Some order of the committed transactions explains what each has read and what is
\* written (_validate_read_set and _commit_lock).
Serializable ==
    LET C == {t \in Txn : Committed(t)}
    IN  \E place \in [C -> 1 .. Cardinality(C)] :
            \A t, u \in C : t # u =>
                /\ place[t] # place[u]
                /\ Precedes(t, u) => place[t] < place[u]

\* A plain read of a key that has a value finds one (SmartClient.get, with no delete).
GetFindsValue == \A g \in Getter : get[g].pc = "done" /\ get[g].was => get[g].value # Nothing

\* What OneDecision speaks of: the decision, what the client was told, what shows.
Promise == INSTANCE OneDecision WITH
    outcome <- [t \in Txn |-> IF Committed(t) THEN "committed"
                              ELSE IF txn[t].status = "aborted" THEN "aborted" ELSE "open"],
    told <- [t \in Txn |-> IF txn[t].status \in {"committed", "aborted"}
                           THEN txn[t].status ELSE "nothing"],
    shown <- [t \in Txn |-> {k \in Written(t) : RecordOf(t, k) # {}}]
\* A transaction is decided once, shows nothing before, and its client is told what was
\* decided: coordinators, resolvers and the sweep together implement OneDecision.
KeepsPromise == Promise!Spec

\* The threads that finish what they begin: a coordinator's, the sweep's and a reader's,
\* and time.
Fairness ==
    /\ \A t \in Txn : WF_vars(TxnStep(t)) /\ WF_vars(ResolverStep(t))
    /\ WF_vars(ResolverStep(Sweeper)) /\ WF_vars(\E k \in Key : Sweep(k))
    /\ \A k \in Key : WF_vars(Expire(k))

FairSpec == Spec /\ Fairness

\* No lock stays for ever: the coordinator, a reader or the sweep settles it, also when
\* its coordinator has stopped (_clean_expired_locks).
LocksAreSettled == \A k \in Key : At(k).lock[k] # {} ~> At(k).lock[k] = {}

\* A transaction that has begun ends, unless its process stops: no wait for a lock or for
\* _commit_lock is without end (read, commit).
TransactionsEnd ==
    \A t \in Txn : txn[t].pc = "reading" ~> txn[t].pc \in {"secondary", "done", "raised", "dead"}

=============================================================================
