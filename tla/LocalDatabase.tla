--------------------------- MODULE LocalDatabase ----------------------------
(***************************************************************************)
(* The embedded database (database.py) with its transactions               *)
(* (transaction/local.py) and its clock (storage/timestamp.py): writes are *)
(* buffered, a commit takes one timestamp and writes its rows one by one,  *)
(* a read is of the newest row at or below the reader's timestamp.  Threads *)
(* share the database; the process may die and be started again.           *)
(***************************************************************************)
EXTENDS Naturals

CONSTANTS
    Session, Key,
    Val,            \* the values written; Gone marks a deletion
    Gone,
    MaxTime,        \* bound: the wall clock
    MaxRestarts,    \* bound: deaths of the process
    Failing         \* may the engine refuse a row?

ASSUME TimeAssumption == MaxTime \in Nat

VARIABLES
    now,        \* the wall clock
    last,       \* TimestampAllocator._last_timestamp
    rows,       \* what is stored: rows[k] maps a timestamp to a value
    txn,        \* txn[t]: its state, timestamps, buffered writes, the rows still to write
    seen,       \* seen[t]: what the snapshot of t held when t began, and was anyone
                \* writing a commit just then
    restarts

localVars == <<now, last, rows, txn, seen, restarts>>

Unborn == [state |-> "unborn", start |-> 0, commit |-> 0, writes |-> << >>, left |-> {}]

\* MVCCStorage.get: the newest row at or below ts
ReadAt(k, ts) ==
    LET old == {u \in DOMAIN rows[k] : u <= ts}
    IN  IF old = {} THEN Gone ELSE rows[k][CHOOSE u \in old : \A w \in old : w <= u]

MutantAllocate == IF now > last THEN now ELSE last

\* TimestampAllocator.allocate
Allocate == IF now > last THEN now ELSE last + 1

LocalInit ==
    /\ now = 1
    /\ last = now
    /\ rows = [k \in Key |-> << >>]
    /\ txn = [t \in Session |-> Unborn]
    /\ seen = [t \in Session |-> [clean |-> FALSE, view |-> [k \in Key |-> Gone]]]
    /\ restarts = 0

\* The wall clock goes on, and may be set back.
Clock == now' \in 1 .. MaxTime /\ UNCHANGED <<last, rows, txn, seen, restarts>>

-----------------------------------------------------------------------------
\* Nobody is between taking a commit timestamp and having written the last row.
Quiet == \A t \in Session : txn[t].state # "committing"

\* TransactionManager.begin
Begin(t) ==
    /\ txn[t].state = "unborn"
    /\ last' = Allocate
    /\ txn' = [txn EXCEPT ![t].state = "pending", ![t].start = Allocate]
    /\ seen' = [seen EXCEPT ![t] = [clean |-> Quiet,
                                    view |-> [k \in Key |-> ReadAt(k, Allocate)]]]
    /\ UNCHANGED <<now, rows, restarts>>

\* Transaction.get: its own write first
Get(t, k) ==
    IF k \in DOMAIN txn[t].writes THEN txn[t].writes[k] ELSE ReadAt(k, txn[t].start)

\* Transaction.set and Transaction.delete
Write(t, k, v) ==
    /\ txn[t].state = "pending"
    /\ txn' = [txn EXCEPT ![t].writes =
                 [x \in DOMAIN @ \cup {k} |-> IF x = k THEN v ELSE @[x]]]
    /\ UNCHANGED <<now, last, rows, seen, restarts>>

\* Transaction.rollback, which looks at no state: after a commit it clears the writes of the
\* transaction and not the rows.
Rollback(t) ==
    /\ txn[t].state \in {"pending", "committed", "aborted"}
    /\ txn' = [txn EXCEPT ![t].state = "aborted", ![t].writes = << >>]
    /\ UNCHANGED <<now, last, rows, seen, restarts>>

\* Transaction.commit, up to its first row
Stamp(t) ==
    /\ txn[t].state = "pending"
    /\ last' = Allocate
    /\ txn' = [txn EXCEPT ![t].state = "committing", ![t].commit = Allocate,
                          ![t].left = DOMAIN txn[t].writes]
    /\ UNCHANGED <<now, rows, seen, restarts>>

\* One row of it; the writes go before the deletions.
WriteRow(t, k) ==
    /\ txn[t].state = "committing" /\ k \in txn[t].left
    /\ txn[t].writes[k] = Gone => \A x \in txn[t].left : txn[t].writes[x] = Gone
    /\ rows' = [rows EXCEPT ![k] = [u \in DOMAIN @ \cup {txn[t].commit} |->
                                      IF u = txn[t].commit THEN txn[t].writes[k] ELSE @[u]]]
    /\ txn' = [txn EXCEPT ![t].left = @ \ {k}]
    /\ UNCHANGED <<now, last, seen, restarts>>

\* The engine refuses a row: the transaction is aborted, the rows before it stay.
FailRow(t) ==
    /\ Failing
    /\ txn[t].state = "committing" /\ txn[t].left # {}
    /\ txn' = [txn EXCEPT ![t].state = "aborted"]
    /\ UNCHANGED <<now, last, rows, seen, restarts>>

Committed(t) ==
    /\ txn[t].state = "committing" /\ txn[t].left = {}
    /\ txn' = [txn EXCEPT ![t].state = "committed"]
    /\ UNCHANGED <<now, last, rows, seen, restarts>>

\* The process dies with the transactions that are open; the clock starts at the wall
\* clock's time, which here has not gone back behind what was handed out.
LocalRestart ==
    /\ restarts < MaxRestarts /\ now >= last
    /\ restarts' = restarts + 1
    /\ last' = now
    /\ txn' = [t \in Session |-> IF txn[t].state \in {"pending", "committing"}
                             THEN [txn[t] EXCEPT !.state = "lost"] ELSE txn[t]]
    /\ UNCHANGED <<now, rows, seen>>

LocalNext ==
    \/ Clock \/ LocalRestart
    \/ \E t \in Session :
          \/ Begin(t) \/ Rollback(t) \/ Stamp(t) \/ FailRow(t) \/ Committed(t)
          \/ \E k \in Key : WriteRow(t, k) \/ \E v \in Val \cup {Gone} : Write(t, k, v)

LocalSpec == LocalInit /\ [][LocalNext]_localVars

-----------------------------------------------------------------------------
\* A transaction that began while no commit was being written reads, of the keys it has
\* not written itself, what the database held then, for as long as it is open: a later
\* commit has a later timestamp (Transaction.get reads at _start_timestamp).
SnapshotStays ==
    \A t \in Session, k \in Key :
        txn[t].state = "pending" /\ seen[t].clean /\ k \notin DOMAIN txn[t].writes =>
            Get(t, k) = seen[t].view[k]

\* What a commit that answered True wrote is still there, under a timestamp no other
\* commit has used, and is within reach of a read outside any transaction
\* (TimestampAllocator.allocate, Database.get).
CommittedIsKept ==
    \A t \in Session :
        txn[t].state = "committed" => \A k \in DOMAIN txn[t].writes :
            /\ txn[t].commit \in DOMAIN rows[k] /\ txn[t].commit <= last
            /\ rows[k][txn[t].commit] = txn[t].writes[k]
=============================================================================
