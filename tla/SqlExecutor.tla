---------------------------- MODULE SqlExecutor -----------------------------
(***************************************************************************)
(* SQLExecutor of sql/executor.py over shards with elections: INSERT goes  *)
(* to the leader of the row's shard, SELECT over a range asks every        *)
(* replica of every shard in turn and keeps what leaders answer.           *)
(*                                                                         *)
(* A row's key is its table's prefix and its id, in bytes.  The parser     *)
(* writes the statement in upper case; INSERT and the range scan put the   *)
(* table's name in lower case again, the full scan does not.               *)
(***************************************************************************)
EXTENDS ByteOrder, SequencesExt

CONSTANTS
    Shard, Replica,     \* sequences: the order they are asked in
    Id,                 \* row ids: sequences of bytes
    HomeOf(_),          \* the shard a key is in
    Table,              \* the first byte of each table's keys, its name in lower case
    UpperOf(_),         \* that byte for the name in upper case
    MaxByte,            \* the largest byte (0xff)
    Ops,                \* the comparisons of a WHERE clause, "all" for none
    MaxElections,       \* bound: changes of a shard's leader
    Nobody

VARIABLES
    leader,     \* leader[s]: who leads shard s
    rows,       \* rows[s]: the keys shard s has promised
    locked,     \* the shards with a lock in the way of a range read
    select,     \* the SELECT in progress: its comparison, what is left to ask, the rows
    elections

vars == <<leader, rows, locked, select, elections>>

KeyOf(t, id) == <<t>> \o id
AllRows == UNION {rows[s] : s \in ToSet(Shard)}

\* next_key: the last byte that is not 0xff goes up by one, what follows it goes.
NextKey(key) ==
    LET low == {i \in DOMAIN key : key[i] # MaxByte}
        last == CHOOSE i \in low : \A j \in low : j <= i
    IN  IF low = {} THEN <<MaxByte>>
        ELSE Append(SubSeq(key, 1, last - 1), key[last] + 1)

MutantBounds(op, key) == <<IF op = ">=" THEN key ELSE << >>,
                           IF op = "<" THEN NextKey(key) ELSE <<MaxByte>> >>

\* The half-open range _execute_range_scan asks for; a full scan asks for all of it.
Bounds(op, key) ==
    <<CASE op = ">" -> NextKey(key) [] op = ">=" -> key [] OTHER -> << >>,
      CASE op = "<" -> key [] op = "<=" -> NextKey(key) [] OTHER -> <<MaxByte>> >>

Idle == [op |-> "none"]

Init ==
    /\ leader \in [ToSet(Shard) -> ToSet(Replica)]
    /\ rows = [s \in ToSet(Shard) |-> {}]
    /\ locked = {}
    /\ select = Idle
    /\ elections = 0

-----------------------------------------------------------------------------
Elect(s) ==
    /\ elections < MaxElections
    /\ elections' = elections + 1
    /\ \E n \in (ToSet(Replica) \cup {Nobody}) \ {leader[s]} : leader' = [leader EXCEPT ![s] = n]
    /\ UNCHANGED <<rows, locked, select>>

\* A transaction's lock comes and goes.
LockShard(s) ==
    /\ locked' = IF s \in locked THEN locked \ {s} ELSE locked \cup {s}
    /\ UNCHANGED <<leader, rows, select, elections>>

\* _execute_insert: no leader is an empty answer; what the proposal came to is not looked
\* at, so "inserted" is also the answer of one a new leader has cut off.
Insert(t, id) ==
    LET s == HomeOf(KeyOf(t, id))
    IN  /\ select.op \in {"none", "done"}
        /\ leader[s] # Nobody
        /\ \/ rows' = [rows EXCEPT ![s] = @ \cup {KeyOf(t, id)}]
           \/ elections > 0 /\ rows' = rows
        /\ select' = Idle
        /\ UNCHANGED <<leader, locked, elections>>

\* _execute_select with a comparison, and _rows_from_every_shard
Start(op, t, id) ==
    /\ select.op \in {"none", "done"}
    /\ select' = [op |-> op, key |-> KeyOf(t, id), got |-> << >>, had |-> AllRows,
                  todo |-> [i \in 1 .. Len(Shard) * Len(Replica) |->
                              <<Shard[(i - 1) \div Len(Replica) + 1],
                                Replica[((i - 1) % Len(Replica)) + 1]>>]]
    /\ UNCHANGED <<leader, rows, locked, elections>>

\* WHERE id = ...: one read of the shard's leader; no leader and a refusal, which a lock in
\* the way is, are both an answer with no rows.
Point(t, id) ==
    LET k == KeyOf(t, id)
        s == HomeOf(k)
    IN  /\ select.op \in {"none", "done"}
        /\ select' = [op |-> "done", was |-> "=", key |-> k, had |-> AllRows,
                      rows |-> IF leader[s] # Nobody /\ s \notin locked /\ k \in rows[s]
                               THEN <<k>> ELSE << >>]
        /\ UNCHANGED <<leader, rows, locked, elections>>

Asking == select.op \notin {"none", "done"} /\ select.todo # << >>
Rest == [select EXCEPT !.todo = Tail(@)]

\* A replica that does not lead refuses, and is passed over.
Refused ==
    /\ Asking
    /\ LET s == Head(select.todo)[1] IN leader[s] # Head(select.todo)[2]
    /\ select' = Rest
    /\ UNCHANGED <<leader, rows, locked, elections>>

\* A leader with a lock in the way refuses too, and that is raised.
Raised ==
    /\ Asking
    /\ LET s == Head(select.todo)[1] IN leader[s] = Head(select.todo)[2] /\ s \in locked
    /\ select' = Idle
    /\ UNCHANGED <<leader, rows, locked, elections>>

Answered ==
    /\ Asking
    /\ LET s == Head(select.todo)[1]
           range == Bounds(select.op, select.key)
           found == {k \in rows[s] : Within(k, range[1], range[2])}
       IN  /\ leader[s] = Head(select.todo)[2] /\ s \notin locked
           /\ select' = [Rest EXCEPT !.got = @ \o SetToSortSeq(found, Less)]
    /\ UNCHANGED <<leader, rows, locked, elections>>

\* The rows of the table are kept; those of a comparison are sorted.
Finish ==
    /\ select.op \notin {"none", "done"} /\ select.todo = << >>
    /\ LET table == Head(select.key)
           prefix == IF select.op = "all" THEN UpperOf(table) ELSE table
           mine == SelectSeq(select.got, LAMBDA k : Head(k) = prefix)
       IN  select' = [op |-> "done", was |-> select.op, key |-> select.key, had |-> select.had,
                      rows |-> IF select.op = "all" THEN mine
                               ELSE SortSeq(mine, Less)]
    /\ UNCHANGED <<leader, rows, locked, elections>>

Next ==
    \/ \E s \in ToSet(Shard) : Elect(s) \/ LockShard(s)
    \/ \E id \in Id, t \in Table : Insert(t, id) \/ Point(t, id) \/ \E op \in Ops : Start(op, t, id)
    \/ Refused \/ Raised \/ Answered \/ Finish

Spec == Init /\ [][Next]_vars

-----------------------------------------------------------------------------
Holds(k, op, key) ==
    CASE op = ">" -> Less(key, k) [] op = ">=" -> ~ Less(k, key)
      [] op = "<" -> Less(k, key) [] op = "<=" -> ~ Less(key, k)
      [] op = "=" -> k = key [] OTHER -> TRUE

Wanted ==
    {k \in select.had : Head(k) = Head(select.key) /\ Holds(k, select.was, select.key)}

\* A SELECT with a comparison answers with the rows of its table that the comparison holds
\* of, each once, in the order of their keys, whichever shards they are in
\* (_execute_range_scan's table of bounds; next_key is "strictly after").
SelectIsExact ==
    select.op = "done" /\ select.was # "=" =>
        /\ ToSet(select.rows) = Wanted
        /\ \A i, j \in DOMAIN select.rows : i < j => Less(select.rows[i], select.rows[j])

\* Whatever the elections on its way, a SELECT's rows are rows its shards had promised, of
\* its table, that its comparison holds of: a replica that lost its shard says so
\* (_rows_from_every_shard).
SelectIsSound ==
    select.op = "done" => ToSet(select.rows) \subseteq Wanted

\* A SELECT with no WHERE finds what INSERT wrote (_execute_insert: the key schema is the
\* one SELECT reads by).
InsertedIsSelected ==
    select.op = "done" /\ select.was = "all" => Wanted \subseteq ToSet(select.rows)
=============================================================================
