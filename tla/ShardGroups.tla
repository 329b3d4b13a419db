---------------------------- MODULE ShardGroups -----------------------------
(***************************************************************************)
(* The groups a split or a move works on, and the clients that write to    *)
(* them meanwhile (MemoryRaftNode.propose, freeze_writes and               *)
(* wait_for_writes_to_drain of raft/node.py).                              *)
(*                                                                         *)
(* m[g] is the committed machine of group g, and `behind` what a newly     *)
(* elected leader of the source may have applied of it.  A command in      *)
(* `flight` has been admitted by a leader and is not applied yet: its      *)
(* caller is "waiting" in propose, or "gone" after a timeout, or the       *)
(* command is "old", from a term that has ended.                           *)
(***************************************************************************)
EXTENDS Mvcc, FiniteSets

CONSTANTS
    Group,        \* the groups
    Source,       \* the one whose rows are copied
    Faults,       \* which faults may happen (see the actions that name one)
    MaxTime,      \* bound: timestamps handed out
    MaxFaults,    \* bound: faults of a behaviour
    MaxFlight     \* bound: commands that write new data in flight

SourceAssumption == Source \in Group

VARIABLES
    m,         \* m[g]: the committed machine of group g
    behind,    \* what the source's leader has applied, if it lags
    lags,      \* the source's leader lags
    frozen,    \* the source takes no new rows
    flight,    \* commands admitted and not applied
    now,       \* the timestamp oracle
    up,        \* the process runs
    faults,    \* how many faults there have been
    acked,     \* acked[k]: the versions of k a client has been told are written
    landed,    \* landed[k]: the versions of k that a client's command has written
    locked     \* the transactions that have been told their prewrite is done

clients == <<now, flight, acked, landed, locked>>
groups == <<m, behind, lags>>
groupVars == <<m, behind, lags, frozen, flight, now, up, faults, acked, landed, locked>>

\* A fault: named in Faults, and one of finitely many.
Fault(name) == name \in Faults /\ faults < MaxFaults /\ faults' = faults + 1

\* Every key has been written once.
GroupsInit ==
    /\ now = 1
    /\ \E v \in Value :
         /\ m = [g \in Group |->
                    IF g = Source
                    THEN [Empty EXCEPT !.row = [k \in Key |-> {[at |-> 1, value |-> v]}],
                                       !.last = 1]
                    ELSE Empty]
         /\ acked = [k \in Key |-> {[at |-> 1, value |-> v]}]
    /\ landed = acked
    /\ behind = m[Source] /\ lags = FALSE
    /\ frozen = FALSE /\ flight = {} /\ up = TRUE /\ faults = 0 /\ locked = {}

-----------------------------------------------------------------------------
(* Clients *)

Admit(c) ==
    /\ up
    /\ flight' = flight \cup {c}
    /\ UNCHANGED <<groups, frozen, up, faults, acked, landed, locked>>

\* propose: a frozen group refuses what writes new data (writes_new_data).
AdmitData(c) ==
    /\ ~(c.to = Source /\ frozen)
    /\ Cardinality(flight) < MaxFlight
    /\ Admit(c)

Put(k, g) ==
    /\ now < MaxTime /\ now' = now + 1
    /\ \E v \in Value \cup {Nothing} :
         AdmitData([to |-> g, kind |-> "set", key |-> k, value |-> v,
                    start |-> 0, at |-> now + 1, by |-> "waiting"])

Prewrite(k, g) ==
    /\ "txn" \in Faults
    /\ now < MaxTime /\ now' = now + 1
    /\ \E v \in Value :
         AdmitData([to |-> g, kind |-> "prewrite", key |-> k, value |-> v,
                    start |-> now + 1, at |-> 0, by |-> "waiting"])

\* One command at a time ends a transaction of a group.
Ends(x, kind, g, k) ==
    /\ \A f \in flight : f.to = g => f.kind \in {"set", "prewrite"}
    /\ Admit([to |-> g, kind |-> kind, key |-> k, value |-> Nothing,
              start |-> x.start, at |-> now', by |-> "waiting"])

\* The coordinator of the transaction that holds a lock on k commits it, once it has been
\* told the prewrite is done.
CommitLock(k, g) ==
    \E x \in m[g].lock[k] :
        /\ x.start \in locked
        /\ now < MaxTime /\ now' = now + 1
        /\ Ends(x, "commit", g, k)

\* The coordinator, a resolver or the lock cleaner rolls it back.
RollBackLock(k, g) == now' = now /\ \E x \in m[g].lock[k] : Ends(x, "rollback", g, k)

-----------------------------------------------------------------------------
(* Groups *)

Applied(mc, c) ==
    CASE c.kind = "set" /\ c.value = Nothing -> ApplyDelete(mc, c.key, c.at)
      [] c.kind = "set" /\ c.value # Nothing -> ApplySet(mc, c.key, c.value, c.at, 0)
      [] c.kind = "prewrite" -> ApplyPrewrite(mc, c.key, c.value, c.start, c.key)
      [] c.kind = "commit" -> ApplyCommit(mc, c.key, c.start, c.at)
      [] c.kind = "rollback" -> ApplyRollback(mc, c.key, c.start)

\* The version a command wrote
Written(mc, c) ==
    IF c.kind = "set" THEN {[at |-> c.at, value |-> c.value]}
    ELSE IF c.kind = "commit" THEN {v \in mc.row[c.key] : v.at = c.at}
    ELSE {}

\* The log of a group holds nothing of an ended term that is not applied: what a leader
\* has done once it has committed an entry of its own term, and so a read through it.
Current(g) == \A c \in flight : c.to = g => c.by # "old"

\* A group commits and applies a command, in log order, and answers a caller that waits.
Land(c) ==
    LET r == Applied(m[c.to], c)
        wrote == IF r.code = "ok" THEN Written(r.m, c) ELSE {}
        told == c.by = "waiting" /\ r.code = "ok"
    IN  /\ up
        /\ c.by = "old" \/ Current(c.to)
        /\ m' = [m EXCEPT ![c.to] = r.m]
        /\ flight' = flight \ {c}
        /\ IF c.to = Source THEN behind' = m[Source] /\ lags' = FALSE
           ELSE UNCHANGED <<behind, lags>>
        /\ acked' = IF told THEN [acked EXCEPT ![c.key] = @ \cup wrote] ELSE acked
        /\ landed' = [landed EXCEPT ![c.key] = @ \cup wrote]
        /\ locked' = IF told /\ c.kind = "prewrite" THEN locked \cup {c.start} ELSE locked
        /\ UNCHANGED <<frozen, now, up, faults>>

\* propose gives up with ERR_TIMEOUT; the entry stays in the log.
GiveUp(c) ==
    /\ up /\ c.by = "waiting"
    /\ Fault("late")
    /\ flight' = (flight \ {c}) \cup {[c EXCEPT !.by = "gone"]}
    /\ UNCHANGED <<groups, frozen, now, up, acked, landed, locked>>

\* An entry of an ended term is overwritten by a new leader.
Dropped(c) ==
    /\ c.by = "old"
    /\ flight' = flight \ {c}
    /\ UNCHANGED <<groups, frozen, now, up, faults, acked, landed, locked>>

\* The source elects a leader that has not applied the last committed entry.
Elect ==
    /\ up /\ ~lags /\ behind # m[Source]
    /\ Fault("lag")
    /\ lags' = TRUE
    /\ flight' = {IF c.to = Source THEN [c EXCEPT !.by = "old"] ELSE c : c \in flight}
    /\ UNCHANGED <<m, behind, frozen, now, up, acked, landed, locked>>

CatchUp ==
    /\ lags /\ lags' = FALSE
    /\ UNCHANGED <<m, behind, frozen, clients, up, faults>>

-----------------------------------------------------------------------------
(* What a split and a move read *)

\* What the source's leader has applied: the copy reads its storage directly, whether the
\* leader has committed in its own term or not.
LeaderMachine == IF lags THEN behind ELSE m[Source]
LeaderReady == Current(Source) \/ "lag" \in Faults

MutantNobodyWaits == TRUE

\* wait_for_writes_to_drain: nobody is inside propose any more.
NobodyWaits == \A c \in flight : c.to = Source => c.by # "waiting"

\* A read through the source's leader, which a lock refuses
SourceAnswers == Current(Source) /\ ~lags /\ ~ScanRefused(m[Source], Key, 0)

VisibleIn(range, mc) == {k \in range : ValueAt(mc, k, mc.last).value # Nothing}
RowsIn(range, mc) == [k \in VisibleIn(range, mc) |-> ValueAt(mc, k, mc.last).value]
VersionsIn(range, mc) == [k \in VisibleIn(range, mc) |-> ValueAt(mc, k, mc.last).at]
NoRows == [k \in {} |-> Nothing]

\* _move_row, of a row the group does not hold at its version: the row keeps its
\* timestamp, and the start of the transaction that wrote it.
WithRow(mc, k, value, version) ==
    LET wrote == {w \in LatestWrite(m[Source], k) : w.commit = version}
        start == IF wrote = {} THEN 0 ELSE (CHOOSE w \in wrote : TRUE).start
    IN  IF Get(mc, k, 0).at = version THEN mc ELSE ApplySet(mc, k, value, version, start).m

\* The process dies: a freeze and the callers die with it.
GroupsCrash ==
    /\ up /\ up' = FALSE
    /\ Fault("crash")
    /\ frozen' = FALSE /\ lags' = FALSE
    /\ flight' = {[c EXCEPT !.by = "old"] : c \in flight}
    /\ UNCHANGED <<m, behind, now, acked, landed, locked>>

-----------------------------------------------------------------------------
(* What the clients may rely on *)

NewestAcked(k) == CHOOSE a \in acked[k] : \A b \in acked[k] : b.at <= a.at

\* What a reader of group g finds
ShownBy(g, k) == ValueAt(m[g], k, m[g].last).value

\* The timestamp of the newest write of k
NewestAt(k) == (CHOOSE a \in landed[k] : \A b \in landed[k] : b.at <= a.at).at

\* Group g shows the newest write of k a client was told is done, or a newer one.
ShowsAcked(g, k) ==
    \/ ShownBy(g, k) = NewestAcked(k).value
    \/ \E v \in landed[k] : v.at > NewestAcked(k).at /\ v.value = ShownBy(g, k)
=============================================================================
