----------------------------- MODULE SplitShard -----------------------------
(***************************************************************************)
(* Splitting a shard while clients write to it: split_shard of             *)
(* raft/shard_server.py, and finish_split, _resume_split and what they     *)
(* call in raft/recovery_runner.py.                                        *)
(*                                                                         *)
(* Group 0 is the source's and group 1 the new shard's.  Clients route by  *)
(* the table.  One process holds the cluster: a crash takes everything but *)
(* the logs, the note and the table.                                       *)
(***************************************************************************)
EXTENDS ShardGroups, RoutingTable

CONSTANTS
    SplitAt,      \* the split key
    End           \* the end of the source's range, which starts at 0

SplitAssumption ==
    /\ Group = Shard /\ Source = 0 /\ 1 \in Shard
    /\ Key \subseteq 0 .. End - 1 /\ SplitAt \in 1 .. End - 1

VARIABLES
    table,     \* the routing table
    ranged,    \* this side's own range map has the split
    note,      \* the split's note is on disk
    held,      \* the pending split in memory: "none", "read", or "loaded" from the note
    rows,      \* its rows
    versions,  \* the versions the copy has read
    todo,      \* the rows the copy has still to look at
    pc,        \* where the split is
    floats     \* a proposal to the table whose answer was lost may still be applied

split == <<note, held, rows, versions, todo>>
splitVars == <<table, ranged, split, pc, floats>>
vars == <<groupVars, splitVars>>

Right == {k \in Key : k >= SplitAt}
Owner(k) == Locate(table, k)

\* The owner by this side's map, which the lock cleaner routes by
MapOwner(k) == IF ranged /\ k \in Right THEN 1 ELSE 0

Init ==
    /\ GroupsInit
    /\ table = [version |-> 1, at |-> [s \in Shard |-> IF s = 0 THEN Placed(0, End, {}, NoAddresses)
                                                       ELSE Nobody]]
    /\ ranged = FALSE /\ note = FALSE /\ held = "none"
    /\ rows = NoRows /\ versions = NoRows /\ todo = {}
    /\ pc = "idle" /\ floats = FALSE

-----------------------------------------------------------------------------
(* Clients *)

\* Between the load of the note and the freeze of _resume_split the source takes writes.
EarlyWindow == held = "loaded" /\ ~frozen

Client(k) ==
    /\ EarlyWindow => "early" \in Faults
    /\ \/ Put(k, Owner(k)) \/ Prewrite(k, Owner(k))
       \/ CommitLock(k, Owner(k)) \/ RollBackLock(k, Owner(k)) \/ RollBackLock(k, MapOwner(k))
    /\ UNCHANGED splitVars

GroupStep ==
    /\ \/ \E c \in flight : Land(c) \/ GiveUp(c) \/ Dropped(c)
       \/ Elect \/ CatchUp
    /\ UNCHANGED splitVars

-----------------------------------------------------------------------------
(* split_shard *)

Step(from, to) == up /\ pc = from /\ pc' = to

\* Freeze, then drain.
Begin ==
    /\ held = "none" /\ ~Named(table, 1)
    /\ Step("idle", "drain")
    /\ frozen' = TRUE
    /\ UNCHANGED <<table, ranged, groups, clients, up, split, floats, faults>>

Drained ==
    /\ Step("drain", "locks")
    /\ NobodyWaits
    /\ UNCHANGED <<table, ranged, groups, frozen, clients, up, split, floats, faults>>

\* The finally of split_shard: nothing has been copied, so the source is thawed.  The
\* drain timed out, or a transaction holds a lock in the range.
CalledOff ==
    /\ \/ Step("drain", "idle") /\ ~NobodyWaits
       \/ Step("locks", "idle") /\ \E k \in Key : LeaderMachine.lock[k] # {}
    /\ frozen' = FALSE
    /\ UNCHANGED <<table, ranged, groups, clients, up, split, floats, faults>>

\* _locks_in_range
NoLocks ==
    /\ LeaderReady
    /\ Step("locks", "rows")
    /\ \A k \in Key : LeaderMachine.lock[k] = {}
    /\ UNCHANGED <<table, ranged, groups, frozen, clients, up, split, floats, faults>>

\* _rows_above and remember_split, then ensure_serving
ReadRows ==
    /\ LeaderReady
    /\ Step("rows", "lookup")
    /\ rows' = RowsIn(Right, LeaderMachine)
    /\ note' = TRUE /\ held' = "read"
    /\ UNCHANGED <<table, ranged, groups, frozen, clients, up, versions, todo, floats, faults>>

-----------------------------------------------------------------------------
(* finish_split *)

\* The caller asks again for a split that was not finished.
SplitAgainAsked ==
    /\ held = "read" \/ (held = "loaded" /\ "again" \in Faults)
    /\ Step("idle", "lookup")
    /\ UNCHANGED <<table, ranged, groups, frozen, clients, up, split, floats, faults>>

\* finish_split stops short: a group has no leader, or the scan is refused over a lock.
\* The split stays pending and the source frozen.
Stopped ==
    /\ \/ Step("lookup", "idle") /\ ScanRefused(m[0], Key, 0) /\ UNCHANGED faults
       \/ (\E at \in {"look", "lookup", "publish"} : Step(at, "idle")) /\ Fault("stop")
    /\ UNCHANGED <<table, ranged, groups, frozen, clients, up, split, floats>>

\* _copy_what_is_missing: the versions of the rows, from a leader that is current
ReadVersions ==
    /\ SourceAnswers
    /\ Step("lookup", "copy")
    /\ versions' = VersionsIn(Right, m[0])
    /\ todo' = DOMAIN rows \cap DOMAIN versions'
    /\ UNCHANGED <<table, ranged, groups, frozen, clients, up, note, held, rows, floats, faults>>

MoveRow(k) ==
    /\ k \in todo /\ todo' = todo \ {k}
    /\ Step("copy", "copy") /\ Current(1)
    /\ m' = [m EXCEPT ![1] = WithRow(@, k, rows[k], versions[k])]
    /\ UNCHANGED <<table, ranged, behind, lags, frozen, clients, up, note, held, rows, versions,
                   floats, faults>>

\* The new shard refuses the row, and the copy does not look at the answer.
RowRefused(k) ==
    /\ k \in todo /\ todo' = todo \ {k}
    /\ Step("copy", "copy")
    /\ Fault("refuse")
    /\ UNCHANGED <<table, ranged, groups, frozen, clients, up, note, held, rows, versions, floats>>

Copied ==
    /\ Step("copy", "publish")
    /\ todo = {}
    /\ UNCHANGED <<table, ranged, groups, frozen, clients, up, split, floats, faults>>

\* _publish_split, and apply_split_locally once the table says so
TheSplit == Split(table, 0, 1, SplitAt, {}, NoAddresses)

PublishSplit ==
    /\ Step("publish", IF TheSplit.code = 0 THEN "forget" ELSE "idle")
    /\ table' = TheSplit.t
    /\ ranged' = (TheSplit.code = 0)
    /\ UNCHANGED <<groups, frozen, clients, up, split, floats, faults>>

\* The table's group answers late, or not at all: the proposal may still be applied.
PublishUnanswered ==
    /\ Step("publish", "idle")
    /\ Fault("table")
    /\ floats' = TRUE
    /\ UNCHANGED <<table, ranged, groups, frozen, clients, up, split>>

FloatLands ==
    /\ floats /\ floats' = FALSE
    /\ table' = TheSplit.t
    /\ UNCHANGED <<ranged, groupVars, split, pc>>

FloatDropped ==
    /\ floats /\ floats' = FALSE
    /\ UNCHANGED <<table, ranged, groupVars, split, pc>>

\* The pending split and its note go, then the freeze.
Forget ==
    /\ Step("forget", "thaw")
    /\ note' = FALSE /\ held' = "none" /\ rows' = NoRows /\ versions' = NoRows
    /\ UNCHANGED <<table, ranged, groups, frozen, clients, up, todo, floats, faults>>

Thaw ==
    /\ Step("thaw", "idle")
    /\ frozen' = FALSE
    /\ UNCHANGED <<table, ranged, groups, clients, up, split, floats, faults>>
-----------------------------------------------------------------------------
(* The process dies and comes back *)

Crash ==
    /\ GroupsCrash
    /\ pc' = "idle" /\ ranged' = FALSE /\ held' = "none"
    /\ rows' = NoRows /\ versions' = NoRows /\ todo' = {}
    /\ UNCHANGED <<table, note, floats>>

\* load_pending_splits: the note holds no rows.
Restart ==
    /\ ~up /\ up' = TRUE
    /\ held' = IF note THEN "loaded" ELSE "none"
    /\ UNCHANGED <<table, ranged, groups, frozen, clients, note, rows, versions, todo, pc,
                   floats, faults>>

\* _resume_split, of start-up or of recover_splits: freeze again, without a drain.
Resume ==
    /\ held # "none"
    /\ Step("idle", "look")
    /\ frozen' = TRUE
    /\ UNCHANGED <<table, ranged, groups, clients, up, split, floats, faults>>

\* A lock in the range: refused, and the source stays frozen.
ResumeRefused ==
    /\ Step("look", "idle")
    /\ ScanRefused(m[0], Key, 0)
    /\ UNCHANGED <<table, ranged, groups, frozen, clients, up, split, floats, faults>>

\* The rows, read through the leader's scan_versions
ResumeRows ==
    /\ SourceAnswers
    /\ Step("look", "lookup")
    /\ rows' = RowsIn(Right, m[0])
    /\ held' = "read"
    /\ UNCHANGED <<table, ranged, groups, frozen, clients, up, note, versions, todo, floats, faults>>

-----------------------------------------------------------------------------
Runner ==
    \/ Begin \/ Drained \/ CalledOff \/ NoLocks \/ ReadRows
    \/ SplitAgainAsked \/ Stopped \/ ReadVersions \/ Copied
    \/ PublishSplit \/ PublishUnanswered \/ Forget \/ Thaw
    \/ Resume \/ ResumeRefused \/ ResumeRows
    \/ \E k \in Key : MoveRow(k) \/ RowRefused(k)

Next ==
    \/ \E k \in Key : Client(k)
    \/ GroupStep \/ Runner
    \/ FloatLands \/ FloatDropped
    \/ Crash \/ Restart

Spec == Init /\ [][Next]_vars

(* Fairness: threads run, groups elect and commit, locks are cleaned, the process is
   restarted, and the operator asks again until the split is done.  Faults are finitely
   many. *)
Busy == {"drain", "locks", "rows", "lookup", "copy", "publish", "forget", "thaw", "look"}

LeaderCatchesUp == CatchUp /\ UNCHANGED splitVars
FlightLands == (\E c \in flight : Land(c)) /\ UNCHANGED splitVars
LockIsCleaned ==
    /\ \E k \in Key : RollBackLock(k, Owner(k)) \/ RollBackLock(k, MapOwner(k))
    /\ UNCHANGED splitVars

Fairness ==
    /\ \A s \in Busy : WF_vars(pc = s /\ Runner)
    /\ WF_vars(Restart) /\ WF_vars(Resume)
    /\ WF_vars(LeaderCatchesUp) /\ WF_vars(FlightLands) /\ WF_vars(LockIsCleaned)

FairSpec == Spec /\ Fairness

-----------------------------------------------------------------------------
(* Properties *)

\* Whoever the table names for a key shows the newest write a client was told is done, or
\* a newer one: "a range it hands out has to be a range whose data is already there".
AckedIsThere == \A k \in Key : ShowsAcked(Owner(k), k)

Store == INSTANCE KeyStore WITH
    val <- [k \in Key |-> ShownBy(Owner(k), k)],
    last <- [k \in Key |-> NewestAt(k)]

\* To a reader who follows the table the two groups are one store: copying rows, telling
\* the table and a resumed split change no value that is read.
SplitIsInvisible == Store!Spec

\* After the drain no row is on its way into the source ("every write that was under way
\* when the freeze went on has committed and applied").
DrainedIsApplied ==
    pc \in {"locks", "rows", "lookup", "copy", "publish"} =>
        \A c \in flight : c.to = 0 /\ c.kind \in {"set", "prewrite"} => c.by = "old"

\* A reader at an older timestamp is answered as before the split ("a shard that answers
\* for the row differently from the shard it came from is a shard the row cannot be
\* moved to").
SnapshotStays ==
    \A k \in Key : \A t \in 1 .. now :
        LET mine == m[Owner(k)]
            old == {a \in acked[k] : a.at <= t}
        IN  \/ old = {}
            \/ \E a \in old :
                 /\ \A b \in old : b.at <= a.at
                 /\ \/ ValueAt(mine, k, t).value = a.value
                    \/ \E v \in mine.row[k] : a.at < v.at /\ v.at <= t

\* A transaction that began before the newest acknowledged write of a key cannot prewrite
\* the key, wherever the key now lives (_apply_prewrite's conflict check).
ConflictsStay ==
    \A k \in Key : \A start \in 1 .. now :
        start < NewestAcked(k).at =>
            \/ NewestLock(m[Owner(k)], k) # {}
            \/ ApplyPrewrite(m[Owner(k)], k, CHOOSE v \in Value : TRUE, start, k).code = "conflict"

\* A frozen source is thawed in the end, whatever stopped the split on its way.
FreezeEnds == frozen ~> ~frozen

\* A split that has a note is finished in the end: the note goes (recover_splits).
NoteGoes == note ~> ~note

=============================================================================
