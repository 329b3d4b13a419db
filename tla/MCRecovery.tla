----------------------------- MODULE MCRecovery -----------------------------
(* Splits and moves for TLC: SplitShard with two keys, one on either side of  *)
(* the split key, and Migration with one key and one node on either side.     *)
(* A scenario has its faults and bounds and the properties claimed of it; a   *)
(* behaviour keeps to the scenario it begins with.                            *)
EXTENDS Integers, FiniteSets, TLC

CONSTANTS Scenarios, Values, Nothing, Nobody

VARIABLES
    scenario,
    m, behind, lags, frozen, flight, now, up, faults, acked, landed, locked,   \* ShardGroups
    table, note, held, rows, versions, todo, pc, floats,                       \* both
    ranged,                                                                    \* SplitShard
    placed, config, open, aside, expects, term, pub                            \* Migration

moveOnly == <<placed, config, open, aside, expects, term, pub>>
vars == <<scenario, m, behind, lags, frozen, flight, now, up, faults, acked, landed, locked,
          table, note, held, rows, versions, todo, pc, floats, ranged, moveOnly>>

-----------------------------------------------------------------------------
Calm == [faults |-> {}, values |-> Values, time |-> 3, most |-> 2, flight |-> 1, claims |-> {}]
Usual == {"crash", "table", "stop", "txn"}
SplitFaults == Usual \cup {"late", "lag", "refuse", "early", "again"}
MoveFaults == Usual \cup {"late", "lag", "timeout"}

Plain(b) == [b EXCEPT !.values = {"a"}]
Narrow(b) == [Plain(b) EXCEPT !.flight = 1]

Splits ==
    LET S(which, time, claims) ==
            [Calm EXCEPT !.faults = which, !.time = time, !.flight = 2, !.claims = claims]
    IN  [split |-> S(Usual \cup {"late"}, 3, {"AckedIsThere"}),
         splitStore |-> Plain(S(Usual, 3, {"StoreIsOne"})),
         splitEnds |-> Narrow(S(SplitFaults, 2, {})),
         splitBusy |-> [Narrow(S(SplitFaults, 3, {})) EXCEPT !.most = 1],
         \* known differences (README, section 8)
         splitAgain |-> S({"crash", "again"}, 4, {"AckedIsThere"}),
         splitRefuse |-> S({"refuse"}, 4, {"AckedIsThere"}),
         splitEarly |-> S({"crash", "early"}, 4, {"AckedIsThere"}),
         splitLag |-> S({"lag"}, 4, {"AckedIsThere"}),
         splitLate |-> S({"late"}, 4, {"DrainedIsApplied"}),
         splitHistory |-> S({}, 4, {"SnapshotStays"}),
         splitTombstone |-> S({}, 4, {"ConflictsStay"})]

Moves ==
    LET M(which, time, claims) ==
            [Calm EXCEPT !.faults = which, !.time = time, !.claims = claims]
    IN  [move |-> M(Usual \cup {"late"}, 3, {"AckedIsThere", "LeftIsLeft"}),
         moveStore |-> Plain(M(Usual, 3, {"StoreIsOne"})),
         moveEnds |-> Plain(M(MoveFaults, 2, {})),
         moveBusy |-> [Plain(M(MoveFaults, 3, {})) EXCEPT !.most = 1],
         moveLeader |-> Plain(M({"crash", "table", "stop", "term"}, 1, {"LeaderIsNamed"})),
         \* known differences (README, section 8)
         moveTimeout |-> M({"timeout"}, 3, {"AckedIsThere"}),
         moveWindow |-> M({"crash", "window"}, 3, {"AckedIsThere"}),
         moveRace |-> M({"race", "crash"}, 3, {"AckedIsThere"}),
         moveLag |-> M({"lag"}, 3, {"AckedIsThere"}),
         movePublished |-> M({"race"}, 3, {"LeftIsLeft"}),
         moveStuck |-> [Plain(M({"crash", "unpublished"}, 1, {})) EXCEPT !.most = 1]]

Split(b) == INSTANCE SplitShard WITH
    Key <- {1, 2}, Value <- b.values, Group <- {0, 1}, Source <- 0,
    Shard <- {0, 1}, Node <- {}, Address <- {}, SplitAt <- 2, End <- 3,
    Faults <- b.faults, MaxTime <- b.time, MaxFaults <- b.most, MaxFlight <- b.flight
Move(b) == INSTANCE Migration WITH
    Key <- {0}, Value <- b.values, Group <- {"src", "dst"}, Source <- "src", Target <- "dst",
    Shard <- {0}, Node <- {"src", "dst"}, Address <- {"there"}, Where <- "there", MaxTerm <- 2,
    Faults <- b.faults, MaxTime <- b.time, MaxFaults <- b.most, MaxFlight <- b.flight

SplitScenarios == Scenarios \cap DOMAIN Splits
MoveScenarios == Scenarios \cap DOMAIN Moves
ASSUME \A s \in SplitScenarios :
          Split(Splits[s])!SourceAssumption /\ Split(Splits[s])!SplitAssumption
ASSUME \A s \in MoveScenarios :
          Move(Moves[s])!SourceAssumption /\ Move(Moves[s])!MoveAssumption

-----------------------------------------------------------------------------
Init ==
    \/ /\ \E s \in SplitScenarios : scenario = s /\ Split(Splits[s])!Init
       /\ placed = 0 /\ config = 0 /\ open = 0 /\ aside = 0 /\ expects = 0
       /\ term = 0 /\ pub = 0
    \/ /\ \E s \in MoveScenarios : scenario = s /\ Move(Moves[s])!Init
       /\ ranged = FALSE

SplitStep ==
    /\ \E s \in SplitScenarios : scenario = s /\ Split(Splits[s])!Next
    /\ UNCHANGED <<scenario, moveOnly>>
MoveStep ==
    /\ \E s \in MoveScenarios : scenario = s /\ Move(Moves[s])!Next
    /\ UNCHANGED <<scenario, ranged>>

Next == SplitStep \/ MoveStep

Spec == Init /\ [][Next]_vars

-----------------------------------------------------------------------------
(* The fairness of SplitShard and of Migration: threads run, groups elect and commit, locks
   are cleaned, the process is restarted, the operator asks again, and the publisher's
   thread comes round.  Faults are finitely many. *)
InSplit(s) == scenario = s /\ UNCHANGED <<scenario, moveOnly>>
InMove(s) == scenario = s /\ UNCHANGED <<scenario, ranged>>

Runner ==
    \/ \E s \in SplitScenarios : InSplit(s) /\ Split(Splits[s])!Runner
    \/ \E s \in MoveScenarios : InMove(s) /\ Move(Moves[s])!Runner
Resume ==
    \/ \E s \in SplitScenarios : InSplit(s) /\ Split(Splits[s])!Resume
    \/ \E s \in MoveScenarios : InMove(s) /\ Move(Moves[s])!Resume
Restart ==
    \/ \E s \in SplitScenarios : InSplit(s) /\ Split(Splits[s])!Restart
    \/ \E s \in MoveScenarios : InMove(s) /\ Move(Moves[s])!Restart
Publisher == \E s \in MoveScenarios : InMove(s) /\ Move(Moves[s])!Publisher
CatchUp ==
    \/ \E s \in SplitScenarios : InSplit(s) /\ Split(Splits[s])!LeaderCatchesUp
    \/ \E s \in MoveScenarios : InMove(s) /\ Move(Moves[s])!LeaderCatchesUp
Land ==
    \/ \E s \in SplitScenarios : InSplit(s) /\ Split(Splits[s])!FlightLands
    \/ \E s \in MoveScenarios : InMove(s) /\ Move(Moves[s])!FlightLands
Clean ==
    \/ \E s \in SplitScenarios : InSplit(s) /\ Split(Splits[s])!LockIsCleaned
    \/ \E s \in MoveScenarios : InMove(s) /\ Move(Moves[s])!LockIsCleaned

Busy == Split(Calm)!Busy \cup Move(Calm)!Busy

Fairness ==
    /\ \A at \in Busy : WF_vars(pc = at /\ Runner)
    /\ WF_vars(Restart) /\ WF_vars(Resume) /\ WF_vars(Publisher)
    /\ WF_vars(CatchUp) /\ WF_vars(Land) /\ WF_vars(Clean)

FairSpec == Spec /\ Fairness

-----------------------------------------------------------------------------
SplitClaiming(p) == {s \in SplitScenarios \cap {scenario} : p \in Splits[s].claims}
MoveClaiming(p) == {s \in MoveScenarios \cap {scenario} : p \in Moves[s].claims}

\* SplitShard!AckedIsThere, Migration!AckedIsThere: whoever the table names for a key shows
\* the newest write a client was told is done, or a newer one (finish_split, finish_move).
AckedIsThere ==
    /\ \A s \in SplitClaiming("AckedIsThere") : Split(Splits[s])!AckedIsThere
    /\ \A s \in MoveClaiming("AckedIsThere") : Move(Moves[s])!AckedIsThere

\* SplitShard!DrainedIsApplied: after the drain no row is on its way into the source
\* (wait_for_writes_to_drain).
DrainedIsApplied ==
    \A s \in SplitClaiming("DrainedIsApplied") : Split(Splits[s])!DrainedIsApplied

\* SplitShard!SnapshotStays: a reader at an older timestamp is answered as before.
SnapshotStays == \A s \in SplitClaiming("SnapshotStays") : Split(Splits[s])!SnapshotStays

\* SplitShard!ConflictsStay: a transaction older than an acknowledged write is refused.
ConflictsStay == \A s \in SplitClaiming("ConflictsStay") : Split(Splits[s])!ConflictsStay

\* Migration!LeftGroupIsShut and RemembersServing: once the table names the new group, the
\* one that was left takes no rows (_commit_move), and what the publisher remembers is about
\* the group that serves the shard (forget_leader).
LeftIsLeft ==
    \A s \in MoveClaiming("LeftIsLeft") :
        Move(Moves[s])!LeftGroupIsShut /\ Move(Moves[s])!RemembersServing

\* SplitShard!SplitIsInvisible, Migration!MoveIsInvisible: to a reader who follows the table
\* the two groups are one store, KeyStore (_copy_rows, publish_split, _commit_move).
StoreIsOne ==
    /\ \A s \in SplitClaiming("StoreIsOne") : Split(Splits[s])!Store!Init
    /\ \A s \in MoveClaiming("StoreIsOne") : Move(Moves[s])!Store!Init
    /\ [][/\ \A s \in SplitClaiming("StoreIsOne") :
                [Split(Splits[s])!Store!Next]_(Split(Splits[s])!Store!vars)
          /\ \A s \in MoveClaiming("StoreIsOne") :
                [Move(Moves[s])!Store!Next]_(Move(Moves[s])!Store!vars)]_vars

\* FreezeEnds, NoteGoes and LeaderIsNamed of SplitShard and Migration: a frozen shard is
\* thawed in the end, or its group closed, whatever stopped the work; what has a note is
\* finished or given up; and the table names the leader of the group that serves the shard,
\* again and again (thaw_writes, recover_splits, recover_migrations, _publish_leader).
RecoveryEnds ==
    /\ frozen ~> ~frozen
    /\ note ~> ~note
    /\ []<>(\A s \in MoveClaiming("LeaderIsNamed") : table.at[0].leader = Move(Moves[s])!Owner)

ValueSymmetry == Permutations(Values)
=============================================================================
