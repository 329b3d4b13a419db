----------------------------- MODULE MCStorage ------------------------------
(* What is stored, for TLC: the MVCC machine of MvccMachine; its rows in an   *)
(* ordered engine (MvccKeyspace); a Raft node's durable state on an engine    *)
(* (EngineRaftStorage) and in JSON files (JSONFileStorage).  A behaviour is   *)
(* of one of them and leaves the rest alone.                                  *)
EXTENDS MvccMachine, Sequences, TLC

CONSTANTS Scenarios, Node, None, Torn

VARIABLES scenario, kv, machine, mem, metaFile, logFile, snapshotFile, adminFile, step, kept

files == <<metaFile, logFile, snapshotFile, adminFile, step, kept>>
NoFiles ==
    /\ metaFile = 0 /\ logFile = 0 /\ snapshotFile = 0 /\ adminFile = 0
    /\ step = 0 /\ kept = 0

-----------------------------------------------------------------------------
\* Keys that are prefixes of one another, and timestamps whose bytes have zeros and the
\* largest digit in them.
Rows == INSTANCE MvccKeyspace WITH
    Key <- {<<1>>, <<1, 1>>, <<1, 2>>}, MaxByte <- 2, Width <- 2,
    Stamps <- {0, 2, 3, 8}, MaxRows <- 3
ASSUME Rows!KeyAssumption /\ Rows!MaxTs = 8

OnEngine == INSTANCE EngineRaftStorage WITH
    Note <- {1}, Snapshots <- TRUE, MaxTerm <- 2, MaxIndex <- 3

\* When a term may be saved after a snapshot, and when the process may die while one is
\* saved; the second and the third are known differences (README, section 8).
Filed == [json |-> [late |-> FALSE, crash |-> FALSE], jsonMeta |-> [late |-> TRUE, crash |-> FALSE],
          jsonTorn |-> [late |-> FALSE, crash |-> TRUE]]
InFiles(f) == INSTANCE JSONFileStorage WITH
    Note <- {1}, Snapshots <- TRUE, LateMeta <- f.late, CrashInSave <- f.crash,
    MaxTerm <- 2, MaxIndex <- 3
Within == Scenarios \cap DOMAIN Filed
ASSUME OnEngine!StorageAssumption /\ \A s \in Within : InFiles(Filed[s])!FaultAssumption

-----------------------------------------------------------------------------
ScenarioInit ==
    /\ MachineInit
    /\ \/ /\ scenario \in Scenarios \cap {"machine"}
          /\ kv = 0 /\ machine = 0 /\ mem = 0 /\ NoFiles
       \/ scenario \in Scenarios \cap {"rows"} /\ Rows!Init /\ mem = 0 /\ NoFiles
       \/ scenario \in Scenarios \cap {"engine"} /\ OnEngine!Init /\ machine = 0 /\ NoFiles
       \/ \E s \in Within : scenario = s /\ InFiles(Filed[s])!Init /\ kv = 0 /\ machine = 0

MachineStep ==
    scenario = "machine" /\ MachineNext /\ UNCHANGED <<scenario, kv, machine, mem, files>>
RowStep == scenario = "rows" /\ Rows!Next /\ UNCHANGED <<scenario, m, mem, files>>
EngineStep == scenario = "engine" /\ OnEngine!Next /\ UNCHANGED <<scenario, m, machine, files>>
FileStep ==
    /\ \E s \in Within : scenario = s /\ InFiles(Filed[s])!Next
    /\ UNCHANGED <<scenario, m, kv, machine>>

ScenarioNext == MachineStep \/ RowStep \/ EngineStep \/ FileStep

ScenarioSpec ==
    ScenarioInit /\ [][ScenarioNext]_<<scenario, m, kv, machine, mem, files>>

-----------------------------------------------------------------------------
\* MvccKeyspace!ReadsNewest, ReadsOwnRows and ScanIsReads: a key's range of the engine holds
\* the rows of that key and of no other, the row it finds for a read is the version the
\* machine would return, and a range scan returns what a read of each key would
\* (_key_upper_bound, make_ts_suffix, read_version_at, scan_versions).
RowsAreVersions ==
    scenario = "rows" => Rows!ReadsNewest /\ Rows!ReadsOwnRows /\ Rows!ScanIsReads

\* EngineRaftStorage!RebuildsCommitted and JSONFileStorage!RebuildsCommitted: a node that
\* dies between any two calls finds every committed entry, in the snapshot or in the log
\* (_maybe_snapshot, compact_log).
RebuildsCommitted ==
    /\ scenario = "engine" => OnEngine!RebuildsCommitted
    /\ \A s \in Within : scenario = s => InFiles(Filed[s])!RebuildsCommitted

\* EngineRaftStorage!KeepsContract and JSONFileStorage!KeepsContract: on an engine and in
\* files, each load answers with what was saved last (RaftStorage).
LoadsAnswerSaves ==
    /\ scenario = "engine" => OnEngine!Contract!Init
    /\ \A s \in Within : scenario = s => InFiles(Filed[s])!Contract!Init
    /\ [][/\ scenario = "engine" => [OnEngine!Contract!Next]_(OnEngine!Contract!vars)
          /\ \A s \in Within : scenario = s =>
                [InFiles(Filed[s])!Contract!Next]_(InFiles(Filed[s])!Contract!vars)
         ]_<<scenario, mem, kv, files>>

\* JSONFileStorage!SnapshotIsLoaded: a snapshot that was saved is loaded.
SnapshotIsLoaded == \A s \in Within : scenario = s => InFiles(Filed[s])!SnapshotIsLoaded

\* JSONFileStorage!PayloadIsOfIndex: the payload that is loaded is of the index with it.
PayloadIsOfIndex == \A s \in Within : scenario = s => InFiles(Filed[s])!PayloadIsOfIndex

Symmetry == Permutations(Key)
=============================================================================
