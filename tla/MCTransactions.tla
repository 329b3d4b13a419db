--------------------------- MODULE MCTransactions ---------------------------
(* Transactions for TLC: one behaviour per plan of TxPlans named in          *)
(* Scenarios, and, as the scenario "embedded", the transactions of the       *)
(* embedded database.                                                        *)
EXTENDS LocalDatabase, TxPlans

CONSTANT Scenarios

VARIABLES scenario, db, lag, clock, run, deal, mutex, res, get, del, crashes

txVars == <<db, lag, clock, run, deal, mutex, res, get, del, crashes>>

Tx(p) == INSTANCE Transactions WITH
    Key <- p.keys, Value <- p.txns, Nothing <- "nothing",
    Coordinator <- p.coordinators, Shard <- {"s1", "s2"},
    Getter <- p.getters, Deleter <- p.deleters, Sweeper <- "sweeper", Nobody <- "nobody",
    Home <- [t \in p.txns |-> IF t # "t1" /\ "c2" \in p.coordinators THEN "c2" ELSE "c1"],
    ReadsOf <- p.reads, WritesOf <- p.writes, KeyOf <- [g \in p.getters \cup p.deleters |-> "x"],
    ShardOf <- [k \in p.keys |-> IF k = "x" THEN "s1" ELSE "s2"],
    BatchSize <- p.batch, Timeouts <- p.timeouts, Retries <- p.retries, Expiry <- p.expiry,
    Lagging <- p.lagging, Attempts <- p.attempts, MaxCrash <- p.crashes, txn <- deal

Planned == Scenarios \ {"embedded"}
ASSUME \A s \in Planned : Tx(Plan[s])!PlanAssumption

ScenarioInit ==
    /\ LocalInit
    /\ \/ /\ scenario \in Scenarios \cap {"embedded"}
          /\ db = 0 /\ lag = 0 /\ clock = 0 /\ run = 0 /\ deal = 0
          /\ mutex = 0 /\ res = 0 /\ get = 0 /\ del = 0 /\ crashes = 0
       \/ \E s \in Planned : scenario = s /\ Tx(Plan[s])!Init

ScenarioNext ==
    \/ scenario = "embedded" /\ LocalNext /\ UNCHANGED <<scenario, txVars>>
    \/ \E s \in Planned : scenario = s /\ Tx(Plan[s])!Next /\ UNCHANGED <<scenario, localVars>>

ScenarioSpec == ScenarioInit /\ [][ScenarioNext]_<<scenario, localVars, txVars>>

-----------------------------------------------------------------------------
\* The plans of which the property p is claimed, if this behaviour is of one.
Claiming(p) == {s \in Planned \cap {scenario} : p \in Plan[s].claims}

\* Transactions!NoLostUpdate: of two transactions that wrote one key, the later began
\* after the earlier had committed (prewrite's conflict check).
NoLostUpdate == \A s \in Claiming("NoLostUpdate") : Tx(Plan[s])!NoLostUpdate

\* Transactions!WritesAreDecided and ReadsAreDecided: what is written on any key was decided
\* on the primary, at the same commit timestamp, and what was read was written by a
\* transaction that committed (commit, resolve_lock, read, SmartClient.get).
ShownIsDecided ==
    /\ \A s \in Claiming("WritesAreDecided") : Tx(Plan[s])!WritesAreDecided
    /\ \A s \in Claiming("ReadsAreDecided") : Tx(Plan[s])!ReadsAreDecided

\* Transactions!RepeatableRead: a snapshot read repeated in the same transaction returns
\* the same value (read).
RepeatableRead == \A s \in Claiming("RepeatableRead") : Tx(Plan[s])!RepeatableRead

\* Transactions!AllOrNothing: a committed transaction is on every key it writes, written
\* there or still locked to be rolled forward (resolve_lock, _rollback_all_shards).
AllOrNothing == \A s \in Claiming("AllOrNothing") : Tx(Plan[s])!AllOrNothing

\* Transactions!Serializable: the committed transactions have a serial order
\* (_validate_read_set).
Serializable == \A s \in Claiming("Serializable") : Tx(Plan[s])!Serializable

\* Transactions!DecisionStays: while a lock of a committed transaction is left, its record
\* is the newest of its primary (primary_status).
DecisionStays == \A s \in Claiming("DecisionStays") : Tx(Plan[s])!DecisionStays

\* Transactions!AbortedIsAborted: what the client was told was aborted did not commit
\* (commit).
AbortedIsAborted == \A s \in Claiming("AbortedIsAborted") : Tx(Plan[s])!AbortedIsAborted

\* Transactions!GetFindsValue: a get of a key that has had a value finds one
\* (SmartClient.get).
GetFindsValue == \A s \in Claiming("GetFindsValue") : Tx(Plan[s])!GetFindsValue

\* Transactions!KeepsPromise: the steps are steps of OneDecision; a transaction is decided
\* once, by its primary, shows nothing before, and its client is told what was decided.
KeepsPromise ==
    /\ \A s \in Claiming("KeepsPromise") : Tx(Plan[s])!Promise!Init
    /\ [][\A s \in Claiming("KeepsPromise") :
             [Tx(Plan[s])!Promise!Next]_(Tx(Plan[s])!Promise!vars)]_<<scenario, txVars>>
=============================================================================
