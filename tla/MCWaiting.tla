----------------------------- MODULE MCWaiting ------------------------------
(* What must end, for TLC: the locks and transactions of Transactions, with   *)
(* a coordinator that stops; the walks of two threads through the routing     *)
(* table that they share (ShardWalk); the calls of a client of a group        *)
(* (GroupWalk).  A behaviour is of one of them and leaves the rest alone.     *)
EXTENDS TxPlans

VARIABLES
    part, leader, asked,
    db, lag, clock, run, txn, mutex, res, get, del, crashes,                  \* Transactions
    members, down, table, cached, hint, queue, walk, requests, changes,       \* ShardWalk
    elections, calls, preferred, pending, answered, told, taken, refused, named  \* GroupWalk

txVars == <<db, lag, clock, run, txn, mutex, res, get, del, crashes>>
walkVars == <<members, down, table, cached, hint, queue, walk, requests, changes>>
callVars == <<elections, calls, preferred, pending, answered, told, taken, refused, named>>
vars == <<part, leader, asked, txVars, walkVars, callVars>>

NoTx ==
    /\ db = 0 /\ lag = 0 /\ clock = 0 /\ run = 0 /\ txn = 0
    /\ mutex = 0 /\ res = 0 /\ get = 0 /\ del = 0 /\ crashes = 0
NoWalk ==
    /\ members = 0 /\ down = 0 /\ table = 0 /\ cached = 0 /\ hint = 0 /\ queue = 0
    /\ walk = 0 /\ requests = 0 /\ changes = 0
NoCall ==
    /\ elections = 0 /\ calls = 0 /\ preferred = 0 /\ pending = 0 /\ answered = 0
    /\ told = 0 /\ taken = 0 /\ refused = 0 /\ named = 0

Locks == INSTANCE Transactions WITH
    Key <- {"x", "y"}, Value <- {"t1", "t2"}, Nothing <- "nothing",
    Coordinator <- {"c1", "c2"}, Shard <- {"s1", "s2"}, Getter <- {}, Deleter <- {},
    Sweeper <- "sweeper", Nobody <- "nobody", Home <- [t1 |-> "c1", t2 |-> "c2"],
    ReadsOf <- Plan.snapshot.reads, WritesOf <- Plan.snapshot.writes, KeyOf <- << >>,
    ShardOf <- [x |-> "s1", y |-> "s2"], BatchSize <- 1,
    Timeouts <- FALSE, Retries <- FALSE, Expiry <- TRUE, Lagging <- FALSE,
    Attempts <- 2, MaxCrash <- 1

Threads == {"u", "v"}
Walks == INSTANCE ShardWalk WITH
    Node <- {1, 2}, Sets <- {{1, 2}}, Thread <- Threads, Nobody <- 0,
    MaxRequests <- 2, MaxChanges <- 0

Calls == INSTANCE GroupWalk WITH
    Member <- {"a", "b", "c"}, Seeds <- <<"a", "b">>, Nobody <- "nobody",
    Silence <- TRUE, MaxElections <- 1, MaxCalls <- 2

\* The table names the first node, whoever leads.
Init ==
    \/ part = "locks" /\ Locks!Init /\ leader = 0 /\ asked = 0 /\ NoWalk /\ NoCall
    \/ part = "walks" /\ Walks!Init /\ table.leader = 1 /\ NoTx /\ NoCall
    \/ part = "calls" /\ Calls!Init /\ NoTx /\ NoWalk

OfLocks == part = "locks" /\ UNCHANGED <<part, leader, asked, walkVars, callVars>>
OfWalks == part = "walks" /\ UNCHANGED <<part, txVars, callVars>>
OfCalls == part = "calls" /\ UNCHANGED <<part, txVars, walkVars>>

Next == (OfLocks /\ Locks!Next) \/ (OfWalks /\ Walks!Next) \/ (OfCalls /\ Calls!Next)

\* The fairness of Transactions, of ShardWalk and of GroupWalk: a thread goes on, its calls
\* have deadlines; the sweep runs again and again; a lock's TTL passes.
Fairness ==
    /\ \A t \in {"t1", "t2"} : /\ WF_vars(OfLocks /\ Locks!TxnStep(t))
                               /\ WF_vars(OfLocks /\ Locks!ResolverStep(t))
    /\ WF_vars(OfLocks /\ Locks!ResolverStep("sweeper"))
    /\ WF_vars(OfLocks /\ \E k \in {"x", "y"} : Locks!Sweep(k))
    /\ \A k \in {"x", "y"} : WF_vars(OfLocks /\ Locks!Expire(k))
    /\ \A p \in Threads : WF_vars(OfWalks /\ Walks!Step(p))
    /\ WF_vars(OfCalls /\ Calls!Step)

FairSpec == Init /\ [][Next]_vars /\ Fairness

-----------------------------------------------------------------------------
Locked == part = "locks" /\ \E k \in {"x", "y"} : Locks!At(k).lock[k] # {}

\* Somebody has asked for something and is not done: a transaction that has begun and whose
\* process has not stopped, a request on its way to a shard, a call to a group.
Waiting ==
    \/ /\ part = "locks"
       /\ \E t \in {"t1", "t2"} :
             txn[t].pc \notin {"new", "secondary", "done", "raised", "dead"}
    \/ part = "walks" /\ \E p \in Threads : walk[p].pc # "idle"
    \/ part = "calls" /\ told = "asking"

\* Transactions!LocksAreSettled and TransactionsEnd, ShardWalk!WalkEnds, GroupWalk!WalkEnds:
\* no lock stays for ever, also when its coordinator has stopped (_clean_expired_locks), and
\* every wait ends, for a lock or for _commit_lock, on a round of addresses that another
\* thread also changes (ShardLeaders), and however the members name one another
\* (_GroupClient._ask).
WaitsEnd == (Locked ~> ~Locked) /\ (Waiting ~> ~Waiting)
=============================================================================
