----------------------------- MODULE MCClients ------------------------------
(* The client's side for TLC: the reads of ClientReads, with the shard in its *)
(* place and while it moves; the walks of ShardWalk and of GroupWalk; and the *)
(* SQL executor.  A behaviour is of one of them and leaves the rest alone.    *)
EXTENDS ClientReads, TLC

CONSTANT Scenarios

VARIABLES
    scenario, leader, asked, elections,
    members, down, table, cached, hint, queue, walk, requests, changes,       \* ShardWalk
    calls, preferred, pending, answered, told, taken, refused, named,         \* GroupWalk
    rows, locked, select                                                      \* SqlExecutor

walkVars == <<members, down, table, cached, hint, queue, walk, requests, changes>>
callVars == <<calls, preferred, pending, answered, told, taken, refused, named>>
sqlVars == <<rows, locked, select>>

NoWalk ==
    /\ members = 0 /\ down = 0 /\ table = 0 /\ cached = 0 /\ hint = 0 /\ queue = 0
    /\ walk = 0 /\ requests = 0 /\ changes = 0
NoCall ==
    /\ calls = 0 /\ preferred = 0 /\ pending = 0 /\ answered = 0 /\ told = 0
    /\ taken = 0 /\ refused = 0 /\ named = 0
NoSql == rows = 0 /\ locked = 0 /\ select = 0

-----------------------------------------------------------------------------
Reading(moves, until) == INSTANCE ClientReads WITH Moves <- moves, MaxTime <- until

\* The scenarios of ShardWalk: nodes, the sets that may serve, threads and bounds.  The
\* last four are known differences (README, section 8).
Paths ==
    LET Path(n, sets, threads, most, turns) ==
            [node |-> n, sets |-> sets, thread |-> threads, most |-> most, turns |-> turns]
    IN  [walk |-> Path(1 .. 3, {{1, 2}, {2, 3}}, {"u"}, 2, 3),
         nameless |-> Path(1 .. 3, {{1, 2}, {2, 3}}, {"u"}, 2, 2),
         silence |-> Path(1 .. 3, {{1, 2}, {2, 3}}, {"u"}, 2, 2),
         twice |-> Path(1 .. 3, {{1, 2, 3}}, {"u"}, 1, 1),
         shared |-> Path(1 .. 2, {{1, 2}}, {"u", "v"}, 4, 0)]
Walking(w) == INSTANCE ShardWalk WITH
    Node <- w.node, Sets <- w.sets, Thread <- w.thread,
    MaxRequests <- w.most, MaxChanges <- w.turns

\* Three members, one of which is no seed.
Calling == INSTANCE GroupWalk WITH
    Member <- {"a", "b", "c"}, Seeds <- <<"a", "b">>,
    Silence <- TRUE, MaxElections <- 2, MaxCalls <- 2
ASSUME Calling!SeedsAssumption

\* Two shards, two replicas, two tables, and ids that are prefixes of one another.
Statements ==
    [sql |-> [ops |-> {">=", "<"}, elections |-> 0],
     elections |-> [ops |-> {">=", "<"}, elections |-> 1],
     \* known differences
     missing |-> [ops |-> {">=", "<"}, elections |-> 1],
     after |-> [ops |-> {">", "<="}, elections |-> 0],
     full |-> [ops |-> {"all"}, elections |-> 0]]
Home(k) == IF k = <<5, 1, 1>> THEN "s1" ELSE "s0"
Upper(t) == t - 2
Sql(s) == INSTANCE SqlExecutor WITH
    Shard <- <<"s0", "s1">>, Replica <- <<"n0", "n1">>, Id <- {<<1>>, <<1, 1>>},
    HomeOf <- Home, Table <- {5, 6}, UpperOf <- Upper, MaxByte <- 7, Ops <- s.ops,
    MaxElections <- s.elections

-----------------------------------------------------------------------------
ReadScenarios ==
    [reads |-> [moves |-> FALSE, until |-> 1], move |-> [moves |-> TRUE, until |-> 0],
     age |-> [moves |-> FALSE, until |-> 4]]
Within(f) == Scenarios \cap DOMAIN f

ScenarioInit ==
    /\ Init
    /\ \/ /\ scenario \in Within(ReadScenarios)
          /\ leader = 0 /\ asked = 0 /\ elections = 0 /\ NoWalk /\ NoCall /\ NoSql
       \/ \E s \in Within(Paths) :
             scenario = s /\ Walking(Paths[s])!Init /\ elections = 0 /\ NoCall /\ NoSql
       \/ scenario \in Scenarios \cap {"seeds"} /\ Calling!Init /\ NoWalk /\ NoSql
       \/ \E s \in Within(Statements) :
             scenario = s /\ Sql(Statements[s])!Init /\ asked = 0 /\ NoWalk /\ NoCall

ReadStep ==
    /\ \E s \in Within(ReadScenarios) :
          scenario = s /\ Reading(ReadScenarios[s].moves, ReadScenarios[s].until)!Next
    /\ UNCHANGED <<scenario, leader, asked, elections, walkVars, callVars, sqlVars>>
WalkStep ==
    /\ \E s \in Within(Paths) : scenario = s /\ Walking(Paths[s])!Next
    /\ UNCHANGED <<scenario, vars, elections, callVars, sqlVars>>
CallStep ==
    /\ scenario = "seeds" /\ Calling!Next
    /\ UNCHANGED <<scenario, vars, walkVars, sqlVars>>
SqlStep ==
    /\ \E s \in Within(Statements) : scenario = s /\ Sql(Statements[s])!Next
    /\ UNCHANGED <<scenario, vars, asked, walkVars, callVars>>

ScenarioNext == ReadStep \/ WalkStep \/ CallStep \/ SqlStep

ScenarioSpec ==
    ScenarioInit /\ [][ScenarioNext]_<<scenario, vars, leader, asked, elections,
                                       walkVars, callVars, sqlVars>>

-----------------------------------------------------------------------------
\* ClientReads!CachedIsBased, while the shard stays where it is: a cached read shows what
\* its kept index stood for (ReadIndexCache).
CachedReadsAreBased == scenario # "move" => CachedIsBased

\* ShardWalk!FindsLeader: a walk finds the leader that answers and is listed
\* (ask_shard, ShardLeaders.locate).
FindsLeader == \A s \in Within(Paths) : scenario = s => Walking(Paths[s])!FindsLeader

\* ShardWalk!FindsListed, whether or not the table names a leader.
FindsListed == \A s \in Within(Paths) : scenario = s => Walking(Paths[s])!FindsListed

\* ShardWalk!AskedOnce: no address is asked twice between two reads of the table.
AskedOnce == \A s \in Within(Paths) : scenario = s => Walking(Paths[s])!AskedOnce

\* ShardWalk!SilenceIsTold: a walk that asked a node does not end with None.
SilenceIsTold == \A s \in Within(Paths) : scenario = s => Walking(Paths[s])!SilenceIsTold

\* GroupWalk!RefusalIsHeard and AsksEverywhere: a refusal of the command itself is what the
\* caller hears, and giving up comes after every seed and every address named
\* (_GroupClient._ask).
CallsAreHeard == scenario = "seeds" => Calling!RefusalIsHeard /\ Calling!AsksEverywhere

\* GroupWalk!UnheardIsUnproposed: a call that heard nothing has proposed nothing.
UnheardIsUnproposed == scenario = "seeds" => Calling!UnheardIsUnproposed

\* SqlExecutor!SelectIsExact and SelectIsSound: SELECT returns the rows that hold while no
\* leader changes, and nothing else when leaders do (_select_range).
SelectsHold ==
    \A s \in Within(Statements) :
        scenario = s => /\ s # "elections" => Sql(Statements[s])!SelectIsExact
                        /\ Sql(Statements[s])!SelectIsSound

\* SqlExecutor!InsertedIsSelected: what INSERT answered for is found by SELECT.
InsertedIsSelected ==
    \A s \in Within(Statements) : scenario = s => Sql(Statements[s])!InsertedIsSelected

ThreadSymmetry == Permutations(Thread)
=============================================================================
