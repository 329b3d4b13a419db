------------------------------ MODULE TxPlans -------------------------------
(* Small worlds for Transactions, by name: who reads and writes what, which  *)
(* faults may happen, and the properties that are claimed of each.           *)
EXTENDS Naturals, Sequences

Basic ==
    [keys |-> {"x", "y"}, txns |-> {"t1", "t2"}, coordinators |-> {"c1", "c2"},
     getters |-> {}, deleters |-> {}, reads |-> << >>, writes |-> << >>, batch |-> 1,
     timeouts |-> FALSE, retries |-> FALSE, expiry |-> FALSE, lagging |-> FALSE,
     attempts |-> 2, crashes |-> 0, claims |-> {}]

Both(b, r1, w1, r2, w2) ==
    [b EXCEPT !.reads = [t1 |-> r1, t2 |-> r2], !.writes = [t1 |-> w1, t2 |-> w2]]

\* t1 writes both keys; t2 reads the second, and writes both the other way round.
Cross(b) == Both(b, {}, <<"x", "y">>, {"y"}, <<"y", "x">>)
\* Both write both keys, the other way round, and read nothing.
Swap(b) == Both(b, {}, <<"x", "y">>, {}, <<"y", "x">>)
\* t1 writes both keys; t2 only reads them.
Watch(b) == Both(b, {}, <<"x", "y">>, {"x", "y"}, << >>)
\* t1 writes both keys; t2 writes the first again, and reads nothing.
Again(b) == Both(b, {}, <<"x", "y">>, {}, <<"x">>)
\* Two doctors: each reads both keys and writes one.
Doctor(b) == Both(b, {"x", "y"}, <<"x">>, {"x", "y"}, <<"y">>)
\* Each reads what the other writes; what t1 reads, t2 writes as a secondary.
Skew(b) == [Both(b, {"x"}, <<"z">>, {"z"}, <<"y", "x">>) EXCEPT !.keys = {"x", "y", "z"}]
\* t1 writes the first key; t2 reads it.
One(b) == Both(b, {}, <<"x">>, {"x"}, << >>)
\* Three transactions each write the first key.
Row(b) == [b EXCEPT !.txns = {"t1", "t2", "t3"}, !.reads = [t \in {"t1", "t2", "t3"} |-> {}],
                    !.writes = [t \in {"t1", "t2", "t3"} |-> <<"x">>]]

Alone(b) == [b EXCEPT !.coordinators = {"c1"}, !.batch = 2]
Claims(b, ps) == [b EXCEPT !.claims = ps]

Plan ==
    [faults |-> Claims([Again(Basic) EXCEPT !.timeouts = TRUE, !.expiry = TRUE,
                                            !.attempts = 1],
                       {"NoLostUpdate", "WritesAreDecided"}),
     retry |-> Claims([Cross(Basic) EXCEPT !.timeouts = TRUE, !.retries = TRUE],
                      {"NoLostUpdate", "WritesAreDecided"}),
     crash |-> Claims([Swap(Basic) EXCEPT !.batch = 2, !.crashes = 1],
                      {"AllOrNothing", "KeepsPromise"}),
     decision |-> Claims([Again(Basic) EXCEPT !.batch = 2, !.expiry = TRUE, !.crashes = 1],
                         {"KeepsPromise"}),
     snapshot |-> Claims([Watch(Basic) EXCEPT !.expiry = TRUE, !.crashes = 1],
                         {"RepeatableRead"}),
     solo |-> Claims([Watch(Alone(Basic)) EXCEPT !.expiry = TRUE, !.crashes = 1],
                     {"RepeatableRead"}),
     doctors |-> Claims([Doctor(Alone(Basic)) EXCEPT !.expiry = TRUE, !.crashes = 1],
                        {"Serializable"}),
     plain |-> Claims([Watch(Alone(Basic)) EXCEPT !.getters = {"g"}, !.deleters = {"d"}],
                      {"ReadsAreDecided"}),
     lookup |-> Claims([One(Alone(Basic)) EXCEPT !.getters = {"g"}, !.deleters = {"d"},
                                                 !.expiry = TRUE],
                       {"ReadsAreDecided"}),
     stale |-> Claims([Cross(Alone(Basic)) EXCEPT !.lagging = TRUE], {"ReadsAreDecided"}),
     \* what the code does not keep
     race |-> Claims(Watch(Basic), {"AllOrNothing"}),
     overwritten |-> Claims(Again(Basic), {"DecisionStays"}),
     timeout |-> Claims([Swap(Basic) EXCEPT !.timeouts = TRUE, !.attempts = 1],
                        {"AbortedIsAborted"}),
     twice |-> Claims([Again(Basic) EXCEPT !.retries = TRUE, !.attempts = 1],
                      {"AbortedIsAborted"}),
     skew |-> Claims([Skew(Alone(Basic)) EXCEPT !.batch = 1], {"Serializable"}),
     batches |-> Claims([One(Basic) EXCEPT !.batch = 2], {"RepeatableRead"}),
     delete |-> Claims([One(Basic) EXCEPT !.deleters = {"d"}], {"RepeatableRead"}),
     get |-> Claims([Row(Basic) EXCEPT !.getters = {"g"}], {"GetFindsValue"}),
     behind |-> Claims([Doctor(Alone(Basic)) EXCEPT !.batch = 1, !.lagging = TRUE],
                       {"Serializable"})]
=============================================================================
