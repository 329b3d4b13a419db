-------------------------- MODULE TimestampOracle ---------------------------
(***************************************************************************)
(* The timestamp oracle (tso/tso.py and RemoteTSOClient of                 *)
(* client/remote_group_client.py).                                         *)
(*                                                                         *)
(* A Raft group applies ALLOCATE commands to a counter.  The group's log   *)
(* is taken as RaftNode leaves it: a sequence that only grows, which every *)
(* replica applies in order, from its snapshot after a restart.  A client  *)
(* takes a run of timestamps by one command and hands them out itself; the *)
(* servicer's GetTimestamp takes a run of one and answers with it.         *)
(***************************************************************************)
EXTENDS Integers, Sequences

CONSTANTS
    Client,       \* callers, each with a client of its own
    Direct,       \* those that ask the servicer for single timestamps
    Replica,      \* members of the oracle's group
    BatchSize,    \* timestamps to a run
    MaxLog,       \* bound: commands proposed
    MaxCrash      \* bound: restarts of replicas

ASSUME SizeAssumption ==
    /\ BatchSize \in Nat \ {0}
    /\ MaxLog \in Nat /\ MaxCrash \in Nat
    /\ Direct \subseteq Client /\ Replica # {}

VARIABLES
    log,       \* the sizes of the ALLOCATE commands the group has committed
    rep,       \* rep[r].applied: how far replica r is; rep[r].ts: its _current_ts
    saved,     \* saved[r]: its snapshot
    call,      \* call[c]: the command c waits for, and on which replica
    run,       \* run[c]: [start, end), what c may still hand out
    given,     \* given[c]: the timestamps c has been handed
    crashes    \* restarts so far

groupVars == <<log, rep, saved, crashes>>
clientVars == <<call, run, given>>
vars == <<groupVars, clientVars>>

None == [at |-> 0, on |-> CHOOSE r \in Replica : TRUE, single |-> FALSE]
Position == [applied : Nat, ts : Nat]

\* Every variable has its shape.
TypeOK ==
    /\ log \in Seq(Nat \ {0})
    /\ rep \in [Replica -> Position] /\ saved \in [Replica -> Position]
    /\ call \in [Client -> [at : Nat, on : Replica, single : BOOLEAN]]
    /\ run \in [Client -> [start : Nat, end : Nat]]
    /\ given \in [Client -> SUBSET Nat] /\ crashes \in Nat

Init ==
    /\ log = << >> /\ crashes = 0
    /\ rep = [r \in Replica |-> [applied |-> 0, ts |-> 0]]
    /\ saved = rep
    /\ call = [c \in Client |-> None]
    /\ run = [c \in Client |-> [start |-> 0, end |-> 0]]
    /\ given = [c \in Client |-> {}]

-----------------------------------------------------------------------------
(* The client *)

\* An ALLOCATE of `size` is proposed on r, and committed by the group.
Propose(c, r, size, single) ==
    /\ call[c].at = 0 /\ Len(log) < MaxLog
    /\ size >= 1
    /\ log' = Append(log, size)
    /\ call' = [call EXCEPT ![c] = [at |-> Len(log) + 1, on |-> r, single |-> single]]
    /\ UNCHANGED <<rep, saved, crashes, run, given>>

\* get_timestamp, when the run is used up: _fetch_batch.
FetchBatch(c, r) ==
    /\ c \notin Direct
    /\ run[c].start >= run[c].end
    /\ Propose(c, r, BatchSize, FALSE)

\* GetTimestamp of the servicer: a run of one.
FetchOne(c, r) == c \in Direct /\ Propose(c, r, 1, TRUE)

\* get_timestamp, when the run has some left.
GetTimestamp(c) ==
    /\ call[c].at = 0
    /\ run[c].start < run[c].end
    /\ given' = [given EXCEPT ![c] = @ \cup {run[c].start}]
    /\ run' = [run EXCEPT ![c].start = @ + 1]
    /\ UNCHANGED <<groupVars, call>>

\* The call times out or its node stops leading; the command stays in the log.
GiveUp(c) ==
    /\ call[c].at # 0
    /\ call' = [call EXCEPT ![c] = None]
    /\ UNCHANGED <<groupVars, run, given>>

-----------------------------------------------------------------------------
(* The group *)

MutantAllocated(ts, size) == [start |-> ts, end |-> ts + size]

\* _apply_allocate: the run is [ts + 1, ts + size], both ends included.
Allocated(ts, size) == [start |-> ts + 1, end |-> ts + size]

\* The caller's answer: GetTimestamp hands the first number on, a client keeps the run,
\* whose end is inclusive in the answer and one past the last in the client.
Answer(c, got) ==
    /\ call' = [call EXCEPT ![c] = None]
    /\ \/ /\ call[c].single
          /\ given' = [given EXCEPT ![c] = @ \cup {got.start}]
          /\ UNCHANGED run
       \/ /\ ~call[c].single
          /\ run' = [run EXCEPT ![c] = [start |-> got.start, end |-> got.end + 1]]
          /\ UNCHANGED given

Waits(c, r, i) == call[c].at = i /\ call[c].on = r

\* r applies its next command; the caller that waits for it on r has its answer.
Apply(r) ==
    LET i == rep[r].applied + 1
        got == Allocated(rep[r].ts, log[i])
    IN  /\ i <= Len(log)
        /\ rep' = [rep EXCEPT ![r] = [applied |-> i, ts |-> got.end]]
        /\ \/ /\ \A c \in Client : ~Waits(c, r, i)
              /\ UNCHANGED clientVars
           \/ \E c \in Client : Waits(c, r, i) /\ Answer(c, got)
        /\ UNCHANGED <<log, saved, crashes>>

\* snapshot: the counter as it is.
Snapshot(r) ==
    /\ saved[r] # rep[r]
    /\ saved' = [saved EXCEPT ![r] = rep[r]]
    /\ UNCHANGED <<log, rep, crashes, clientVars>>

\* A peer's snapshot that is ahead of r is installed: restore.
Install(r, q) ==
    /\ saved[q].applied > rep[r].applied
    /\ rep' = [rep EXCEPT ![r] = saved[q]]
    /\ saved' = [saved EXCEPT ![r] = saved[q]]
    /\ UNCHANGED <<log, crashes, clientVars>>

\* A caller still waits and a snapshot has covered its command: _propose_command
\* finds the index committed and no result, and answers success with no data, in which
\* the callers read a zero for each end of the run.
Overtaken(c) ==
    /\ call[c].at \in 1 .. rep[call[c].on].applied
    /\ Answer(c, [start |-> 0, end |-> 0])
    /\ UNCHANGED groupVars

MutantRestart(r) ==   \* the log is applied again to the counter it left behind
    /\ crashes < MaxCrash
    /\ crashes' = crashes + 1
    /\ rep' = [rep EXCEPT ![r].ts = 0]
    /\ UNCHANGED <<log, saved, clientVars>>

\* r restarts from its snapshot and applies the log again; its callers get no answer.
Restart(r) ==
    /\ crashes < MaxCrash
    /\ crashes' = crashes + 1
    /\ rep' = [rep EXCEPT ![r] = saved[r]]
    /\ call' = [c \in Client |-> IF call[c].on = r THEN None ELSE call[c]]
    /\ UNCHANGED <<log, saved, run, given>>

Next ==
    \/ \E c \in Client : GetTimestamp(c) \/ GiveUp(c) \/ Overtaken(c)
    \/ \E c \in Client, r \in Replica : FetchBatch(c, r) \/ FetchOne(c, r)
    \/ \E r \in Replica : Apply(r) \/ Snapshot(r) \/ Restart(r)
    \/ \E r, q \in Replica : Install(r, q)

Spec == Init /\ [][Next]_vars

-----------------------------------------------------------------------------
(* Properties *)

\* What a client may still hand out.
Held(c) == run[c].start .. (run[c].end - 1)

\* No timestamp is handed to two callers, and none a client still holds has been handed
\* out or is held by another: over commands whose caller gave up, replicas that apply the
\* log again from a snapshot, and answers from replicas that lag behind one another
\* (_apply_allocate, snapshot and restore; both clients' _fetch_batch).  The zero a client
\* takes for an answer that was lost is no timestamp of the oracle's.
HandedOnce ==
    \A c, d \in Client :
        /\ Held(c) \cap given[d] \subseteq {0}
        /\ c # d => given[c] \cap given[d] \subseteq {0} /\ Held(c) \cap Held(d) \subseteq {0}

\* A client's timestamps increase (get_timestamp of both clients), zeros aside.
Increasing ==
    [][\A c \in Client : \A t \in given'[c] \ given[c] :
          t # 0 => \A u \in given[c] : u < t]_vars

\* Nobody is ever handed a zero.  This does not hold (README, section 8).
NeverZero == \A c \in Client : 0 \notin given[c]

Promise == INSTANCE UniqueTimestamps WITH given <- [c \in Client |-> given[c] \ {0}]

\* The group, its replicas and the batches of its clients together hand out timestamps as
\* UniqueTimestamps says: each once, and rising for each client, zeros aside.
KeepsPromise == Promise!Spec
=============================================================================
