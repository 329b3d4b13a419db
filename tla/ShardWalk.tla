----------------------------- MODULE ShardWalk ------------------------------
(***************************************************************************)
(* How a client finds the leader of a shard: ask_shard and ShardLeaders of *)
(* client/routing.py over the routing table of metadata/cache.py.          *)
(*                                                                         *)
(* The threads of a client share one ShardLeaders: the address a refusal   *)
(* named, the replicas that are queued, the addresses that have been       *)
(* asked, and the copy of the table.  A node's address is the node; the    *)
(* client reaches nodes by address (RemoteNodeClientFactory).              *)
(***************************************************************************)
EXTENDS Naturals, Sequences, SequencesExt

CONSTANTS
    Node,          \* the nodes, which are numbers: the table lists them in order
    Sets,          \* the sets of nodes that may serve the shard
    Thread,        \* the threads of the client
    Nobody,        \* no node
    MaxRequests,   \* bound: requests of a behaviour
    MaxChanges     \* bound: elections, deaths and moves

VARIABLES
    members,   \* the nodes that serve the shard
    leader,    \* the one that leads it
    down,      \* the nodes that do not answer
    table,     \* the routing table: the shard's nodes and its leader
    cached,    \* RoutingCache._table
    hint,      \* _hints: the address a refusal named
    queue,     \* _queued: the replicas that are still to be asked
    asked,     \* _asked: the addresses that have been asked
    walk,      \* walk[p]: the request of thread p
    requests,  \* requests so far, against their bound
    changes    \* changes of the group so far, against theirs

group == <<members, leader, down, table, changes>>
round == <<hint, queue, asked>>
vars == <<group, cached, round, walk, requests>>

\* A request: its step; whether any member will do; the address it is at; what a refusal
\* named; the table reads it has left; how the last attempt ended; its answer.  The rest is
\* history: what it has asked since it last read the table, whether it asked an address
\* again, whether the group has stood still, and whether the table has named a leader.
Idle == [pc |-> "idle", any |-> FALSE, at |-> Nobody, said |-> Nobody, reads |-> 0,
         last |-> "none", answer |-> "-",
         been |-> {}, again |-> FALSE, steady |-> FALSE, named |-> FALSE]

Init ==
    /\ members \in Sets
    /\ leader \in members \cup {Nobody}
    /\ down = {}
    /\ table \in [nodes : {members}, leader : members]
    /\ cached = table
    /\ hint = Nobody /\ queue = <<>> /\ asked = {}
    /\ walk = [p \in Thread |-> Idle]
    /\ requests = 0 /\ changes = 0

-----------------------------------------------------------------------------
(* The group and the table meanwhile *)

Findable(ldr, dead, t) == ldr # Nobody /\ ldr \notin dead /\ ldr \in t.nodes

\* What the walks under way can say of a change
Noted ==
    walk' = [p \in Thread |->
        IF walk[p].pc = "idle" THEN walk[p]
        ELSE [walk[p] EXCEPT
                !.steady = @ /\ leader' = leader /\ Findable(leader', down', table'),
                !.named = @ /\ table'.leader # Nobody]]

Change == changes < MaxChanges /\ changes' = changes + 1

Elect(n) ==
    /\ Change
    /\ n \in members \ (down \cup {leader}) /\ leader' = n
    /\ UNCHANGED <<members, down, table, cached, round, requests>>
    /\ Noted

Die(n) ==
    /\ Change
    /\ n \notin down /\ down' = down \cup {n}
    /\ leader' = IF n = leader THEN Nobody ELSE leader
    /\ UNCHANGED <<members, table, cached, round, requests>>
    /\ Noted

\* move_shard names the new set, and nobody as its leader.
Move(set) ==
    /\ Change
    /\ set # members /\ members' = set
    /\ leader' \in set \ down
    /\ table' = [nodes |-> set, leader |-> Nobody]
    /\ UNCHANGED <<down, cached, round, requests>>
    /\ Noted

Publish ==
    /\ leader \in table.nodes /\ table.leader # leader
    /\ table' = [table EXCEPT !.leader = leader]
    /\ UNCHANGED <<members, leader, down, changes, cached, round, requests>>
    /\ Noted

-----------------------------------------------------------------------------
(* ShardLeaders *)

Go(p, r) == walk' = [walk EXCEPT ![p] = r]

\* A request that is answered leaves its answer, and what the properties say of it.
End(p, r, answer) ==
    Go(p, [Idle EXCEPT !.answer = answer, !.last = r.last, !.again = r.again,
                       !.steady = r.steady, !.named = r.named])

\* ask_shard, with the caller's own pick (_member_to_ask) or without one
Begin(p) ==
    /\ walk[p].pc = "idle" /\ requests < MaxRequests
    /\ requests' = requests + 1
    /\ LET r == [Idle EXCEPT !.reads = 1, !.named = table.leader # Nobody /\ cached.leader # Nobody,
                             !.steady = Findable(leader, down, table)]
       IN  \/ Go(p, [r EXCEPT !.pc = "look"])
           \/ Go(p, [r EXCEPT !.pc = "look", !.any = TRUE]) /\ cached.nodes = {}
           \/ \E n \in cached.nodes : Go(p, [r EXCEPT !.pc = "note", !.any = TRUE, !.at = n])
    /\ UNCHANGED <<group, cached, round>>

\* _take_hint
TakeHint(p) ==
    /\ walk[p].pc = "look" /\ hint # Nobody
    /\ Go(p, [walk[p] EXCEPT !.pc = "note", !.at = hint])
    /\ hint' = Nobody
    /\ UNCHANGED <<group, cached, queue, asked, requests>>

\* _take_queued
TakeQueued(p) ==
    /\ walk[p].pc = "look" /\ hint = Nobody /\ queue # <<>>
    /\ Go(p, [walk[p] EXCEPT !.pc = "note", !.at = Head(queue)])
    /\ queue' = Tail(queue)
    /\ UNCHANGED <<group, cached, hint, asked, requests>>

NothingKept(p) == walk[p].pc = "look" /\ hint = Nobody /\ queue = <<>>

\* RoutingCache.leader_for_shard
TakeLeader(p) ==
    /\ NothingKept(p) /\ cached.leader # Nobody
    /\ Go(p, [walk[p] EXCEPT !.pc = "note", !.at = cached.leader])
    /\ UNCHANGED <<group, cached, round, requests>>

\* A copy that names nobody is read again, unless it is recent; if it still names nobody
\* there is no client, and the walk ends with what the attempt before it left.
NobodyNamed(p) ==
    /\ NothingKept(p) /\ cached.leader = Nobody
    /\ cached' \in {cached, table}
    /\ IF cached'.leader = Nobody THEN End(p, walk[p], "none")
       ELSE Go(p, [walk[p] EXCEPT !.pc = "note", !.at = cached'.leader])
    /\ UNCHANGED <<group, round, requests>>

\* _note_asked
Note(p) ==
    /\ walk[p].pc = "note"
    /\ asked' = asked \cup {walk[p].at}
    /\ Go(p, [walk[p] EXCEPT !.pc = "ask"])
    /\ UNCHANGED <<group, cached, hint, queue, requests>>

\* A lookup outside a walk (lock_on and primary_status of the resolver)
Peek(p) ==
    /\ walk[p].pc = "idle" /\ requests < MaxRequests /\ requests' = requests + 1
    /\ \/ hint # Nobody /\ hint' = Nobody /\ asked' = asked \cup {hint} /\ UNCHANGED queue
       \/ /\ hint = Nobody /\ queue # <<>> /\ queue' = Tail(queue)
          /\ asked' = asked \cup {Head(queue)} /\ UNCHANGED hint
       \/ /\ hint = Nobody /\ queue = <<>> /\ cached.leader # Nobody
          /\ asked' = asked \cup {cached.leader} /\ UNCHANGED <<hint, queue>>
    /\ UNCHANGED <<group, cached, walk>>

\* _forget_shard
Forget == hint' = Nobody /\ queue' = <<>> /\ asked' = {}

-----------------------------------------------------------------------------
(* ask_shard *)

Asking(p) ==
    [walk[p] EXCEPT !.been = @ \cup {walk[p].at}, !.again = @ \/ walk[p].at \in walk[p].been]

\* The leader answers; so does any member that can carry a read of any member to it.
Answered(p) ==
    /\ walk[p].pc = "ask" /\ walk[p].at \notin down
    /\ \/ walk[p].at = leader
       \/ walk[p].any /\ walk[p].at \in members /\ leader # Nobody
    /\ End(p, Asking(p), "ok")
    /\ Forget
    /\ UNCHANGED <<group, cached, requests>>

\* Any other node refuses, and may name the node it takes for the leader, which is never
\* itself (leader_address).
Refused(p) ==
    /\ walk[p].pc = "ask" /\ walk[p].at \notin down \cup {leader}
    /\ \E n \in (Node \ {walk[p].at}) \cup {Nobody} :
         Go(p, [Asking(p) EXCEPT !.pc = "refused", !.last = "refused", !.said = n])
    /\ UNCHANGED <<group, cached, round, requests>>

Unreachable(p) ==
    /\ walk[p].pc = "ask" /\ walk[p].at \in down
    /\ Go(p, [Asking(p) EXCEPT !.pc = "refused", !.last = "silent", !.said = Nobody])
    /\ UNCHANGED <<group, cached, round, requests>>

MutantReplicas == <<cached.leader>>   \* the leader only

\* replica_addresses: the leader first
Replicas ==
    LET first == IF cached.leader = Nobody THEN <<>> ELSE <<cached.leader>>
    IN  first \o SetToSortSeq(cached.nodes \ {cached.leader}, <)

Spent == asked

\* _queue_replicas: the ones that are neither asked nor queued
Waiting == SelectSeq(Replicas, LAMBDA a : a \notin Spent /\ a \notin ToSet(queue))

\* refused_with: the address the refusal named, or the replicas
Hinted(p) ==
    /\ walk[p].pc = "refused" /\ walk[p].said \notin asked \cup {Nobody}
    /\ hint' = walk[p].said
    /\ Go(p, [walk[p] EXCEPT !.pc = "look"])
    /\ UNCHANGED <<group, cached, queue, asked, requests>>

NotHinted(p) == walk[p].pc = "refused" /\ walk[p].said \in asked \cup {Nobody}

Queue(p) ==
    /\ NotHinted(p) /\ queue \o Waiting # <<>>
    /\ queue' = queue \o Waiting
    /\ Go(p, [walk[p] EXCEPT !.pc = "look"])
    /\ UNCHANGED <<group, cached, hint, asked, requests>>

\* Nowhere else to ask, and no table read left
GiveUp(p) ==
    /\ NotHinted(p) /\ queue \o Waiting = <<>> /\ walk[p].reads = 0
    /\ End(p, walk[p], walk[p].last)
    /\ UNCHANGED <<group, cached, round, requests>>

\* refresh_for_shard: the round is forgotten, then the table is read.
StartAgain(p) ==
    /\ NotHinted(p) /\ queue \o Waiting = <<>> /\ walk[p].reads > 0
    /\ Forget
    /\ Go(p, [walk[p] EXCEPT !.pc = "read", !.reads = @ - 1, !.been = {}])
    /\ UNCHANGED <<group, cached, requests>>

ReadTable(p) ==
    /\ walk[p].pc = "read"
    /\ cached' = table
    /\ Go(p, [walk[p] EXCEPT !.pc = "look"])
    /\ UNCHANGED <<group, round, requests>>

-----------------------------------------------------------------------------
Step(p) ==
    \/ TakeHint(p) \/ TakeQueued(p) \/ TakeLeader(p) \/ NobodyNamed(p) \/ Note(p)
    \/ Answered(p) \/ Refused(p) \/ Unreachable(p)
    \/ Hinted(p) \/ Queue(p) \/ GiveUp(p) \/ StartAgain(p) \/ ReadTable(p)

Next ==
    \/ \E n \in Node : Elect(n) \/ Die(n)
    \/ \E set \in Sets : Move(set)
    \/ Publish
    \/ \E p \in Thread : Begin(p) \/ Peek(p) \/ Step(p)

Spec == Init /\ [][Next]_vars

\* A thread goes on: every call has a timeout.
FairSpec == Spec /\ \A p \in Thread : WF_vars(Step(p))

-----------------------------------------------------------------------------
(* Properties *)

\* While one node leads, answers and is listed in the table, and the table and the copy a
\* walk starts with name a leader, right or wrong, the walk finds it.
FindsLeader ==
    \A p \in Thread :
        walk[p].pc = "idle" /\ walk[p].steady /\ walk[p].named => walk[p].answer = "ok"

\* While one node leads, answers and is listed in the table, a walk finds it: "every address
\* the table knows has been asked" before it ends.
FindsListed ==
    \A p \in Thread : walk[p].pc = "idle" /\ walk[p].steady => walk[p].answer = "ok"

\* A walk asks an address at most once between two reads of the table.
AskedOnce == \A p \in Thread : ~walk[p].again

\* A walk that asked a node does not end with None, "a shard with no leader".
SilenceIsTold == \A p \in Thread : walk[p].answer = "none" => walk[p].last = "none"

\* Every request ends, whatever the group, the table and the other threads do meanwhile.
WalkEnds == \A p \in Thread : walk[p].pc # "idle" ~> walk[p].pc = "idle"
=============================================================================
