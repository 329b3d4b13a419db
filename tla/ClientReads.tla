---------------------------- MODULE ClientReads -----------------------------
(***************************************************************************)
(* The three levels a client reads a key at: SmartClient.get and           *)
(* ReadIndexCache of transaction/smart_client.py, ClientServicer of        *)
(* raft/client_servicer.py, and MemoryRaftNode.get of raft/node.py.        *)
(*                                                                         *)
(* The i-th entry of a group's log stands for what the key shows once i    *)
(* entries are applied: the number of a client's write, 0 for none.  The   *)
(* ReadIndex handshake is what RaftNode promises of it (ReadIsFresh): the  *)
(* index of everything committed.  A move of the shard to another group is *)
(* what Migration promises of it (MoveIsInvisible): the table names the    *)
(* new group once the rows are in its log.                                 *)
(***************************************************************************)
EXTENDS Naturals, Sequences

CONSTANTS
    Old, New,      \* the members of the group the shard is in, and of the one it moves to
    Thread,        \* the threads of the client
    Nobody,
    Ttl,           \* READ_INDEX_TTL, in ticks
    Moves,         \* the shard may be moved
    MaxWrites,     \* bound: writes of other clients
    MaxTime        \* bound: ticks

VARIABLES
    log,       \* log[g]: the committed log of group g
    applied,   \* applied[g][n]: how far member n has applied it
    open,      \* the groups that answer
    owner,     \* the group the table names
    copy,      \* the group the client's copy of the table names
    newest,    \* the newest write a client has been told is done
    time,      \* the client's clock
    past,      \* past[t]: the newest write when the clock came to t
    cache,     \* ReadIndexCache: the index, when it was kept, and what it stood for
    read       \* read[p]: the read of thread p

groups == <<log, applied, open, owner>>
clock == <<time, past>>
vars == <<groups, copy, newest, clock, cache, read>>

Group == {1, 2}
Members(g) == IF g = 1 THEN Old ELSE New
NoIndex == [index |-> 0, kept |-> 0, basis |-> 0]

\* A read: its step, the group and the member it is at, whether it has named an index of
\* the cache, its index, and its answer.  The rest is history: what had been
\* written when it began, what its index stood for, and when it began.
NoRead == [pc |-> "idle", g |-> 1, at |-> Nobody, named |-> FALSE,
           index |-> 0, answer |-> 0, floor |-> 0, basis |-> 0, began |-> 0]

Init ==
    /\ log = [g \in Group |-> IF g = 1 THEN <<0>> ELSE <<>>]
    /\ applied = [g \in Group |-> [n \in Members(g) |-> Len(log[g])]]
    /\ open = {1} /\ owner = 1 /\ copy = 1
    /\ newest = 0 /\ time = 0 /\ past = <<>>
    /\ cache = NoIndex
    /\ read = [p \in Thread |-> NoRead]

-----------------------------------------------------------------------------
(* The groups *)

\* A client that holds the newest table writes, and is told so.
Write ==
    /\ newest < MaxWrites /\ newest' = newest + 1
    /\ log' = [log EXCEPT ![owner] = Append(@, newest + 1)]
    /\ UNCHANGED <<applied, open, owner, copy, clock, cache, read>>

Apply(g, n) ==
    /\ applied[g][n] < Len(log[g])
    /\ applied' = [applied EXCEPT ![g][n] = @ + 1]
    /\ UNCHANGED <<log, open, owner, copy, newest, clock, cache, read>>

MutantMove ==   \* the table is told before this key's row is in the new group
    /\ Moves /\ owner = 1
    /\ owner' = 2 /\ open' = {1, 2}
    /\ log' = [log EXCEPT ![2] = <<0, 0>>]
    /\ UNCHANGED <<applied, copy, newest, clock, cache, read>>

\* The move: the new group's no-op, the row of another key, the row of this one
Move ==
    /\ Moves /\ owner = 1
    /\ owner' = 2 /\ open' = {1, 2}
    /\ log' = [log EXCEPT ![2] = <<0, 0, newest>>]
    /\ UNCHANGED <<applied, copy, newest, clock, cache, read>>

\* _commit_move: the drain window has passed.
Close ==
    /\ owner = 2 /\ 1 \in open /\ open' = {2}
    /\ UNCHANGED <<log, applied, owner, copy, newest, clock, cache, read>>

Tick ==
    /\ time < MaxTime /\ time' = time + 1
    /\ past' = Append(past, newest)
    /\ UNCHANGED <<groups, copy, newest, cache, read>>

-----------------------------------------------------------------------------
(* SmartClient.get *)

Go(p, r) == read' = [read EXCEPT ![p] = r]

\* cached_index
Fresh == cache.index > 0 /\ time - cache.kept < Ttl

\* A strong read goes to the leader, a follower read to any member; over the wire either is
\* answered at an index the leader confirms.  A cached read names an index, if it can.
Begin(p, level) ==
    /\ read[p].pc = "idle"
    /\ \E n \in Members(copy) :
         LET r == [NoRead EXCEPT !.pc = "ask", !.g = copy, !.at = n,
                                 !.floor = newest, !.began = time]
         IN  Go(p, IF level = "cached" /\ Fresh
                   THEN [r EXCEPT !.named = TRUE, !.index = cache.index, !.basis = cache.basis]
                   ELSE r)
    /\ UNCHANGED <<groups, copy, newest, clock, cache>>

\* The walk of ask_shard: another member, or the table is read again.
AskAgain(p) ==
    /\ copy' \in {copy, owner} /\ copy' \in open
    /\ \E n \in Members(copy') : Go(p, [read[p] EXCEPT !.pc = "ask", !.g = copy', !.at = n])
    /\ UNCHANGED <<groups, newest, clock, cache>>

\* The member asked is gone with its group, or cannot reach a leader for an index.
Refused(p) ==
    /\ read[p].pc = "ask"
    /\ read[p].g \in open => ~read[p].named
    /\ AskAgain(p)

MutantIndexFor(p) ==   \* the index the caller kept is not passed on
    IF read[p].named THEN 1 ELSE Len(log[read[p].g])

\* _index_for_a_read: the caller's, the leader's own, or the leader's carried to a member
IndexFor(p) == IF read[p].named THEN read[p].index ELSE Len(log[read[p].g])

TakeIndex(p) ==
    /\ read[p].pc = "ask" /\ read[p].g \in open
    /\ Go(p, [read[p] EXCEPT !.pc = "wait", !.index = IndexFor(p),
                             !.basis = IF read[p].named THEN @ ELSE log[read[p].g][Len(log[read[p].g])]])
    /\ UNCHANGED <<groups, copy, newest, clock, cache>>

\* MemoryRaftNode.get, once the index is applied
Answer(p) ==
    /\ read[p].pc = "wait" /\ read[p].g \in open
    /\ applied[read[p].g][read[p].at] >= read[p].index
    /\ Go(p, [read[p] EXCEPT !.pc = "keep",
                             !.answer = log[read[p].g][applied[read[p].g][read[p].at]]])
    /\ UNCHANGED <<groups, copy, newest, clock, cache>>

\* ERR_TIMEOUT, or the node is gone: the read ends without an answer.
TimesOut(p) ==
    /\ read[p].pc = "wait"
    /\ applied[read[p].g][read[p].at] < read[p].index \/ read[p].g \notin open
    /\ Go(p, NoRead)
    /\ UNCHANGED <<groups, copy, newest, clock, cache>>

\* remember: of a read that obtained its index
Keep(p) ==
    /\ read[p].pc = "keep"
    /\ Go(p, NoRead)
    /\ cache' = IF read[p].named THEN cache
                ELSE [index |-> read[p].index, kept |-> time, basis |-> read[p].basis]
    /\ UNCHANGED <<groups, copy, newest, clock>>

-----------------------------------------------------------------------------
Next ==
    \/ Write \/ Move \/ Close \/ Tick
    \/ \E g \in Group : \E n \in Members(g) : Apply(g, n)
    \/ \E p \in Thread :
         \/ \E level \in {"strong", "cached"} : Begin(p, level)
         \/ Refused(p) \/ TakeIndex(p) \/ Answer(p) \/ TimesOut(p) \/ Keep(p)

Spec == Init /\ [][Next]_vars

-----------------------------------------------------------------------------
(* Properties *)

Answered(p) == read[p].pc = "keep"

\* A strong or a follower read shows every write that was done when it began, whichever
\* member answers it and whoever has been elected meanwhile.
ReadsAreFresh ==
    \A p \in Thread : Answered(p) /\ ~read[p].named => read[p].answer >= read[p].floor

\* A read that obtained its index in the group the table names shows every write that was
\* done when it began, also across a move.
OwnerIsFresh ==
    \A p \in Thread :
        Answered(p) /\ ~read[p].named /\ read[p].g = owner => read[p].answer >= read[p].floor

\* A cached read shows every write that its index stood for when it was confirmed ("a
\* position says the same thing whichever node offers it").
CachedIsBased == \A p \in Thread : Answered(p) /\ read[p].named => read[p].answer >= read[p].basis

\* A cached read shows every write that was done READ_INDEX_TTL before it began ("as of
\* somewhere between now and READ_INDEX_TTL ago").
CachedIsRecent ==
    \A p \in Thread :
        Answered(p) /\ read[p].named /\ read[p].began > Ttl =>
            read[p].answer >= past[read[p].began - Ttl]
=============================================================================
