----------------------------- MODULE Migration ------------------------------
(***************************************************************************)
(* Moving a shard to other nodes while clients write to it: move_shard of  *)
(* raft/shard_server.py, finish_move, _resume_migration, _commit_move and  *)
(* _abort_move of raft/recovery_runner.py, and the thread that publishes   *)
(* the shard's placement meanwhile (metadata/publisher.py).                *)
(*                                                                         *)
(* A replica set is one node: Source is the set the shard leaves, Target   *)
(* the set it goes to, and each has a group of its own.  Shard 0 is the    *)
(* shard.  The operator starts the process with the placement `config`,    *)
(* and changes it when a move has answered True.                           *)
(***************************************************************************)
EXTENDS ShardGroups, RoutingTable

CONSTANTS
    Target,    \* the set the shard is moved to
    Where,     \* an address
    MaxTerm    \* bound: terms of a group

MoveAssumption ==
    /\ Shard = {0} /\ Group = Node /\ Target \in Node \ {Source} /\ Where \in Address

VARIABLES
    table,     \* the routing table
    placed,    \* _placed_shards: the set this side says serves the shard
    config,    \* the placement the process is started with
    open,      \* the groups that are built
    aside,     \* the groups whose storage has been renamed
    note,      \* the move's note is on disk, in the source's storage
    held,      \* the move in memory: "none", "begun", "read", "loaded" or "done"
    rows,      \* its rows
    versions,  \* the versions the copy has read
    todo,      \* the rows the copy has still to look at
    expects,   \* the set the proposal expects to replace
    pc,        \* where the move is
    floats,    \* a proposal to the table that may still be applied: the set it expects
    term,      \* term[g]: the term the leader of group g leads at
    pub        \* the publisher: its step, what it is about to say, what it has said

move == <<note, held, rows, versions, todo, expects>>
moveVars == <<table, placed, config, open, aside, move, pc, floats, term, pub>>
vars == <<groupVars, moveVars>>

Nodes == table.at[0].nodes
AddressOf(g) == [n \in Node |-> IF n = g THEN Where ELSE Nobody]

\* _serving_nodes: the set being left, until the table has been told
Serving == IF held \in {"none", "done"} THEN placed ELSE Source

\* Where a client is sent: by the table, or by the cluster while the table names nobody
Owner == IF Nodes = {} THEN Serving ELSE CHOOSE g \in Node : g \in Nodes

\* A publisher that has said nothing: its step, the node and the term it is about to say,
\* whether it has published the replica set, and the leader it remembers to have reported
Quiet == [at |-> "idle", says |-> Nobody, seen |-> 0,
          nodes |-> FALSE, leader |-> Nobody, term |-> 0]

Init ==
    /\ GroupsInit
    /\ table = [version |-> 1, at |-> [s \in Shard |-> Placed(0, 1, {}, NoAddresses)]]
    /\ placed = Source /\ config = Source /\ open = {Source} /\ aside = {}
    /\ note = FALSE /\ held = "none" /\ rows = NoRows /\ versions = NoRows /\ todo = {}
    /\ expects = {} /\ pc = "idle" /\ floats = {}
    /\ term = [g \in Node |-> 1]
    /\ pub = Quiet

-----------------------------------------------------------------------------
(* Clients *)

\* A client goes where the table sends it; the lock cleaner goes by this side's own map.
Client(k) ==
    /\ \/ Owner \in open /\ (Put(k, Owner) \/ Prewrite(k, Owner) \/ CommitLock(k, Owner))
       \/ \E g \in {Owner, Serving} \cap open : RollBackLock(k, g)
    /\ UNCHANGED moveVars

GroupStep ==
    /\ \/ \E c \in flight : c.to \in open /\ (Land(c) \/ GiveUp(c) \/ Dropped(c))
       \/ Elect \/ CatchUp
    /\ UNCHANGED moveVars

\* A group elects its leader again.
NextTerm(g) ==
    /\ g \in open /\ term[g] < MaxTerm
    /\ "term" \in Faults
    /\ term' = [term EXCEPT ![g] = @ + 1]
    /\ UNCHANGED <<groupVars, table, placed, config, open, aside, move, pc, floats, pub>>

-----------------------------------------------------------------------------
(* move_shard *)

Step(from, to) == up /\ pc = from /\ pc' = to
Same3 == UNCHANGED <<placed, config, term>>   \* what most steps of a move leave alone

\* hold_migration and the freeze, then the drain.  The faults: the publisher is in the
\* middle of a pass, past its look at the moves; or it has not published the shard yet.
Begin ==
    /\ held = "none" /\ Serving = Source /\ Source \in open
    /\ pub.at # "idle" => "race" \in Faults
    /\ Nodes = {} => "unpublished" \in Faults
    /\ Step("idle", "drain")
    /\ held' = "begun" /\ frozen' = TRUE
    /\ UNCHANGED <<table, open, aside, groups, clients, up, note, rows, versions, todo, expects,
                   floats, faults, pub>> /\ Same3

Drained ==
    /\ Step("drain", "locks")
    /\ NobodyWaits
    /\ UNCHANGED <<table, open, aside, groups, frozen, clients, up, move, floats, faults, pub>>
    /\ Same3

\* The finally of move_shard: drop_migration and the thaw.
CalledOff ==
    /\ \/ Step("drain", "idle") /\ ~NobodyWaits
       \/ Step("locks", "idle") /\ \E k \in Key : LeaderMachine.lock[k] # {}
    /\ held' = "none" /\ frozen' = FALSE
    /\ UNCHANGED <<table, open, aside, groups, clients, up, note, rows, versions, todo, expects,
                   floats, faults, pub>> /\ Same3

\* _locks_in_range, _committed_rows and remember_migration
ReadRows ==
    /\ LeaderReady
    /\ Step("locks", "finish")
    /\ \A k \in Key : LeaderMachine.lock[k] = {}
    /\ rows' = RowsIn(Key, LeaderMachine)
    /\ note' = TRUE /\ held' = "read"
    /\ UNCHANGED <<table, open, aside, groups, frozen, clients, up, versions, todo, expects,
                   floats, faults, pub>> /\ Same3

-----------------------------------------------------------------------------
(* finish_move *)

\* The caller asks again for the move in flight.
MoveAgainAsked ==
    /\ held \in {"read", "loaded"}
    /\ Step("idle", "finish")
    /\ UNCHANGED <<table, open, aside, groups, frozen, clients, up, move, floats, faults, pub>>
    /\ Same3

\* A group has no leader, a scan is refused, or the table cannot be read: the note and the
\* freeze stay.
Stopped ==
    /\ \/ (\E at \in {"finish", "versions"} : Step(at, "idle"))
          /\ ScanRefused(m[Source], Key, 0) /\ UNCHANGED faults
       \/ (\E at \in {"finish", "versions", "copy"} : Step(at, "idle")) /\ Fault("stop")
    /\ UNCHANGED <<table, open, aside, groups, frozen, clients, up, move, floats, pub>>
    /\ Same3

\* The storage a group is built on: what it held, or nothing if that was set aside
Built(g) == IF g \in aside THEN [m EXCEPT ![g] = Empty] ELSE m

\* A move this process did not start reads its rows again; ensure_group_on
BuildTarget ==
    /\ SourceAnswers \/ DOMAIN rows # {}
    /\ Step("finish", "versions")
    /\ rows' = IF DOMAIN rows = {} THEN RowsIn(Key, m[Source]) ELSE rows
    /\ open' = open \cup {Target} /\ m' = Built(Target) /\ aside' = aside \ {Target}
    /\ UNCHANGED <<table, behind, lags, frozen, clients, up, note, held, versions, todo, expects,
                   floats, faults, pub>> /\ Same3

\* _copy_rows
ReadVersions ==
    /\ SourceAnswers
    /\ Step("versions", "copy")
    /\ versions' = VersionsIn(Key, m[Source])
    /\ todo' = DOMAIN rows \cap DOMAIN versions'
    /\ UNCHANGED <<table, open, aside, groups, frozen, clients, up, note, held, rows, expects,
                   floats, faults, pub>> /\ Same3

\* A row the new group refuses stops the copy (Stopped).
MoveRow(k) ==
    /\ k \in todo /\ todo' = todo \ {k}
    /\ Step("copy", "copy") /\ Current(Target)
    /\ m' = [m EXCEPT ![Target] = WithRow(@, k, rows[k], versions[k])]
    /\ UNCHANGED <<table, open, aside, behind, lags, frozen, clients, up, note, held, rows,
                   versions, expects, floats, faults, pub>> /\ Same3

MutantCopied ==   \* the table is told before the rows are there
    /\ Step("copy", "propose")
    /\ expects' = Nodes
    /\ UNCHANGED <<table, open, aside, groups, frozen, clients, up, note, held, rows, versions,
                   todo, floats, faults, pub>> /\ Same3

\* _propose_move: the set to replace, as the table has it
Copied ==
    /\ Step("copy", "propose")
    /\ todo = {}
    /\ expects' = Nodes
    /\ UNCHANGED <<table, open, aside, groups, frozen, clients, up, note, held, rows, versions,
                   todo, floats, faults, pub>> /\ Same3
TheMove(from) == MoveShard(table, 0, from, {Target}, AddressOf(Target))

ProposeMove ==
    /\ Step("propose", IF TheMove(expects).code = 0 THEN "commit" ELSE "abort")
    /\ table' = TheMove(expects).t
    /\ UNCHANGED <<open, aside, groups, frozen, clients, up, move, floats, faults, pub>>
    /\ Same3

\* Nothing answered (UNREACHABLE): the proposal may still be applied, and the move waits.
ProposeUnanswered ==
    /\ Step("propose", "idle")
    /\ Fault("table")
    /\ floats' = floats \cup {expects}
    /\ UNCHANGED <<table, open, aside, groups, frozen, clients, up, move, pub>> /\ Same3

\* ERR_TIMEOUT is not ERR_NOT_LEADER, and so is taken for a refusal.
ProposeTimesOut ==
    /\ Step("propose", "abort")
    /\ Fault("timeout")
    /\ floats' = floats \cup {expects}
    /\ UNCHANGED <<table, open, aside, groups, frozen, clients, up, move, pub>> /\ Same3

FloatLands(from) ==
    /\ from \in floats /\ floats' = floats \ {from}
    /\ table' = TheMove(from).t
    /\ UNCHANGED <<groupVars, placed, config, open, aside, move, pc, term, pub>>

FloatDropped(from) ==
    /\ from \in floats /\ floats' = floats \ {from}
    /\ UNCHANGED <<table, groupVars, placed, config, open, aside, move, pc, term, pub>>

-----------------------------------------------------------------------------
(* _abort_move and _commit_move *)

MutantAbortMove ==   \* the freeze is forgotten
    /\ Step("abort", "idle")
    /\ held' = "none" /\ note' = FALSE /\ rows' = NoRows /\ versions' = NoRows
    /\ open' = open \ {Target} /\ aside' = aside \cup {Target}
    /\ UNCHANGED <<table, groups, frozen, clients, up, todo, expects, floats, faults, pub>>
    /\ Same3

\* The source takes rows again, and the group that was built is put aside.
AbortMove ==
    /\ Step("abort", "idle")
    /\ held' = "none" /\ note' = FALSE /\ rows' = NoRows /\ versions' = NoRows
    /\ frozen' = FALSE
    /\ open' = open \ {Target} /\ aside' = aside \cup {Target}
    /\ UNCHANGED <<table, groups, clients, up, todo, expects, floats, faults, pub>> /\ Same3

MutantApplyMoveLocally ==   \* the published leader is not forgotten
    /\ Step("commit", "window")
    /\ placed' = Target /\ held' = "done"
    /\ UNCHANGED <<table, open, aside, groups, frozen, clients, up, note, rows, versions, todo,
                   expects, floats, faults, config, term, pub>>

\* apply_move_locally and the phase: from here this side answers with the new group.
ApplyMoveLocally ==
    /\ Step("commit", "window")
    /\ placed' = Target /\ held' = "done"
    /\ pub' = [pub EXCEPT !.leader = Nobody, !.term = 0]
    /\ UNCHANGED <<table, open, aside, groups, frozen, clients, up, note, rows, versions, todo,
                   expects, floats, faults, config, term>>

\* The drain window has passed.
ForgetNote ==
    /\ Step("window", "close")
    /\ note' = FALSE
    /\ UNCHANGED <<table, open, aside, groups, frozen, clients, up, held, rows, versions, todo,
                   expects, floats, faults, pub>> /\ Same3

\* ensure_serving: the group that was left is closed and put aside.
CloseSource ==
    /\ Step("close", "drop")
    /\ open' = (open \ {Source}) \cup {Target} /\ aside' = aside \cup {Source}
    /\ frozen' = FALSE
    /\ UNCHANGED <<table, groups, clients, up, move, floats, faults, pub>> /\ Same3

\* drop_migration; the move answers True, and the operator takes note.
DropMigration ==
    /\ Step("drop", "idle")
    /\ held' = "none" /\ rows' = NoRows /\ versions' = NoRows
    /\ config' = Target
    /\ UNCHANGED <<table, open, aside, groups, frozen, clients, up, note, todo, expects, floats,
                   faults, pub, placed, term>>

-----------------------------------------------------------------------------
(* The process dies and comes back *)

\* Between forget_note and the answer, a crash leaves no note and the old placement.
AnswerWindow == pc \in {"close", "drop"}

Crash ==
    /\ AnswerWindow => "window" \in Faults
    /\ GroupsCrash
    /\ pc' = "idle" /\ held' = "none" /\ open' = {} /\ pub' = Quiet
    /\ rows' = NoRows /\ versions' = NoRows /\ todo' = {}
    /\ UNCHANGED <<table, placed, config, aside, note, expects, floats, term>>

\* start_shards builds the groups of the placement it is given; load_pending_migrations
\* finds the note in the source's storage, and freezes it before anything publishes.
Restart ==
    /\ ~up /\ up' = TRUE
    /\ placed' = config
    /\ open' = {config} /\ m' = Built(config) /\ aside' = aside \ {config}
    /\ held' = IF note /\ config = Source THEN "loaded" ELSE "none"
    /\ frozen' = (note /\ config = Source)
    /\ UNCHANGED <<table, behind, lags, clients, faults, config, note, rows, versions, todo,
                   expects, pc, floats, term, pub>>

\* _resume_migration, of start-up or of recover_migrations: how far did the move get?
Resume ==
    /\ held \in {"read", "loaded"}
    /\ Step("idle", IF Nodes = {Target} THEN "commit"
                    ELSE IF Nodes = {Source} THEN "finish" ELSE "idle")
    /\ frozen' = TRUE
    /\ IF Nodes = {Target}
       THEN open' = open \cup {Target} /\ m' = Built(Target) /\ aside' = aside \ {Target}
       ELSE UNCHANGED <<open, m, aside>>
    /\ UNCHANGED <<table, behind, lags, clients, up, move, floats, faults, pub>> /\ Same3

-----------------------------------------------------------------------------
(* MetadataPublisher: one pass, from its look at the moves in flight to what it says *)

Publish(from, new) ==
    /\ up /\ pub.at = from /\ pub' = new
    /\ UNCHANGED <<groupVars, placed, config, open, aside, move, pc, floats, term>>

\* publish_once: a shard that is moving is left alone.
Look ==
    /\ held = "none"
    /\ Publish("idle", [pub EXCEPT !.at = "nodes"])
    /\ UNCHANGED table

\* _publish_nodes: once, and of the group this side holds
ComputeNodes ==
    /\ Publish("nodes", IF pub.nodes THEN [pub EXCEPT !.at = "leader"]
                        ELSE IF Serving \in open THEN [pub EXCEPT !.at = "set", !.says = Serving]
                        ELSE [pub EXCEPT !.at = "idle"])
    /\ UNCHANGED table

PublishNodes ==
    /\ Publish("set", [pub EXCEPT !.at = "leader", !.nodes = TRUE])
    /\ table' = SetShardNodes(table, 0, {pub.says}, AddressOf(pub.says)).t

\* _publish_leader: nothing to say of a leader this thread has named, or an older one
ObserveLeader ==
    /\ Publish("leader", IF Serving \notin open \/ (pub.leader # Nobody /\ term[Serving] <= pub.term)
                         THEN [pub EXCEPT !.at = "idle"]
                         ELSE [pub EXCEPT !.at = "report", !.says = Serving, !.seen = term[Serving]])
    /\ UNCHANGED table

\* A report is remembered, whether the table takes it or refuses it.
PublishLeader ==
    /\ Publish("report", [pub EXCEPT !.at = "idle", !.leader = pub.says, !.term = pub.seen])
    /\ table' = ReportLeader(table, 0, pub.says, pub.seen).t

-----------------------------------------------------------------------------
Runner ==
    \/ Begin \/ Drained \/ CalledOff \/ ReadRows
    \/ MoveAgainAsked \/ Stopped \/ BuildTarget \/ ReadVersions \/ Copied
    \/ ProposeMove \/ ProposeUnanswered \/ ProposeTimesOut
    \/ AbortMove \/ ApplyMoveLocally \/ ForgetNote \/ CloseSource \/ DropMigration
    \/ Resume
    \/ \E k \in Key : MoveRow(k)

Publisher == Look \/ ComputeNodes \/ PublishNodes \/ ObserveLeader \/ PublishLeader

Next ==
    \/ \E k \in Key : Client(k)
    \/ GroupStep \/ Runner \/ Publisher
    \/ \E g \in Node : NextTerm(g)
    \/ \E from \in SUBSET Node : FloatLands(from) \/ FloatDropped(from)
    \/ Crash \/ Restart

Spec == Init /\ [][Next]_vars

(* Fairness: threads run, groups elect and commit, locks are cleaned, the process is
   restarted, and the operator asks again until the move is done.  Faults are finitely
   many. *)
Busy == {"drain", "locks", "finish", "versions", "copy", "propose", "abort", "commit",
         "window", "close", "drop"}

LeaderCatchesUp == CatchUp /\ UNCHANGED moveVars
FlightLands == (\E c \in flight : c.to \in open /\ Land(c)) /\ UNCHANGED moveVars
LockIsCleaned ==
    /\ \E k \in Key, g \in {Owner, Serving} \cap open : RollBackLock(k, g)
    /\ UNCHANGED moveVars

Fairness ==
    /\ \A s \in Busy : WF_vars(pc = s /\ Runner)
    /\ WF_vars(Restart) /\ WF_vars(Resume) /\ WF_vars(Publisher)
    /\ WF_vars(LeaderCatchesUp) /\ WF_vars(FlightLands) /\ WF_vars(LockIsCleaned)

FairSpec == Spec /\ Fairness

-----------------------------------------------------------------------------
(* Properties *)

\* The group the table names for the shard shows the newest write a client was told is
\* done, or a newer one, whatever the move, the publisher or a restart has done.
AckedIsThere == \A k \in Key : ShowsAcked(Owner, k)

Store == INSTANCE KeyStore WITH
    val <- [k \in Key |-> ShownBy(Owner, k)],
    last <- [k \in Key |-> NewestAt(k)]

\* To a reader who follows the table the two groups are one store: a move changes no value
\* that is read.
MoveIsInvisible == Store!Spec

\* Once the table names the new group, the group that was left takes no rows: it is
\* frozen, or closed.
LeftGroupIsShut == Nodes = {Target} => frozen \/ Source \notin open

\* What the publisher remembers is about the group that serves the shard (forget_leader:
\* "a fact about a group that is no longer serving it").
RemembersServing ==
    held = "none" /\ pub.at = "idle" /\ pub.leader # Nobody => pub.leader = Serving

\* A frozen shard is thawed in the end, or its group closed.
FreezeEnds == frozen ~> ~frozen

\* A move that has a note is finished or given up in the end: the note goes
\* (recover_migrations).
NoteGoes == note ~> ~note

\* The table names the leader of the group that serves the shard, again and again.
LeaderIsNamed == []<>(table.at[0].leader = Owner)

=============================================================================
