----------------------------- MODULE GroupWalk ------------------------------
(***************************************************************************)
(* The walk of a client of the metadata group or of the clock, from        *)
(* another process (_GroupClient of client/remote_group_client.py): ask    *)
(* the address that answered last, follow the leader a refusal names, then *)
(* the seeds.  A call is a command (_propose).                             *)
(***************************************************************************)
EXTENDS Naturals, SequencesExt

CONSTANTS
    Member,         \* the addresses of the group's members
    Seeds,          \* the addresses the client was given, in order
    Nobody,
    Silence,        \* may a call to a member go unanswered?
    MaxElections,   \* bound: changes of the leader
    MaxCalls        \* bound: calls of the client

SeedsAssumption == Seeds # << >> /\ ToSet(Seeds) \subseteq Member

VARIABLES
    leader,     \* who leads the group
    elections,
    calls,
    preferred,  \* _preferred: the address that answered last
    pending,    \* the addresses left to ask
    asked,      \* those asked
    answered,   \* the refusal to hand back: "none", "not_leader" or "refused"
    told,       \* what the call came to: "asking" while it walks
    taken,      \* the members that have put this call's command in the log
    refused,    \* the members that refused this call's command itself
    named       \* the addresses a refusal of this call has named

walk == <<preferred, pending, asked, answered, told>>
ghosts == <<taken, refused, named>>
vars == <<leader, elections, calls, walk, ghosts>>

\* _candidates
Candidates ==
    IF preferred = Nobody THEN Seeds ELSE <<preferred>> \o Remove(Seeds, preferred)

Init ==
    /\ leader \in Member
    /\ elections = 0 /\ calls = 0
    /\ preferred = Nobody
    /\ pending = << >> /\ asked = {}
    /\ answered = "none" /\ told = "nothing"
    /\ taken = {} /\ refused = {} /\ named = {}

Elect ==
    /\ elections < MaxElections
    /\ elections' = elections + 1
    /\ leader' \in (Member \cup {Nobody}) \ {leader}
    /\ UNCHANGED <<calls, walk, ghosts>>

-----------------------------------------------------------------------------
Begin ==
    /\ told # "asking" /\ calls < MaxCalls
    /\ calls' = calls + 1
    /\ pending' = Candidates
    /\ asked' = {} /\ answered' = "none" /\ told' = "asking"
    /\ taken' = {} /\ refused' = {} /\ named' = {}
    /\ UNCHANGED <<leader, elections, preferred>>

\* The next address of the walk that has not been asked.
Turn == told = "asking" /\ pending # << >> /\ Head(pending) \notin asked

Asked == asked' = asked \cup {Head(pending)}

MutantKeep(answer) == answered' = answer

\* The first refusal is kept, unless it only says who does not lead.
Keep(answer) == answered' = IF answered \in {"none", "not_leader"} THEN answer ELSE answered

Skip ==
    /\ told = "asking" /\ pending # << >> /\ Head(pending) \in asked
    /\ pending' = Tail(pending)
    /\ UNCHANGED <<leader, elections, calls, preferred, asked, answered, told, ghosts>>

\* grpc.RpcError: the call did not get there, or its answer did not get back in time.
Unanswered ==
    /\ Silence /\ Turn
    /\ Asked
    /\ pending' = Tail(pending)
    /\ \/ taken' = taken
       \/ Head(pending) = leader /\ taken' = taken \cup {leader}
    /\ UNCHANGED <<leader, elections, calls, preferred, answered, told, refused, named>>

Ok ==
    /\ Turn /\ Head(pending) = leader
    /\ Asked
    /\ taken' = taken \cup {leader}
    /\ preferred' = Head(pending)
    /\ told' = "ok" /\ pending' = << >>
    /\ UNCHANGED <<leader, elections, calls, answered, refused, named>>

\* The leader's answer is no: the machine would not apply the command (REFUSED), or the
\* group did not get to it in time (TIMEOUT).  The walk goes on.
RefusedIt ==
    /\ Turn /\ Head(pending) = leader
    /\ Asked
    /\ taken' = taken \cup {leader}
    /\ refused' = refused \cup {leader}
    /\ Keep("refused")
    /\ pending' = Tail(pending)
    /\ UNCHANGED <<leader, elections, calls, preferred, told, named>>

\* The addresses left once a refusal has named hint.
Hinted(hint) ==
    IF hint # Nobody /\ hint \notin asked' THEN <<hint>> \o Tail(pending) ELSE Tail(pending)

\* Not the leader, which names whoever it last heard from.
NotLeader(hint) ==
    /\ Turn /\ Head(pending) # leader /\ hint # Head(pending)
    /\ Asked
    /\ Keep("not_leader")
    /\ pending' = Hinted(hint)
    /\ named' = named \cup ({hint} \ {Nobody})
    /\ UNCHANGED <<leader, elections, calls, preferred, told, taken, refused>>

\* Nowhere left: the refusal, or NodeUnreachable.
GiveUp ==
    /\ told = "asking" /\ pending = << >>
    /\ told' = IF answered = "none" THEN "unreachable" ELSE answered
    /\ UNCHANGED <<leader, elections, calls, preferred, pending, asked, answered, ghosts>>

Step ==
    \/ Skip \/ Unanswered \/ Ok \/ RefusedIt \/ GiveUp
    \/ \E hint \in Member \cup {Nobody} : NotLeader(hint)

Next == Elect \/ Begin \/ Step

Spec == Init /\ [][Next]_vars

\* Every call the client makes has a deadline, so its thread always comes to its next step.
FairSpec == Spec /\ WF_vars(Step)

-----------------------------------------------------------------------------
\* A member's refusal of the command itself is what the caller hears, whatever the others
\* said before and after it, unless one took the command (_ask: "A member that refused the
\* call itself outranks all of them").
RefusalIsHeard ==
    refused # {} /\ told \notin {"asking", "nothing"} => told \in {"refused", "ok"}

\* The walk gives up only when it has asked every seed and every address it was sent to
\* (_GroupClient: "A refusal that names a leader is followed inside the walk").
AsksEverywhere ==
    told \in {"not_leader", "refused", "unreachable"} => ToSet(Seeds) \cup named \subseteq asked

\* Every call ends, however the members name one another (_ask's set of addresses asked).
WalkEnds == told = "asking" ~> told # "asking"

\* A call that heard nothing has proposed nothing (_propose: "the command was not proposed
\* anywhere").
UnheardIsUnproposed == told = "unreachable" => taken = {}
=============================================================================
