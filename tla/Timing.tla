------------------------------- MODULE Timing -------------------------------
(***************************************************************************)
(* Time: the tick counters of kurogane-raft, driven as the simulator and   *)
(* the test harness drive them.  A step of the simulation delivers the     *)
(* messages that are due and then ticks every node, whose election timeout *)
(* is redrawn whenever it starts an election.                              *)
(*                                                                         *)
(* The rest of the node is reduced to what its timers depend on.  Every    *)
(* node holds the same log, its last entry of a past term, and nothing is  *)
(* proposed: each AppendEntries of a current leader is accepted, its       *)
(* successful replies change nothing and are left out, and the             *)
(* configuration, which may be a joint one, stays what the log says.       *)
(***************************************************************************)
EXTENDS ClusterConfig, FiniteSetsExt, SequencesExt, TLC

CONSTANTS
    Node,
    Membership,             \* the configuration in every log
    HeartbeatInterval,
    ElectionTimeout,        \* the timeout each node starts with
    Draws,                  \* what each node's next_timeout may be drawn
    MinDelay, MaxDelay,     \* the range a message's delay is drawn from
    Isolatable,             \* the nodes that may be partitioned off
    MaxOutages,             \* bound: how often
    OutageTerm,             \* bound: a partition heals before this term
    Patience                \* the steps a cluster may take to find a leader

\* What Node::recover checks of its arguments; and a message takes a step: one
\* with no delay would be filed under a tick whose messages are already gone.
ASSUME TimingAssumption ==
    /\ HeartbeatInterval \in Nat \ {0}
    /\ ElectionTimeout \in [Node -> Nat]
    /\ \A n \in Node : HeartbeatInterval <= ElectionTimeout[n]
    /\ Draws \in [Node -> SUBSET Nat]
    /\ MinDelay \in 1 .. MaxDelay
    /\ \A n \in Node : IsVoter(Membership, n)

VARIABLES
    state,      \* of each node
    inbox,      \* messages, each with the steps it has been under way
    isolated,   \* the nodes partitioned from every other
    outages,    \* how many partitions there were
    waited      \* history: the steps since a leader was followed, or a partition
                \* began or healed

timingVars == <<state, inbox, isolated, outages, waited>>

\* Node::new or recover.  leader_contact_elapsed starts as if no leader had
\* been heard for an interval.  heard is history: the term of the last leader
\* accepted since the last partition healed.
Fresh(n) ==
    [role |-> "Follower", term |-> 0, votedFor |-> "none", votes |-> {},
     electionElapsed |-> 0, electionTimeout |-> ElectionTimeout[n],
     heartbeatElapsed |-> 0, leaderContactElapsed |-> HeartbeatInterval,
     heard |-> 0]

TimingInit ==
    /\ state = [n \in Node |-> Fresh(n)]
    /\ inbox = {}
    /\ isolated = {}
    /\ outages = 0
    /\ waited = 0

-----------------------------------------------------------------------------
(* The node *)

Leads(n) == state[n].role = "Leader"

\* Messages from n as node s to the peers in P.
To(P, n, type, s, granted) ==
    {[type |-> type, from |-> n, to |-> p, term |-> s.term, granted |-> granted] :
        p \in P \ {n}}

Peers == Membership.voters \cup Membership.oldVoters

BroadcastReplication(n, s) == To(Peers, n, "AppendEntries", s, FALSE)

\* A node and what it sends.
Outcome(s, ms) == [node |-> s, sends |-> ms]

BecomeLeader(n, s) ==
    LET leader == [s EXCEPT !.role = "Leader", !.heartbeatElapsed = 0]
    IN  Outcome(leader, BroadcastReplication(n, leader))

\* The counters of a step down are left as they are.
StepDown(s, t) ==
    [s EXCEPT !.role = "Follower", !.term = t, !.votedFor = "none", !.votes = {}]

\* Only the voters of the new set are asked.
StartElection(n, s, nextTimeout) ==
    LET candidate == [s EXCEPT !.role = "Candidate", !.term = @ + 1, !.votedFor = n,
                               !.votes = {n}, !.electionElapsed = 0,
                               !.electionTimeout = nextTimeout]
    IN  IF HasQuorum(Membership, {n}) THEN BecomeLeader(n, candidate)
        ELSE Outcome(candidate, To(Membership.voters, n, "RequestVote", candidate, FALSE))

AtMost(x, bound) == IF x > bound THEN bound ELSE x

\* Mutant of HeartbeatDue: the interval is exceeded by one.
HeartbeatOverdue(s) == s.heartbeatElapsed + 1 > HeartbeatInterval

HeartbeatDue(s) == s.heartbeatElapsed + 1 >= HeartbeatInterval

OnLeaderTick(n, s) ==
    IF HeartbeatDue(s)
    THEN LET leader == [s EXCEPT !.heartbeatElapsed = 0]
         IN  Outcome(leader, BroadcastReplication(n, leader))
    ELSE Outcome([s EXCEPT !.heartbeatElapsed = @ + 1], {})

ElectionDue(s) == s.role # "Leader" /\ s.electionElapsed + 1 >= s.electionTimeout

\* The counters are compared with a bound only, so they stop at it.
OnTick(n, s, nextTimeout) ==
    LET ticked == [s EXCEPT !.leaderContactElapsed = AtMost(@ + 1, HeartbeatInterval)]
        waiting == [ticked EXCEPT !.electionElapsed = AtMost(@ + 1, s.electionTimeout)]
    IN  IF s.role = "Leader" THEN OnLeaderTick(n, ticked)
        ELSE IF ElectionDue(s)
             THEN StartElection(n, waiting, nextTimeout)
             ELSE Outcome(waiting, {})

\* Mutant of HeardFromLeader: the timer that votes and elections reset, too.
TimerNotExpired(s) == s.electionElapsed < s.electionTimeout

HeardFromLeader(s) == s.leaderContactElapsed < HeartbeatInterval

\* A request of a past term, any request to a leader, and during a transition
\* one to a node that has just heard from a leader, is refused unseen.
OnRequestVote(s, m) ==
    LET reply(x, granted) == Outcome(x, To({m.from}, m.to, "RequestVoteResponse", x, granted))
        now == IF m.term > s.term THEN StepDown(s, m.term) ELSE s
    IN  IF \/ m.term < s.term
           \/ s.role = "Leader"
           \/ IsJoint(Membership) /\ HeardFromLeader(s)
        THEN reply(s, FALSE)
        ELSE IF now.votedFor \in {"none", m.from}
             THEN reply([now EXCEPT !.votedFor = m.from, !.electionElapsed = 0], TRUE)
             ELSE reply(now, FALSE)

OnRequestVoteResponse(s, m) ==
    LET counted == [s EXCEPT !.votes = @ \cup {m.from}]
    IN  CASE m.term > s.term -> Outcome(StepDown(s, m.term), {})
          [] m.term = s.term /\ s.role = "Candidate" /\ m.granted ->
                IF HasQuorum(Membership, counted.votes)
                THEN BecomeLeader(m.to, counted) ELSE Outcome(counted, {})
          [] OTHER -> Outcome(s, {})

OnAppendEntries(s, m) ==
    LET now == IF m.term > s.term THEN StepDown(s, m.term)
               ELSE [s EXCEPT !.role = IF @ = "Candidate" THEN "Follower" ELSE @]
    IN  IF m.term < s.term
        THEN Outcome(s, To({m.from}, m.to, "AppendEntriesResponse", s, FALSE))
        ELSE Outcome([now EXCEPT !.electionElapsed = 0, !.leaderContactElapsed = 0,
                                 !.heard = m.term], {})

\* A refusal, which a leader of an older term learns its successor's term from.
OnAppendEntriesResponse(s, m) ==
    Outcome(IF m.term > s.term THEN StepDown(s, m.term) ELSE s, {})

Handle(s, m) ==
    CASE m.type = "RequestVote" -> OnRequestVote(s, m)
      [] m.type = "RequestVoteResponse" -> OnRequestVoteResponse(s, m)
      [] m.type = "AppendEntries" -> OnAppendEntries(s, m)
      [] m.type = "AppendEntriesResponse" -> OnAppendEntriesResponse(s, m)

-----------------------------------------------------------------------------
(* The simulation *)

Connected(m) == m.from \notin isolated /\ m.to \notin isolated

\* apply_effects: the messages get under way, with a delay that is decided when
\* it has passed.
Routed(ms) == {[message |-> m, age |-> 1] : m \in {m \in ms : Connected(m)}}

\* The messages a step may deliver: all whose delay has passed.
Deliveries ==
    LET due == {x \in inbox : x.age >= MinDelay}
        overdue == {x \in inbox : x.age = MaxDelay}
    IN  {D \in SUBSET due : overdue \subseteq D}

\* The first half of a step: n takes messages, in some order.
Taken(n, messages) ==
    LET take(out, m) == LET r == Handle(out.node, m)
                        IN  Outcome(r.node, out.sends \cup r.sends)
    IN  {FoldLeft(take, Outcome(state[n], {}), order) :
            order \in SetToSeqs({m \in messages : m.to = n /\ Connected(m)})}

\* Everything one choice of Options(n) for each node n adds up to.
Combined(Options(_)) ==
    FoldSet(LAMBDA n, fs : {(n :> o) @@ f : o \in Options(n), f \in fs}, {<<>>}, Node)

\* What the nodes may be after the messages in D.
Delivered(D) == Combined(LAMBDA n : Taken(n, {x.message : x \in D}))

\* The second half: every node ticks.
Ticked(first) ==
    Combined(LAMBDA n : {OnTick(n, first[n].node, draw) :
        draw \in IF ElectionDue(first[n].node) THEN Draws[n] ELSE {0}})

\* Every node that l can reach has accepted it as the leader of its term.
Followed(l) ==
    /\ Leads(l) /\ l \notin isolated
    /\ \A p \in Node \ (isolated \cup {l}) :
          /\ state[p].role = "Follower"
          /\ state[p].term = state[l].term
          /\ state[p].heard = state[l].term

\* Simulation::step: what is due is delivered, then every node ticks.
Step ==
    \E D \in Deliveries : \E first \in Delivered(D) : \E second \in Ticked(first) :
        LET expiring == {n \in Node : ElectionDue(first[n].node)}
        IN  /\ \A n \in isolated \cap expiring : first[n].node.term < OutageTerm
            /\ state' = [n \in Node |-> second[n].node]
            /\ inbox' = Routed(UNION {first[n].sends \cup second[n].sends : n \in Node})
                          \cup {[x EXCEPT !.age = @ + 1] : x \in inbox \ D}
            /\ UNCHANGED <<isolated, outages>>
            /\ waited' = IF \E l \in Node : Followed(l)' THEN 0 ELSE waited + 1

\* Between two steps.
Isolate(n) ==
    /\ outages < MaxOutages
    /\ n \notin isolated
    /\ isolated' = isolated \cup {n}
    /\ outages' = outages + 1
    /\ waited' = 0
    /\ UNCHANGED <<state, inbox>>

Heal(n) ==
    /\ n \in isolated
    /\ isolated' = isolated \ {n}
    /\ state' = [p \in Node |-> [state[p] EXCEPT !.heard = 0]]
    /\ waited' = 0
    /\ UNCHANGED <<inbox, outages>>

TimingNext ==
    \/ Step
    \/ \E n \in Isolatable : Isolate(n)
    \/ \E n \in Isolatable : Heal(n)

TimingSpec == TimingInit /\ [][TimingNext]_timingVars

-----------------------------------------------------------------------------
(* Properties *)

\* Once every node has heard from the leader, no timer expires and no vote is
\* asked for while nobody is cut off, as long as the shortest timeout exceeds
\* the heartbeat interval by more than the spread of the delays: on_tick,
\* on_leader_tick and the resets in on_append_entries keep step, however the
\* delays of successive heartbeats fall.
StableLeadership ==
    [][(\E l \in Node : Followed(l)) /\ isolated = {} /\ isolated' = {} =>
          \A n \in Node : state'[n].term = state[n].term]_timingVars

\* Whatever partition, split votes and refused votes came before, in the middle
\* of a configuration change too, the connected nodes follow one leader within
\* Patience steps.  In particular on_request_vote's disruption guard does not go
\* on refusing votes after the leader is gone, and neither a deposed leader with
\* its old counters nor a server that campaigned alone keeps the others from
\* settling.
LedWithinPatience == waited <= Patience

=============================================================================
