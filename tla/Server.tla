------------------------------- MODULE Server -------------------------------
(***************************************************************************)
(* One kurogane-node process: the actor that owns the replica, the bounded *)
(* channel in front of it, the file behind it, and the RPC handlers and    *)
(* timers that use it.                                                     *)
(*                                                                         *)
(* Raft.tla takes one call of the node and its effects as one step.  Here   *)
(* the effects are dispatched one by one, the process may die between any  *)
(* two of them, and a Propose call is the four requests it really is.  What *)
(* the consensus core may do is reduced to what the server can tell apart: *)
(* terms and votes change, peers' entries replace uncommitted ones, entries *)
(* commit, a snapshot is installed.  Peers keep to the protocol: what was  *)
(* committed here they never replace, and no other node leads a term this  *)
(* one has led.                                                            *)
(***************************************************************************)
EXTENDS Integers, Sequences, FiniteSetsExt

CONSTANTS
    Call,           \* RPCs of clients, each made once
    Kinds,          \* what they may ask for
    Peer,           \* the configured peers
    Learner,        \* the server AddLearner is asked to add
    Self,
    Nil,            \* None
    Capacity,       \* of the actor's channel
    Threshold,      \* compact_threshold
    Token,          \* the cluster token
    Received,       \* the memberships that peers' entries and snapshots may bring
    MaxTerm, MaxIndex   \* bounds

\* What a ClusterConfig says of this node: whether it is a voter, and in a joint
\* configuration whether it is an old voter.
Membership == [voters : BOOLEAN, oldVoters : BOOLEAN \cup {Nil}]

IsJoint(config) == config.oldVoters # Nil

\* The process is one of the genesis voters.
Genesis == [voters |-> TRUE, oldVoters |-> Nil]

\* What the actor tells the handler, the peer or nobody, once a request is done.
Answers ==
    [to : {Nil}] \cup [to : {Self}, acked : Nat]
      \cup [to : Call, kind : {"Accepted"}, index : Nat, term : Nat, before : Nat \cup {Nil}]
      \cup [to : Call, kind : {"NotLeader", "Learner", "Removed"}]

ASSUME ServerAssumption ==
    /\ Capacity \in Nat \ {0} /\ Threshold \in Nat \ {0}
    /\ MaxTerm \in Nat /\ MaxIndex \in Nat
    /\ Kinds \subseteq {"Propose", "ConfigChange", "AddLearner", "RemoveLearner"}
    /\ Received \subseteq Membership
    /\ Nil \notin Peer \cup {Self} \cup Call \cup Answers \cup BOOLEAN \cup Membership
    /\ Self \notin Call

VARIABLES
    node,       \* the replica in memory
    disk,       \* the file
    hint,       \* leader_hint
    queue,      \* the requests in the channel
    effects,    \* what is left to dispatch of the request being handled
    reply,      \* who is answered at its end, and what; Nil between requests
    alive,      \* the actor's task is running
    watch,      \* the last_applied that is published
    clients,    \* the servers the transport can reach
    call,       \* the state of each RPC
    led,        \* history: the terms this node has led
    decided,    \* history: the highest index this node ever counted committed
    promise,    \* history: the most that was sent in the newest term sent in
    registered  \* history: the learners that were ever durable

actorVars == <<queue, effects, reply, alive, watch>>
history == <<led, decided, promise, registered>>
serverVars == <<node, disk, hint, actorVars, clients, call, history>>

-----------------------------------------------------------------------------
(* The replica and its file *)

LastIndex(n) == n.boundary + Len(n.log)

\* entry_at: entries at or below the boundary are gone.
EntryOf(n, i) ==
    IF i > n.boundary /\ i <= LastIndex(n) THEN n.log[i - n.boundary] ELSE Nil

\* recompute_config: the last configuration of the log, or that of the snapshot.
ConfigIndex(n) ==
    Max({n.boundary} \cup {i \in n.boundary + 1 .. LastIndex(n) : EntryOf(n, i).config # Nil})

CurrentConfig(n) ==
    IF ConfigIndex(n) = n.boundary THEN n.base ELSE EntryOf(n, ConfigIndex(n)).config

EntryTerm(i) == IF EntryOf(node, i) = Nil THEN Nil ELSE EntryOf(node, i).term

AppliedResult(i) == IF i \in DOMAIN node.results THEN node.results[i] ELSE Nil

\* n once it counts everything up to index c committed, and has applied it.
Committing(n, c) ==
    LET new == {i \in (n.commit + 1) .. c : EntryOf(n, i).config = Nil}
    IN  [n EXCEPT !.commit = c,
                  !.results = [i \in new \cup DOMAIN n.results |->
                                  IF i \in new THEN EntryOf(n, i) ELSE n.results[i]]]

\* The servers a process can reach when it starts: those it is configured with.
\* A learner's address is not stored.
ConfiguredClients == Peer

FreshFile == [term |-> 0, vote |-> Nil, log |-> <<>>, boundary |-> 0, base |-> Genesis,
              learners |-> {}]

\* Replica::recover over Node::recover.
Recovered(d) ==
    [role |-> "Follower", term |-> d.term, vote |-> d.vote, log |-> d.log,
     boundary |-> d.boundary, base |-> d.base, commit |-> d.boundary, results |-> <<>>,
     learners |-> d.learners]

PersistHardState(n) == [kind |-> "HardState", term |-> n.term, vote |-> n.vote]
PersistLog(from, entries) == [kind |-> "Log", from |-> from, entries |-> entries]
PersistSnapshot(b, config) == [kind |-> "Snapshot", boundary |-> b, base |-> config]
PersistLearners(S) == [kind |-> "Learners", learners |-> S]
Send == [kind |-> "Send"]

\* Storage::apply: the fields one effect changes, and the file rewritten.
Flushed(d, e) ==
    CASE e.kind = "HardState" -> [d EXCEPT !.term = e.term, !.vote = e.vote]
      [] e.kind = "Log" ->
            [d EXCEPT !.log = SubSeq(@, 1, Min({e.from - d.boundary - 1, Len(@)})) \o e.entries]
      [] e.kind = "Snapshot" -> [d EXCEPT !.boundary = e.boundary, !.base = e.base]
      [] e.kind = "Learners" -> [d EXCEPT !.learners = e.learners]

-----------------------------------------------------------------------------
(* What handling a request may make of the replica, and the effects of it *)

\* acked is the last index a reply says this node holds.
Outcome(n, es) == [node |-> n, effects |-> es, hint |-> hint, acked |-> 0]

Adopted(t, v) == [node EXCEPT !.role = IF t > node.term THEN "Follower" ELSE @,
                              !.term = t, !.vote = v]

\* start_election asks that this node be a voter of either set.
MayCampaign(n) == CurrentConfig(n).voters \/ CurrentConfig(n).oldVoters = TRUE

\* A tick: no timer is due, a leader's heartbeat is, or an election's, which a
\* voter that needs no other's vote wins at once.
TickOutcomes ==
    LET candidate == [node EXCEPT !.role = "Candidate", !.term = @ + 1, !.vote = Self]
    IN  {Outcome(node, <<>>)}
          \cup IF node.role = "Leader" THEN {Outcome(node, <<Send>>)}
               ELSE IF node.term = MaxTerm \/ ~ MayCampaign(node) THEN {}
               ELSE {Outcome([candidate EXCEPT !.role = r], <<PersistHardState(candidate), Send>>) :
                       r \in {"Candidate", "Leader"}}

\* The leader's own entry, for owner, at the end of the log of n.
OwnEntry(n, owner, config) ==
    [index |-> LastIndex(n) + 1, term |-> n.term, owner |-> owner, config |-> config]

\* n once it has counted matches: what the peers have matched is not tracked, so
\* any entry of the leader's own term may be the newest that a majority has.
Counted(n) ==
    {n} \cup {Committing(n, c) :
                c \in {i \in n.commit + 1 .. LastIndex(n) : EntryOf(n, i).term = n.term}}

\* A joint configuration that is committed is followed by the new one alone, on
\* which matches are counted again.
FollowedUp(n) ==
    LET e == OwnEntry(n, "config", [CurrentConfig(n) EXCEPT !.oldVoters = Nil])
    IN  IF IsJoint(CurrentConfig(n)) /\ n.commit >= ConfigIndex(n)
        THEN {[node |-> m, effects |-> <<PersistLog(e.index, <<e>>)>>] :
                m \in Counted([n EXCEPT !.log = Append(@, e)])}
        ELSE {[node |-> n, effects |-> <<>>]}

\* A leader that a committed configuration excludes leads no longer.
Retired(n) ==
    IF /\ ~ IsJoint(CurrentConfig(n)) /\ n.commit >= ConfigIndex(n)
       /\ ~ CurrentConfig(n).voters
    THEN [n EXCEPT !.role = "Follower"]
    ELSE n

\* advance_commit_index.
Advanced(n) ==
    {[r EXCEPT !.node = Retired(@)] : r \in UNION {FollowedUp(m) : m \in Counted(n)}}

\* Mutant of ReplicatedTo: the peer is sent its entries first.
ReplicatedFirst(r) ==
    {Outcome(r.node, sent \o r.effects) :
        sent \in {<<>>} \cup (IF r.node.role = "Leader" THEN {<<Send>>} ELSE {})}

\* The leader sends its peer what it still lacks, after what it has just appended.
ReplicatedTo(r) ==
    {Outcome(r.node, r.effects \o sent) :
        sent \in {<<>>} \cup (IF r.node.role = "Leader" THEN {<<Send>>} ELSE {})}

\* A response: of a newer term, a vote that wins, a match that may commit, or a
\* mismatch.
PeerResponseOutcomes ==
    {Outcome(Adopted(t, Nil), <<PersistHardState(Adopted(t, Nil))>>) :
        t \in node.term + 1 .. MaxTerm}
      \cup (IF node.role # "Candidate" THEN {}
            ELSE {Outcome([node EXCEPT !.role = "Leader"], <<Send>>)})
      \cup (IF node.role # "Leader" THEN {}
            ELSE {Outcome(node, <<Send>>)} \cup UNION {ReplicatedTo(r) : r \in Advanced(node)})

\* RequestVote: a vote is given at most once a term.
VoteOutcomes ==
    {Outcome(Adopted(w.term, w.vote), <<PersistHardState(Adopted(w.term, w.vote))>>) :
        w \in {w \in [term : node.term .. MaxTerm, vote : Peer \cup {Nil}] :
            /\ node.role # "Leader"
            /\ w.term = node.term => node.vote = Nil /\ w.vote # Nil}}

\* The term of the entry before index i, whether or not it is still held.
TermBefore(i) == IF EntryOf(node, i - 1) = Nil THEN Nil ELSE EntryTerm(i - 1)

\* The entries a leader of term t may have at index i: its own, or one of this
\* node's that it received earlier, on top of what that one was appended to.
PeerEntries(i, t) ==
    {[index |-> i, term |-> t, owner |-> "peer", config |-> k] : k \in {Nil} \cup Received}
      \cup {[index |-> i, term |-> call[c].term, owner |-> c, config |-> Nil] :
              c \in {c \in Call : call[c].index = i /\ call[c].term < t
                                    /\ call[c].before = TermBefore(i)}}

\* The last index at which a leader of term t has what this node has: what was
\* committed, what it was told in term t, and what it was told is held.
Settled(t) ==
    Max({decided, node.boundary}
          \cup {i \in node.boundary + 1 .. LastIndex(node) : EntryTerm(i) = t}
          \cup (IF promise.term = t THEN {promise.upTo} ELSE {}))

\* The logs node may have after entries of a leader of term t: as it was, or
\* cut above what no leader of t can lack and extended by one entry.
MergedLogs(t) ==
    {[log |-> node.log, effects |-> <<>>]} \cup
    UNION {{[log |-> SubSeq(node.log, 1, i - 1 - node.boundary) \o <<e>>,
             effects |-> <<PersistLog(i, <<e>>)>>] :
              e \in {e \in PeerEntries(i, t) : EntryTerm(i) # e.term}}
           : i \in Settled(t) + 1 .. Min({LastIndex(node) + 1, MaxIndex})}

\* Terms of which a peer may be the leader, as far as this node can know.
PeerLedTerms == (Max({node.term, 1}) .. MaxTerm) \ led

\* The node, and the effect, of a message of the leader of term t.
Observed(t) ==
    IF t > node.term
    THEN [node |-> Adopted(t, Nil), effects |-> <<PersistHardState(Adopted(t, Nil))>>]
    ELSE [node |-> [node EXCEPT !.role = "Follower"], effects |-> <<>>]

\* Who is believed to lead, after a message of leader p of term t.
UpdateLeaderHint(p, t) == IF t >= node.term THEN p ELSE hint

\* AppendEntries: mismatched, or merged and committing some of the log.  A
\* request that changes nothing may end at any entry this node has.
AppendEntriesOutcomes ==
    LET Merged(t, p, m) ==
            LET n == [Observed(t).node EXCEPT !.log = m.log]
            IN  {[node |-> Committing(n, c), effects |-> Observed(t).effects \o m.effects,
                  hint |-> UpdateLeaderHint(p, t),
                  acked |-> a] :
                    c \in n.commit .. LastIndex(n),
                    a \in IF m.effects = <<>> THEN 0 .. LastIndex(n) ELSE {LastIndex(n)}}
    IN  UNION {UNION {Merged(t, p, m) : m \in MergedLogs(t)} : t \in PeerLedTerms, p \in Peer}

\* A snapshot up to index b with membership k, of p, the leader of term t.
Installed(t, p, b, k) ==
    [node |-> [Observed(t).node EXCEPT !.log = <<>>, !.boundary = b, !.base = k,
                                       !.commit = b, !.results = <<>>],
     effects |-> Observed(t).effects \o <<PersistSnapshot(b, k), PersistLog(b + 1, <<>>)>>,
     hint |-> UpdateLeaderHint(p, t), acked |-> b]

\* InstallSnapshot, of a boundary the log does not cover.
InstallSnapshotOutcomes ==
    UNION {{Installed(t, p, b, k) : b \in Settled(t) + 1 .. MaxIndex, k \in {Genesis} \cup Received}
             : t \in PeerLedTerms, p \in Peer}

\* A peer's request; a stale one is answered and changes nothing.
PeerRequestOutcomes ==
    {Outcome(node, <<>>)} \cup VoteOutcomes \cup AppendEntriesOutcomes
        \cup InstallSnapshotOutcomes

\* n, the leader, with an entry of its own, and what its effects are after first.
Appended(n, first, owner, config) ==
    LET e == OwnEntry(n, owner, config)
    IN  {Outcome(r.node, first \o <<PersistLog(e.index, <<e>>)>> \o r.effects) :
            r \in Advanced([n EXCEPT !.log = Append(@, e)])}

ProposedOutcomes(c) == Appended(node, <<>>, c, Nil)

\* propose_config_change drops the learners it promotes.  The voters it replaces
\* are those of the current configuration, joint or not.
ReconfiguredOutcomes ==
    UNION {LET joint == [voters |-> v, oldVoters |-> CurrentConfig(node).voters]
           IN  Appended(node, <<>>, "config", joint)
                 \cup (IF node.learners = {} THEN {}
                       ELSE Appended([node EXCEPT !.learners = {}], <<PersistLearners({})>>,
                                     "config", joint))
           : v \in BOOLEAN}

\* add_learner and remove_learner; both do nothing when it is so already.
WithLearners(S) ==
    IF S = node.learners THEN Outcome(node, <<>>)
    ELSE Outcome([node EXCEPT !.learners = S], <<PersistLearners(S)>>)

-----------------------------------------------------------------------------
(* The actor: one request at a time, memory first, then effect by effect *)

\* Mutant of CompactRetain: as much is retained as triggers the compaction.
RetainThreshold == Threshold

CompactRetain == Threshold \div 2

\* Outcome o followed by maybe_compact.  Nobody can look at the replica before
\* the actor is done with a request, so all of memory changes at once.
MaybeCompact(o) ==
    LET n == o.node
        upTo == n.commit - CompactRetain
        rest == SubSeq(n.log, upTo - n.boundary + 1, Len(n.log))
        drained == CurrentConfig([n EXCEPT !.log = SubSeq(@, 1, upTo - n.boundary)])
    IN  IF n.commit - n.boundary >= Threshold /\ upTo > n.boundary
        THEN [o EXCEPT !.node = [n EXCEPT !.boundary = upTo, !.base = drained, !.log = rest],
                       !.effects = @ \o <<PersistSnapshot(upTo, drained),
                                          PersistLog(upTo + 1, rest)>>]
        ELSE o

Handling(o, answer) ==
    LET done == MaybeCompact(o)
    IN  /\ node' = done.node
        /\ effects' = done.effects
        /\ hint' = o.hint
        /\ led' = IF o.node.role = "Leader" THEN led \cup {o.node.term} ELSE led
        /\ decided' = Max({decided, o.node.commit})
        /\ reply' = answer
        /\ queue' = Tail(queue)

\* A proposal or a configuration change, of call c.
HandleAppend(c, outcomes) ==
    IF node.role = "Leader"
    THEN \E o \in outcomes :
            Handling(o, [to |-> c, kind |-> "Accepted", index |-> LastIndex(node) + 1,
                         term |-> node.term, before |-> TermBefore(LastIndex(node) + 1)])
    ELSE Handling(Outcome(node, <<>>), [to |-> c, kind |-> "NotLeader"])

\* Mutant of Connected: the transport is told first.
ConnectedFirst(connect) == clients' = IF connect THEN clients \cup {Learner} ELSE clients

\* The transport is told of a new learner only at the end.
Connected(connect) == UNCHANGED clients

\* add_learner answers a redirect; remove_learner answers nothing either way.
HandleLearner(c, S, kind) ==
    IF node.role = "Leader"
    THEN Handling(WithLearners(S), [to |-> c, kind |-> kind]) /\ Connected(kind = "Learner")
    ELSE /\ Handling(Outcome(node, <<>>),
                     [to |-> c, kind |-> IF kind = "Learner" THEN "NotLeader" ELSE kind])
         /\ UNCHANGED clients

\* What a tick or a message from a peer is matters only when it is handled.  A
\* request is answered; a tick or a response is not.
HandleEvent ==
    /\ \/ \E o \in TickOutcomes \cup PeerResponseOutcomes : Handling(o, [to |-> Nil])
       \/ \E o \in PeerRequestOutcomes : Handling(o, [to |-> Self, acked |-> o.acked])
    /\ UNCHANGED clients

Take ==
    /\ alive /\ reply = Nil /\ queue # <<>>
    /\ LET r == Head(queue)
       IN  \/ r.kind = "Event" /\ HandleEvent
           \/ /\ r.kind = "Propose"
              /\ HandleAppend(r.call, ProposedOutcomes(r.call))
              /\ UNCHANGED clients
           \/ /\ r.kind = "ConfigChange"
              /\ HandleAppend(r.call, ReconfiguredOutcomes)
              /\ UNCHANGED clients
           \/ /\ r.kind = "AddLearner"
              /\ HandleLearner(r.call, node.learners \cup {Learner}, "Learner")
           \/ r.kind = "RemoveLearner" /\ HandleLearner(r.call, {}, "Removed")
    /\ UNCHANGED <<disk, alive, watch, call, promise, registered>>

\* The most that was sent: a term, the vote in it, and the last entry that a
\* message of that term said this node holds.
Promised(acked) ==
    LET now == [term |-> node.term, vote |-> node.vote, upTo |-> acked]
    IN  IF promise.term = node.term
        THEN [now EXCEPT !.upTo = Max({@, promise.upTo})]
        ELSE now

\* dispatch, and the loop of handle_peer_request.
DispatchEffect ==
    /\ alive /\ effects # <<>>
    /\ effects' = Tail(effects)
    /\ IF Head(effects).kind = "Send"
       THEN /\ promise' = Promised(IF node.role = "Leader" THEN LastIndex(node) ELSE 0)
            /\ UNCHANGED <<disk, registered>>
       ELSE /\ disk' = Flushed(disk, Head(effects))
            /\ registered' = registered \cup disk'.learners
            /\ UNCHANGED promise
    /\ UNCHANGED <<node, hint, queue, reply, alive, watch, clients, call, led, decided>>

-----------------------------------------------------------------------------
(* The RPC handlers.  One that has asked the actor for something waits for  *)
(* its answer; one that has not waits for room in the channel.             *)

\* The request a handler makes at each step of its way.
Request(c) ==
    [kind |-> IF call[c].pc = "Start" THEN call[c].kind ELSE call[c].pc, call |-> c]

NewCall == [pc |-> "Unmade", kind |-> Nil, asked |-> FALSE, index |-> 0, term |-> 0,
            before |-> Nil, expected |-> Nil, answer |-> Nil]

Done(c, answer) ==
    call' = [call EXCEPT ![c].pc = "Done", ![c].kind = Nil, ![c].asked = FALSE,
                         ![c].answer = answer]

Proceed(c, pc) == call' = [call EXCEPT ![c].pc = pc, ![c].asked = FALSE]

Indeterminate == [kind |-> "Indeterminate"]

\* A client calls.
Make(c, kind) ==
    /\ call[c].pc = "Unmade"
    /\ call' = [call EXCEPT ![c].pc = "Start", ![c].kind = kind]
    /\ UNCHANGED <<node, disk, hint, actorVars, clients, history>>

Ask(c) ==
    /\ alive
    /\ call[c].pc \in {"Start", "FirstTerm", "SecondTerm", "Result"} /\ ~ call[c].asked
    /\ Len(queue) < Capacity
    /\ queue' = Append(queue, Request(c))
    /\ call' = [call EXCEPT ![c].asked = TRUE]
    /\ UNCHANGED <<node, disk, hint, effects, reply, alive, watch, clients, history>>

\* A learner's address that is no URI is not taken, and the answer says so.
AddPeer(connected) == clients' = IF connected THEN clients \cup {Learner} ELSE clients

\* The actor answers what it was asked to do, and publishes last_applied.  A
\* peer is answered by a message that is not one of the effects.
Answer(r) ==
    CASE r.to = Nil -> UNCHANGED <<call, promise, clients>>
      [] r.to = Self -> promise' = Promised(r.acked) /\ UNCHANGED <<call, clients>>
      [] r.to \in Call /\ r.kind = "Accepted" /\ call[r.to].kind = "Propose" ->
            /\ call' = [call EXCEPT ![r.to].pc = "FirstTerm", ![r.to].asked = FALSE,
                          ![r.to].index = r.index, ![r.to].term = r.term,
                          ![r.to].before = r.before]
            /\ UNCHANGED <<promise, clients>>
      [] r.to \in Call /\ r.kind = "Learner" ->
            /\ \E connected \in BOOLEAN :
                  AddPeer(connected) /\ Done(r.to, [kind |-> "Learner", connected |-> connected])
            /\ UNCHANGED promise
      [] r.to \in Call /\ r.kind = "NotLeader" ->
            Done(r.to, [kind |-> "NotLeader", hint |-> hint]) /\ UNCHANGED <<promise, clients>>
      [] OTHER -> Done(r.to, [kind |-> r.kind]) /\ UNCHANGED <<promise, clients>>

Finish ==
    /\ alive /\ reply # Nil /\ effects = <<>>
    /\ Answer(reply)
    /\ watch' = node.commit
    /\ reply' = Nil
    /\ UNCHANGED <<node, disk, hint, queue, effects, alive, led, decided, registered>>

\* Mutant of StillExpected: whatever is at the index now is taken.
AnyEntry(c) == EntryTerm(call[c].index) # Nil

\* The entry whose term was read first is the one at the index now.
StillExpected(c) ==
    EntryTerm(call[c].index) # Nil /\ EntryTerm(call[c].index) = call[c].expected

\* A question about the log or the results; it has no effects.
Read ==
    /\ alive /\ reply = Nil /\ queue # <<>>
    /\ LET c == Head(queue).call
           i == call[c].index
       IN  \/ /\ Head(queue).kind = "FirstTerm"
              /\ call' = [call EXCEPT ![c].pc = "Wait", ![c].asked = FALSE,
                                      ![c].expected = EntryTerm(i)]
           \/ /\ Head(queue).kind = "SecondTerm"
              /\ IF StillExpected(c) THEN Proceed(c, "Result") ELSE Done(c, Indeterminate)
           \/ /\ Head(queue).kind = "Result"
              /\ Done(c, IF AppliedResult(i) = Nil THEN Indeterminate
                         ELSE [kind |-> "Applied", entry |-> AppliedResult(i)])
    /\ queue' = Tail(queue)
    /\ UNCHANGED <<node, disk, hint, effects, reply, alive, watch, clients, history>>

WaitForApplied(c) ==
    /\ call[c].pc = "Wait" /\ watch >= call[c].index
    /\ Proceed(c, "SecondTerm")
    /\ UNCHANGED <<node, disk, hint, actorVars, clients, history>>

\* Mutant of Timeout: the handler waits for as long as it takes.
NoTimeout(c) == FALSE

\* PROPOSE_APPLY_TIMEOUT, or the watch is closed.
Timeout(c) ==
    /\ call[c].pc = "Wait" /\ watch < call[c].index
    /\ Done(c, Indeterminate)
    /\ UNCHANGED <<node, disk, hint, actorVars, clients, history>>

\* The actor's task is gone: no request is answered.
Unanswered(c) ==
    /\ ~ alive
    /\ CASE call[c].pc = "Start" -> Done(c, [kind |-> "Unavailable"])
         [] call[c].pc = "FirstTerm" -> Proceed(c, "Wait")
         [] call[c].pc \in {"SecondTerm", "Result"} -> Done(c, Indeterminate)
         [] OTHER -> FALSE
    /\ UNCHANGED <<node, disk, hint, actorVars, clients, history>>

-----------------------------------------------------------------------------
(* What arrives from outside *)

\* TokenInterceptor, in front of the peer service only.
Admitted(token) == token = Token

\* A tick, a response, or the request of a peer with the token.  The request
\* waits for room like a client's; the others are dropped when there is none.
Arrive(token) ==
    /\ alive
    /\ Admitted(token)
    /\ Len(queue) < Capacity
    /\ queue' = Append(queue, [kind |-> "Event"])
    /\ UNCHANGED <<node, disk, hint, effects, reply, alive, watch, clients, call, history>>

\* storage.apply fails and the actor panics: its task is gone, the process and
\* its RPC handlers are not.
Panic ==
    /\ alive /\ effects # <<>> /\ Head(effects).kind # "Send"
    /\ alive' = FALSE
    /\ queue' = <<>>
    /\ UNCHANGED <<node, disk, hint, effects, reply, watch, clients, call, history>>

\* The entries of the file start right above its boundary.
Aligned(n) == \A k \in DOMAIN n.log : n.log[k].index = n.boundary + k

\* The process dies, with every RPC it was serving, and starts again.
CrashAndRestart ==
    /\ node' = Recovered(disk)
    /\ hint' = Nil
    /\ queue' = <<>> /\ effects' = <<>> /\ reply' = Nil
    /\ alive' = TRUE
    /\ watch' = 0
    /\ clients' = ConfiguredClients
    /\ call' = [c \in Call |-> IF call[c].pc \in {"Unmade", "Done"} THEN call[c]
                               ELSE [call[c] EXCEPT !.pc = "Done", !.kind = Nil, !.asked = FALSE,
                                                    !.answer = [kind |-> "Lost"]]]
    /\ UNCHANGED <<disk, history>>

-----------------------------------------------------------------------------

ServerInit ==
    /\ node = Recovered(FreshFile)
    /\ disk = FreshFile
    /\ hint = Nil
    /\ queue = <<>> /\ effects = <<>> /\ reply = Nil
    /\ alive = TRUE
    /\ watch = 0
    /\ clients = ConfiguredClients
    /\ call = [c \in Call |-> NewCall]
    /\ led = {} /\ decided = 0 /\ registered = {}
    /\ promise = [term |-> 0, vote |-> Nil, upTo |-> 0]

Running ==
    \/ Take \/ DispatchEffect \/ Finish \/ Read
    \/ \E c \in Call : \/ \E kind \in Kinds : Make(c, kind)
                       \/ Ask(c)
                       \/ WaitForApplied(c)
                       \/ Timeout(c)
                       \/ Unanswered(c)
    \/ \E token \in {Token, Nil} : Arrive(token)

\* Failures spare the moment between the two writes of a new snapshot.
ServerNext == Running \/ (Aligned(disk) /\ (Panic \/ CrashAndRestart))

\* The tasks run; a handler waiting for room gets its turn, because the channel
\* hands out room in the order it was asked for; a timeout expires.
Fairness ==
    /\ WF_serverVars(Take \/ Read)
    /\ WF_serverVars(DispatchEffect)
    /\ WF_serverVars(Finish)
    /\ \A c \in Call : /\ SF_serverVars(Ask(c))
                       /\ WF_serverVars(WaitForApplied(c))
                       /\ WF_serverVars(Timeout(c))
                       /\ WF_serverVars(Unanswered(c))

ServerSpec == ServerInit /\ [][ServerNext]_serverVars /\ Fairness

\* The same, failing anywhere.
TornSpec == ServerInit /\ [][Running \/ Panic \/ CrashAndRestart]_serverVars

-----------------------------------------------------------------------------
(* Properties *)

\* Whatever this process has told a peer is on its disk, so a crash takes
\* nothing back: neither its vote, nor its term, nor an entry that was said to
\* be held in that term.  The contract of dispatch and handle_peer_request:
\* "a Persist* effect is always applied before any Send after it".
PromisesSurvive ==
    \/ disk.term > promise.term
    \/ /\ disk.term = promise.term
       /\ promise.vote \in {Nil, disk.vote}
       /\ promise.upTo <= LastIndex(disk)

\* An answer Applied is the result of the entry whose term the handler read
\* first, although entries may be replaced, applied and compacted between any
\* two of the handler's requests.
AnswerIsVouchedFor ==
    \A c \in Call :
        call[c].answer # Nil /\ call[c].answer.kind = "Applied" =>
            call[c].answer.entry.term = call[c].expected

\* An answer Applied is the result of the call's own command: what the comment
\* in propose says the two reads of the term are for, "rather than trusting
\* applied_result(index) on index alone and risking handing this caller back a
\* different command's value".
AppliedIsOwn ==
    \A c \in Call :
        call[c].answer # Nil /\ call[c].answer.kind = "Applied" =>
            call[c].answer.entry.owner = c

\* Between requests fewer than compact_threshold entries are applied above the
\* boundary, and never a negative number of them: compaction always advances
\* ("retaining at least as much as the trigger threshold would mean up_to_index
\* never clears the current boundary") and the subtraction never underflows.
TailBounded ==
    reply = Nil => node.commit - node.boundary \in 0 .. Threshold - 1

\* A server that the transport can reach was configured or is, or was, durably
\* registered: add_learner persists before it connects.
ReachableIsRegistered == clients \subseteq Peer \cup registered

\* Every RPC ends, whatever is dropped, replaced, timed out or panics.
CallsAreAnswered ==
    \A c \in Call : call[c].pc = "Start" ~> call[c].pc = "Done"

\* What is recovered is what was written: entries are where they were.  "No WAL
\* or checksums -- a synchronous write+flush is what the declared crash model
\* actually requires".
RecoversAligned == Aligned(node)

=============================================================================
