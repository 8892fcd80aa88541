-------------------------------- MODULE Raft --------------------------------
(***************************************************************************)
(* The consensus core of kurogane (crates/kurogane-raft): a set of nodes,  *)
(* each a state machine stepped by timer ticks, peer messages and calls of *)
(* its owner, and the network and the disks between them.                  *)
(*                                                                         *)
(* One action is one whole call of Node::step, propose,                    *)
(* propose_config_change, add_learner, remove_learner or compact, together *)
(* with the effects it returns: the owner makes the Persist* effects       *)
(* durable, in order, before it honours the Sends.                         *)
(***************************************************************************)
EXTENDS ClusterConfig, Sequences, FiniteSetsExt

CONSTANTS
    Node,           \* every server that exists, voter or not
    Bootstrap,      \* the genesis voters, C_0; the others join as learners
    Command,        \* opaque client commands
    SnapshotData,   \* opaque snapshot bytes
    VoterSets,      \* the arguments an operator gives propose_config_change
    CompactPoints,  \* the log indices an owner may ask to compact up to
    Crashable,      \* the nodes that may crash and restart
    MaxTerm,        \* bound: no election starts from this term on
    MaxIndex,       \* bound: no proposal is accepted at this log length
    Nil             \* no vote; no snapshot bytes

ASSUME BootstrapAssumption == Bootstrap \subseteq Node /\ Bootstrap # {}
ASSUME NodeAssumption == IsFiniteSet(Node) /\ Nil \notin Node
ASSUME InputAssumption ==
    /\ VoterSets \subseteq (SUBSET Node)
    /\ CompactPoints \subseteq Nat
    /\ Crashable \subseteq Node
ASSUME BoundAssumption == MaxTerm \in Nat /\ MaxIndex \in Nat

VARIABLES
    role, currentTerm, votedFor, votesGranted,
    log,                 \* the entries above the snapshot boundary
    commitIndex,
    nextIndex, matchIndex,  \* per peer; 0 in nextIndex: not tracked
    snapshot,            \* metadata, bytes and configuration at the boundary
    currentConfig, currentConfigIndex,
    learners,
    disk,                \* what the Persist* effects have made durable
    msgs,                \* the messages in flight
    elected,             \* history: every election won, with its votes
    committed            \* history: every entry some node counted committed

electionVars == <<role, currentTerm, votedFor, votesGranted>>
leaderVars == <<nextIndex, matchIndex>>
configVars == <<currentConfig, currentConfigIndex>>
vars == <<electionVars, log, commitIndex, leaderVars, snapshot, configVars,
          learners, disk, msgs, elected, committed>>

-----------------------------------------------------------------------------
(* Data *)

Follower == "Follower"
Candidate == "Candidate"
Leader == "Leader"

\* The code's None for a term.
NoTerm == -1

NoProgress == [p \in Node |-> 0]

Config == [voters : SUBSET Node, oldVoters : SUBSET Node]

CommandPayload(c) == [type |-> "Command", command |-> c]
ConfigurationPayload(c) == [type |-> "Configuration", config |-> c]

Payload == [type : {"Command"}, command : Command]
              \cup [type : {"Configuration"}, config : Config]

Entry == [term : Nat, payload : Payload]

Snapshot == [index : Nat, term : Nat, data : SnapshotData \cup {Nil},
             config : Config]

NoSnapshot(c) == [index |-> 0, term |-> 0, data |-> Nil, config |-> c]

Durable == [term : Nat, votedFor : Node \cup {Nil}, log : Seq(Entry),
            snapshot : Snapshot, learners : SUBSET Node]

FreshDisk == [term |-> 0, votedFor |-> Nil, log |-> <<>>,
              snapshot |-> NoSnapshot(EmptyConfig), learners |-> {}]

Message ==
    [type : {"RequestVote"}, from : Node, to : Node, term : Nat,
       lastLogIndex : Nat, lastLogTerm : Nat]
  \cup
    [type : {"RequestVoteResponse"}, from : Node, to : Node, term : Nat,
       granted : BOOLEAN]
  \cup
    [type : {"AppendEntries"}, from : Node, to : Node, term : Nat,
       prevLogIndex : Nat, prevLogTerm : Nat, entries : Seq(Entry),
       leaderCommit : Nat]
  \cup
    [type : {"AppendEntriesResponse"}, from : Node, to : Node, term : Nat,
       success : BOOLEAN, matchIndex : Nat]
  \cup
    [type : {"InstallSnapshot"}, from : Node, to : Node, term : Nat,
       snapshot : Snapshot]
  \cup
    [type : {"InstallSnapshotResponse"}, from : Node, to : Node, term : Nat,
       lastIncludedIndex : Nat]

-----------------------------------------------------------------------------
(* Reading a log *)

\* term_at over a log lg whose first entry sits just above snap's boundary.
TermIn(lg, snap, i) ==
    IF i = 0 THEN NoTerm
    ELSE IF i = snap.index THEN snap.term
    ELSE IF i - snap.index \in DOMAIN lg THEN lg[i - snap.index].term
    ELSE NoTerm

TermAt(n, i) == TermIn(log[n], snapshot[n], i)

LastLogIndex(n) == snapshot[n].index + Len(log[n])

LastLogTerm(n) ==
    IF log[n] = <<>> THEN snapshot[n].term ELSE log[n][Len(log[n])].term

\* The configuration lg and snap determine, with the index that set it: the
\* value recompute_config and recover give current_config.
LatestConfiguration(lg, snap) ==
    LET at == {i \in DOMAIN lg : lg[i].payload.type = "Configuration"}
    IN  IF at = {}
        THEN [config |-> snap.config, index |-> snap.index]
        ELSE [config |-> lg[Max(at)].payload.config,
              index |-> snap.index + Max(at)]

\* Mutant of RecomputeConfig: the index is left behind.
RecomputeConfigOnly(n, lg, snap) ==
    /\ currentConfig' = [currentConfig EXCEPT ![n] = LatestConfiguration(lg, snap).config]
    /\ UNCHANGED currentConfigIndex

RecomputeConfig(n, lg, snap) ==
    LET latest == LatestConfiguration(lg, snap)
    IN  /\ currentConfig' = [currentConfig EXCEPT ![n] = latest.config]
        /\ currentConfigIndex' = [currentConfigIndex EXCEPT ![n] = latest.index]

IsMember(n, id) == IsVoter(currentConfig[n], id) \/ id \in learners[n]

ReplicationTargets(n) ==
    (currentConfig[n].voters \cup currentConfig[n].oldVoters
        \cup learners[n]) \ {n}

-----------------------------------------------------------------------------
(* Disk and network *)

\* Mutant of PersistHardState: the vote is not written.
PersistTermOnly(d, t, v) == [d EXCEPT !.term = t]

PersistHardState(d, t, v) == [d EXCEPT !.term = t, !.votedFor = v]

\* Mutant of PersistLog: one entry too many survives the truncation.
PersistLogOneLate(d, from, entries) ==
    LET keep == from - d.snapshot.index
        kept == IF keep < Len(d.log) THEN SubSeq(d.log, 1, keep) ELSE d.log
    IN  [d EXCEPT !.log = kept \o entries]

\* truncate at the absolute index from, then extend.
PersistLog(d, from, entries) ==
    LET keep == from - d.snapshot.index - 1
        kept == IF keep < Len(d.log) THEN SubSeq(d.log, 1, keep) ELSE d.log
    IN  [d EXCEPT !.log = kept \o entries]

PersistSnapshot(d, snap) == [d EXCEPT !.snapshot = snap]

PersistLearners(d, S) == [d EXCEPT !.learners = S]

\* A message in flight is received at any later time, in any order, or never.
\* It is received once; the repetitions a node must cope with come from
\* heartbeats, elections and retries sending the same content again.
Send(ms) == msgs' = msgs \cup ms

\* m is received, and answered by ms.
Reply(m, ms) == msgs' = (msgs \ {m}) \cup ms

\* The RPC that carries m fails or times out, or m is one its receiver ignores:
\* from a non-member, of a past term, or for a role it no longer has.
Lose(m) ==
    /\ msgs' = msgs \ {m}
    /\ UNCHANGED <<electionVars, log, commitIndex, leaderVars, snapshot,
                   configVars, learners, disk, elected, committed>>

RequestVote(n, p) ==
    [type |-> "RequestVote", from |-> n, to |-> p, term |-> currentTerm[n],
     lastLogIndex |-> LastLogIndex(n), lastLogTerm |-> LastLogTerm(n)]

RequestVoteResponse(n, p, t, granted) ==
    [type |-> "RequestVoteResponse", from |-> n, to |-> p, term |-> t,
     granted |-> granted]

AppendEntriesResponse(n, p, t, success, match) ==
    [type |-> "AppendEntriesResponse", from |-> n, to |-> p, term |-> t,
     success |-> success, matchIndex |-> match]

InstallSnapshotResponse(n, p, t, i) ==
    [type |-> "InstallSnapshotResponse", from |-> n, to |-> p, term |-> t,
     lastIncludedIndex |-> i]

\* Mutant of PrevLogTerm: a missing term is sent as it is.
RawPrevLogTerm(lg, snap, i) == TermIn(lg, snap, i)

\* The term sent with prev_log_index i; an index that has none is sent as 0.
PrevLogTerm(lg, snap, i) ==
    IF TermIn(lg, snap, i) = NoTerm THEN 0 ELSE TermIn(lg, snap, i)

\* What a leader n with this log owes peer p, whose next_index is next: entries
\* while the leader still holds the ones p needs, else its snapshot.
Replication(n, p, t, lg, snap, next, commit) ==
    IF next <= snap.index
    THEN [type |-> "InstallSnapshot", from |-> n, to |-> p, term |-> t,
          snapshot |-> snap]
    ELSE [type |-> "AppendEntries", from |-> n, to |-> p, term |-> t,
          prevLogIndex |-> next - 1,
          prevLogTerm |-> PrevLogTerm(lg, snap, next - 1),
          entries |-> SubSeq(lg, next - snap.index, Len(lg)),
          leaderCommit |-> commit]

ReplicateTo(n, p) ==
    Replication(n, p, currentTerm[n], log[n], snapshot[n], nextIndex[n][p],
                commitIndex[n])

\* replicate_to panics for a peer that has no next_index.
Tracked(n) == {p \in Node : nextIndex[n][p] # 0}

-----------------------------------------------------------------------------
(* Start and restart *)

Init ==
    LET C0(n) == IF n \in Bootstrap THEN Stable(Bootstrap) ELSE EmptyConfig
    IN  /\ role = [n \in Node |-> Follower]
        /\ currentTerm = [n \in Node |-> 0]
        /\ votedFor = [n \in Node |-> Nil]
        /\ votesGranted = [n \in Node |-> {}]
        /\ log = [n \in Node |-> <<>>]
        /\ commitIndex = [n \in Node |-> 0]
        /\ nextIndex = [n \in Node |-> NoProgress]
        /\ matchIndex = [n \in Node |-> NoProgress]
        /\ snapshot = [n \in Node |-> NoSnapshot(C0(n))]
        /\ currentConfig = [n \in Node |-> C0(n)]
        /\ currentConfigIndex = [n \in Node |-> 0]
        /\ learners = [n \in Node |-> {}]
        /\ disk = [n \in Node |-> FreshDisk]
        /\ msgs = {}
        /\ elected = {}
        /\ committed = {}

\* kurogane-node's test for storage that has never recovered anything real.
IsFreshStorage(d) ==
    d.term = 0 /\ d.votedFor = Nil /\ d.log = <<>> /\ d.snapshot.index = 0

\* The snapshot configuration a restarted node assumes.  With no snapshot on
\* disk, KUROGANE_PEERS, which always names the node itself, is taken for C_0,
\* except by a joiner whose storage is still fresh.
RecoveredConfig(n) ==
    CASE disk[n].snapshot.index > 0 -> disk[n].snapshot.config
      [] disk[n].snapshot.index = 0 /\ n \notin Bootstrap /\ IsFreshStorage(disk[n])
            -> EmptyConfig
      [] OTHER -> Stable(Bootstrap \cup {n})

\* A crash followed by Node::recover (or new_learner) from what is on disk.
Restart(n) ==
    LET snap == [disk[n].snapshot EXCEPT !.config = RecoveredConfig(n)]
    IN  /\ role' = [role EXCEPT ![n] = Follower]
        /\ currentTerm' = [currentTerm EXCEPT ![n] = disk[n].term]
        /\ votedFor' = [votedFor EXCEPT ![n] = disk[n].votedFor]
        /\ votesGranted' = [votesGranted EXCEPT ![n] = {}]
        /\ log' = [log EXCEPT ![n] = disk[n].log]
        /\ commitIndex' = [commitIndex EXCEPT ![n] = disk[n].snapshot.index]
        /\ nextIndex' = [nextIndex EXCEPT ![n] = NoProgress]
        /\ matchIndex' = [matchIndex EXCEPT ![n] = NoProgress]
        /\ snapshot' = [snapshot EXCEPT ![n] = snap]
        /\ RecomputeConfig(n, disk[n].log, snap)
        /\ learners' = [learners EXCEPT ![n] = disk[n].learners]
        /\ UNCHANGED <<disk, msgs, elected, committed>>

-----------------------------------------------------------------------------
(* Elections *)

StepDown(n, t) ==
    /\ role' = [role EXCEPT ![n] = Follower]
    /\ currentTerm' = [currentTerm EXCEPT ![n] = t]
    /\ votedFor' = [votedFor EXCEPT ![n] = Nil]
    /\ votesGranted' = [votesGranted EXCEPT ![n] = {}]
    /\ nextIndex' = [nextIndex EXCEPT ![n] = NoProgress]
    /\ matchIndex' = [matchIndex EXCEPT ![n] = NoProgress]

\* A response with a higher term: step down, persist, nothing else.
AdoptTerm(m) ==
    LET n == m.to
    IN  /\ m.term > currentTerm[n]
        /\ StepDown(n, m.term)
        /\ disk' = [disk EXCEPT ![n] = PersistHardState(@, m.term, Nil)]
        /\ Reply(m, {})
        /\ UNCHANGED <<log, commitIndex, snapshot, configVars, learners, elected,
                       committed>>

\* Node n leads term t if votes are a quorum: it is become_leader, but for the
\* role and the broadcast.
WinWith(n, t, votes) ==
    LET Seed(v) == [p \in Node |-> IF p \in ReplicationTargets(n) THEN v ELSE 0]
    IN  IF HasQuorum(currentConfig[n], votes)
        THEN /\ nextIndex' = [nextIndex EXCEPT ![n] = Seed(LastLogIndex(n) + 1)]
             /\ matchIndex' = [matchIndex EXCEPT ![n] = Seed(0)]
             /\ elected' = elected \cup {[term |-> t, leader |-> n, votes |-> votes,
                                         config |-> currentConfig[n]]}
        ELSE UNCHANGED <<leaderVars, elected>>

\* An election timeout, at any moment, of a node that is not the leader and is
\* a voter of its own configuration.  Votes are asked of voters only, not of
\* the voters of the old set alone.
StartElection(n) ==
    LET t == currentTerm[n] + 1
        won == HasQuorum(currentConfig[n], {n})
    IN  /\ role[n] # Leader
        /\ IsVoter(currentConfig[n], n)
        /\ currentTerm[n] < MaxTerm
        /\ role' = [role EXCEPT ![n] = IF won THEN Leader ELSE Candidate]
        /\ currentTerm' = [currentTerm EXCEPT ![n] = t]
        /\ votedFor' = [votedFor EXCEPT ![n] = n]
        /\ votesGranted' = [votesGranted EXCEPT ![n] = {n}]
        /\ disk' = [disk EXCEPT ![n] = PersistHardState(@, t, n)]
        /\ WinWith(n, t, {n})
        /\ UNCHANGED <<log, commitIndex, snapshot, configVars, learners, committed>>
        /\ Send(IF won
                THEN {ReplicateTo(n, p)' : p \in ReplicationTargets(n)}
                ELSE {RequestVote(n, p)' : p \in currentConfig[n].voters \ {n}})

\* Mutant of LogIsUpToDate: the last terms are not compared.
LogIsNotShorter(n, m) == m.lastLogIndex >= LastLogIndex(n)

LogIsUpToDate(n, m) ==
    \/ m.lastLogTerm > LastLogTerm(n)
    \/ m.lastLogTerm = LastLogTerm(n) /\ m.lastLogIndex >= LastLogIndex(n)

\* A stale request, and any request that reaches a leader, is refused and
\* otherwise disregarded.  During a joint transition a node that heard from a
\* leader within the last heartbeat interval does the same; time is abstracted
\* here, so it may.
DisregardRequestVote(m) ==
    LET n == m.to
    IN  /\ \/ m.term < currentTerm[n]
           \/ role[n] = Leader
           \/ IsJoint(currentConfig[n])
        /\ Reply(m, {RequestVoteResponse(n, m.from, currentTerm[n], FALSE)})
        /\ UNCHANGED <<electionVars, log, commitIndex, leaderVars, snapshot,
                       configVars, learners, disk, elected, committed>>

AnswerRequestVote(m) ==
    LET n == m.to
        newer == m.term > currentTerm[n]
        vote == IF newer THEN Nil ELSE votedFor[n]
        grant == LogIsUpToDate(n, m) /\ vote \in {Nil, m.from}
        vote2 == IF grant THEN m.from ELSE vote
    IN  /\ m.term >= currentTerm[n]
        /\ role[n] # Leader
        /\ role' = [role EXCEPT ![n] = IF newer THEN Follower ELSE @]
        /\ currentTerm' = [currentTerm EXCEPT ![n] = m.term]
        /\ votedFor' = [votedFor EXCEPT ![n] = vote2]
        /\ votesGranted' = [votesGranted EXCEPT ![n] = IF newer THEN {} ELSE @]
        /\ nextIndex' = [nextIndex EXCEPT ![n] = IF newer THEN NoProgress ELSE @]
        /\ matchIndex' = [matchIndex EXCEPT ![n] = IF newer THEN NoProgress ELSE @]
        /\ disk' = [disk EXCEPT ![n] = IF newer \/ grant
                                       THEN PersistHardState(@, m.term, vote2)
                                       ELSE @]
        /\ Reply(m, {RequestVoteResponse(n, m.from, m.term, grant)})
        /\ UNCHANGED <<log, commitIndex, snapshot, configVars, learners, elected, committed>>

OnRequestVote(m) ==
    /\ m.type = "RequestVote"
    /\ IsMember(m.to, m.from)
    /\ DisregardRequestVote(m) \/ AnswerRequestVote(m)

\* A granted vote of the current term, counted by a candidate.
CountVote(m) ==
    LET n == m.to
        votes == votesGranted[n] \cup {m.from}
        won == HasQuorum(currentConfig[n], votes)
    IN  /\ m.term = currentTerm[n]
        /\ role[n] = Candidate
        /\ m.granted
        /\ votesGranted' = [votesGranted EXCEPT ![n] = votes]
        /\ role' = [role EXCEPT ![n] = IF won THEN Leader ELSE @]
        /\ WinWith(n, m.term, votes)
        /\ UNCHANGED <<currentTerm, votedFor, log, commitIndex, snapshot,
                       configVars, learners, disk, committed>>
        /\ Reply(m, IF won THEN {ReplicateTo(n, p)' : p \in ReplicationTargets(n)}
                    ELSE {})

OnRequestVoteResponse(m) ==
    /\ m.type = "RequestVoteResponse"
    /\ IsMember(m.to, m.from)
    /\ AdoptTerm(m) \/ CountVote(m)

-----------------------------------------------------------------------------
(* Commitment, on the leader *)

\* Mutant of OfOwnTerm: any entry commits by count.
OfAnyTerm(n, lg, i) == TermIn(lg, snapshot[n], i) # NoTerm

\* The Figure 8 guard: only an entry of the leader's own term commits by count.
OfOwnTerm(n, lg, i) == TermIn(lg, snapshot[n], i) = currentTerm[n]

\* The commit index after one pass of the majority rule over log lg under
\* configuration c: the highest index a quorum holds, if it may commit by count.
\* One index beyond the log stands for all of them: none has a term.
CommitPass(n, lg, c, match, commit) ==
    LET last == snapshot[n].index + Len(lg)
        Holders(i) == {p \in Node : IF p = n THEN last >= i ELSE match[p] >= i}
        reached == {i \in (commit + 1) .. (last + 1) : CommitQuorum(c, Holders(i))}
    IN  IF reached # {} /\ OfOwnTerm(n, lg, Max(reached))
        THEN Max(reached)
        ELSE commit

\* What advance_commit_index makes of leader n's log lg, active configuration
\* and match indices.  A committed joint configuration is followed at once by
\* its plain successor, which gets a commit pass of its own; a leader outside
\* a committed plain configuration retires.
AdvanceCommitIndex(n, lg, active, match) ==
    LET commit1 == CommitPass(n, lg, active.config, match, commitIndex[n])
        finish == IsJoint(active.config) /\ commit1 >= active.index
        next == [term |-> currentTerm[n],
                 payload |-> ConfigurationPayload(Stable(active.config.voters))]
        lg2 == IF finish THEN Append(lg, next) ELSE lg
        active2 == IF finish THEN LatestConfiguration(lg2, snapshot[n]) ELSE active
        commit2 == IF finish THEN CommitPass(n, lg2, active2.config, match, commit1)
                             ELSE commit1
    IN  [log |-> lg2, active |-> active2, commit |-> commit2,
         retired |-> /\ ~ IsJoint(active2.config)
                     /\ commit2 >= active2.index
                     /\ n \notin active2.config.voters]

\* The history record of the entries of lg that node n newly counts committed.
NewlyCommitted(n, lg, commit) ==
    {[index |-> i, entry |-> lg[i - snapshot[n].index]] :
        i \in (commitIndex[n] + 1) .. commit}

\* Leader n continues with log lg, configuration active, the given per-peer
\* progress and disk d, and runs advance_commit_index.
LeaderAdvance(n, lg, active, next, match, d) ==
    LET adv == AdvanceCommitIndex(n, lg, active, match)
        fresh == SubSeq(adv.log, Len(log[n]) + 1, Len(adv.log))
    IN  /\ log' = [log EXCEPT ![n] = adv.log]
        /\ commitIndex' = [commitIndex EXCEPT ![n] = adv.commit]
        /\ currentConfig' = [currentConfig EXCEPT ![n] = adv.active.config]
        /\ currentConfigIndex' = [currentConfigIndex EXCEPT ![n] = adv.active.index]
        /\ role' = [role EXCEPT ![n] = IF adv.retired THEN Follower ELSE @]
        /\ votesGranted' = [votesGranted EXCEPT ![n] = IF adv.retired THEN {} ELSE @]
        /\ nextIndex' = [nextIndex EXCEPT ![n] = IF adv.retired THEN NoProgress ELSE next]
        /\ matchIndex' = [matchIndex EXCEPT ![n] = IF adv.retired THEN NoProgress ELSE match]
        /\ disk' = [disk EXCEPT ![n] = IF fresh = <<>> THEN d
                                       ELSE PersistLog(d, LastLogIndex(n) + 1, fresh)]
        /\ committed' = committed \cup NewlyCommitted(n, adv.log, adv.commit)
        /\ UNCHANGED <<currentTerm, votedFor, snapshot, elected>>

\* propose's and propose_config_change's own append.
AppendAndAdvance(n, payload, d) ==
    LET lg == Append(log[n], [term |-> currentTerm[n], payload |-> payload])
    IN  /\ role[n] = Leader
        /\ LastLogIndex(n) < MaxIndex
        /\ LeaderAdvance(n, lg, LatestConfiguration(lg, snapshot[n]),
                         nextIndex[n], matchIndex[n], d)

-----------------------------------------------------------------------------
(* Calls of the owner *)

Propose(n, c) ==
    /\ AppendAndAdvance(n, CommandPayload(c), disk[n])
    /\ UNCHANGED <<learners, msgs>>

\* Starts a joint transition from whatever voters are active, whether or not
\* that configuration is itself still in transition.
ProposeConfigChange(n, newVoters) ==
    LET remaining == learners[n] \ newVoters
        joint == [voters |-> newVoters, oldVoters |-> currentConfig[n].voters]
        d == IF remaining # learners[n] THEN PersistLearners(disk[n], remaining)
                                        ELSE disk[n]
    IN  /\ newVoters # {}
        /\ AppendAndAdvance(n, ConfigurationPayload(joint), d)
        /\ learners' = [learners EXCEPT ![n] = remaining]
        /\ UNCHANGED msgs

SetLearners(n, S) ==
    /\ role[n] = Leader
    /\ learners' = [learners EXCEPT ![n] = S]
    /\ disk' = [disk EXCEPT ![n] = PersistLearners(@, S)]
    /\ UNCHANGED <<electionVars, log, commitIndex, snapshot, configVars, msgs,
                   elected, committed>>

\* Mutant of AddLearner: no progress is seeded.
AddLearnerUnseeded(n, id) ==
    /\ ~ IsMember(n, id)
    /\ SetLearners(n, learners[n] \cup {id})
    /\ UNCHANGED leaderVars

\* A peer that already has tracked progress keeps it.
AddLearner(n, id) ==
    /\ ~ IsMember(n, id)
    /\ SetLearners(n, learners[n] \cup {id})
    /\ IF id \in Tracked(n)
       THEN UNCHANGED leaderVars
       ELSE /\ nextIndex' = [nextIndex EXCEPT ![n][id] = LastLogIndex(n) + 1]
            /\ matchIndex' = [matchIndex EXCEPT ![n][id] = 0]

RemoveLearner(n, id) ==
    /\ id \in learners[n]
    /\ SetLearners(n, learners[n] \ {id})
    /\ UNCHANGED leaderVars

\* Mutant of ConfigAtBoundary: the active configuration is recorded.
ActiveConfig(n, i) == currentConfig[n]

\* The configuration compact records at a new boundary i: the one the drained
\* prefix ends with, which need not be the active one.
ConfigAtBoundary(n, i) ==
    LatestConfiguration(SubSeq(log[n], 1, i - snapshot[n].index), snapshot[n]).config

Compact(n, i, data) ==
    LET rest == SubSeq(log[n], i - snapshot[n].index + 1, Len(log[n]))
        snap == [index |-> i, term |-> TermAt(n, i), data |-> data,
                 config |-> ConfigAtBoundary(n, i)]
    IN  /\ i > snapshot[n].index
        /\ i <= commitIndex[n]
        /\ i <= LastLogIndex(n)      \* or compact panics
        /\ log' = [log EXCEPT ![n] = rest]
        /\ snapshot' = [snapshot EXCEPT ![n] = snap]
        /\ RecomputeConfig(n, rest, snap)
        /\ disk' = [disk EXCEPT ![n] = PersistLog(PersistSnapshot(@, snap), i + 1, rest)]
        /\ UNCHANGED <<electionVars, commitIndex, leaderVars, learners, msgs,
                       elected, committed>>

-----------------------------------------------------------------------------
(* Replication *)

\* Mutant of Heartbeat: a heartbeat carries no entries.
HeartbeatEmpty(n) ==
    /\ role[n] = Leader
    /\ Send({[ReplicateTo(n, p) EXCEPT !.entries = <<>>] : p \in ReplicationTargets(n)})
    /\ UNCHANGED <<electionVars, log, commitIndex, leaderVars, snapshot,
                   configVars, learners, disk, elected, committed>>

\* The heartbeat tick of a leader.
Heartbeat(n) ==
    /\ role[n] = Leader
    /\ ReplicationTargets(n) \subseteq Tracked(n)      \* or replicate_to panics
    /\ Send({ReplicateTo(n, p) : p \in ReplicationTargets(n)})
    /\ UNCHANGED <<electionVars, log, commitIndex, leaderVars, snapshot,
                   configVars, learners, disk, elected, committed>>

\* A leader's message of the current term or a later one.
ObserveLeader(n, t) ==
    \/ t > currentTerm[n] /\ StepDown(n, t)
    \/ /\ t = currentTerm[n]
       /\ role' = [role EXCEPT ![n] = IF @ = Candidate THEN Follower ELSE @]
       /\ UNCHANGED <<currentTerm, votedFor, votesGranted, leaderVars>>

\* The disk of a node that has observed a leader of term t.
ObservedDisk(n, t) ==
    IF t > currentTerm[n] THEN PersistHardState(disk[n], t, Nil) ELSE disk[n]

\* Mutant of PrevLogSatisfied: the term of the previous entry is not compared.
PrevLogInRange(n, m) == m.prevLogIndex <= LastLogIndex(n)

\* A prev_log_index at or below the snapshot boundary is taken to match.
PrevLogSatisfied(n, m) ==
    \/ m.prevLogIndex <= snapshot[n].index
    \/ TermAt(n, m.prevLogIndex) = m.prevLogTerm

\* The request's entries that n does not hold yet, above its boundary.
Missing(n, m) ==
    {k \in DOMAIN m.entries :
        /\ m.prevLogIndex + k > snapshot[n].index
        /\ TermAt(n, m.prevLogIndex + k) # m.entries[k].term}

\* n's log after the merge loop: cut before the first missing entry, and
\* followed by that entry and all the later ones.
MergedLog(n, m) ==
    LET k == Min(Missing(n, m))
    IN  IF Missing(n, m) = {} THEN log[n]
        ELSE SubSeq(log[n], 1, m.prevLogIndex + k - 1 - snapshot[n].index)
                \o SubSeq(m.entries, k, Len(m.entries))

RejectAppendEntries(m) ==
    LET n == m.to
    IN  /\ \/ /\ m.term < currentTerm[n]
              /\ UNCHANGED <<electionVars, leaderVars, disk>>
           \/ /\ ~ PrevLogSatisfied(n, m)
              /\ ObserveLeader(n, m.term)
              /\ disk' = [disk EXCEPT ![n] = ObservedDisk(n, m.term)]
        /\ UNCHANGED <<log, commitIndex, snapshot, configVars, learners, elected, committed>>
        /\ Reply(m, {AppendEntriesResponse(n, m.from, currentTerm'[n], FALSE, 0)})

AcceptAppendEntries(m) ==
    LET n == m.to
        lg == MergedLog(n, m)
        from == m.prevLogIndex + Min(Missing(n, m))
        commit == IF m.leaderCommit > commitIndex[n]
                  THEN Min({m.leaderCommit, snapshot[n].index + Len(lg)})
                  ELSE commitIndex[n]
    IN  /\ PrevLogSatisfied(n, m)
        /\ ObserveLeader(n, m.term)
        /\ log' = [log EXCEPT ![n] = lg]
        /\ commitIndex' = [commitIndex EXCEPT ![n] = commit]
        /\ committed' = committed \cup NewlyCommitted(n, lg, commit)
        /\ IF Missing(n, m) = {}
           THEN /\ UNCHANGED configVars
                /\ disk' = [disk EXCEPT ![n] = ObservedDisk(n, m.term)]
           ELSE /\ RecomputeConfig(n, lg, snapshot[n])
                /\ disk' = [disk EXCEPT ![n] =
                      PersistLog(ObservedDisk(n, m.term), from,
                                 SubSeq(lg, from - snapshot[n].index, Len(lg)))]
        /\ UNCHANGED <<snapshot, learners, elected>>
        /\ Reply(m, {AppendEntriesResponse(n, m.from, m.term, TRUE,
                                       m.prevLogIndex + Len(m.entries))})

\* AppendEntries and InstallSnapshot are taken from any sender, member or not.
OnAppendEntries(m) ==
    /\ m.type = "AppendEntries"
    /\ RejectAppendEntries(m) \/ AcceptAppendEntries(m)

\* The trailing replicate_to of both response handlers.
ReplicateIfBehind(m) ==
    LET n == m.to
    IN  Reply(m, IF role'[n] = Leader /\ nextIndex'[n][m.from] <= LastLogIndex(n)'
                 THEN {ReplicateTo(n, m.from)'}
                 ELSE {})

\* A peer's acknowledgement, by a response of the current term, of every entry
\* up to index i.
RecordMatch(m, i) ==
    LET n == m.to
        match == Max({matchIndex[n][m.from], i})
    IN  /\ LeaderAdvance(n, log[n],
                         [config |-> currentConfig[n], index |-> currentConfigIndex[n]],
                         [nextIndex[n] EXCEPT ![m.from] = match + 1],
                         [matchIndex[n] EXCEPT ![m.from] = match],
                         disk[n])
        /\ UNCHANGED learners
        /\ ReplicateIfBehind(m)

BackOff(m) ==
    LET n == m.to
    IN  /\ nextIndex' = [nextIndex EXCEPT ![n][m.from] = Max({@ - 1, 1})]
        /\ UNCHANGED <<electionVars, log, commitIndex, matchIndex, snapshot,
                       configVars, learners, disk, elected, committed>>
        /\ ReplicateIfBehind(m)

OnAppendEntriesResponse(m) ==
    /\ m.type = "AppendEntriesResponse"
    /\ IsMember(m.to, m.from)
    /\ \/ AdoptTerm(m)
       \/ /\ m.term = currentTerm[m.to]
          /\ role[m.to] = Leader
          /\ m.from \in Tracked(m.to)      \* or the handler panics
          /\ \/ m.success /\ RecordMatch(m, m.matchIndex)
             \/ ~ m.success /\ BackOff(m)

-----------------------------------------------------------------------------
(* Snapshot transfer *)

\* A point below n's own boundary has no term in n's log, so it is not covered.
AlreadyCovered(n, snap) == TermAt(n, snap.index) = snap.term

RefuseSnapshot(m) ==
    LET n == m.to
    IN  /\ m.term < currentTerm[n]
        /\ UNCHANGED <<electionVars, log, commitIndex, leaderVars, snapshot,
                       configVars, learners, disk, elected, committed>>
        /\ Reply(m, {InstallSnapshotResponse(n, m.from, currentTerm[n],
                                         snapshot[n].index)})

KeepLog(m) ==
    LET n == m.to
    IN  /\ AlreadyCovered(n, m.snapshot)
        /\ disk' = [disk EXCEPT ![n] = ObservedDisk(n, m.term)]
        /\ UNCHANGED <<log, commitIndex, snapshot, configVars>>

ReplaceLog(m) ==
    LET n == m.to
        snap == m.snapshot
    IN  /\ ~ AlreadyCovered(n, snap)
        /\ log' = [log EXCEPT ![n] = <<>>]
        /\ snapshot' = [snapshot EXCEPT ![n] = snap]
        /\ commitIndex' = [commitIndex EXCEPT ![n] = Max({@, snap.index})]
        /\ RecomputeConfig(n, <<>>, snap)
        /\ disk' = [disk EXCEPT ![n] =
              PersistLog(PersistSnapshot(ObservedDisk(n, m.term), snap),
                         snap.index + 1, <<>>)]

AcceptSnapshot(m) ==
    LET n == m.to
    IN  /\ ObserveLeader(n, m.term)
        /\ KeepLog(m) \/ ReplaceLog(m)
        /\ UNCHANGED <<learners, elected, committed>>
        /\ Reply(m, {InstallSnapshotResponse(n, m.from, m.term, m.snapshot.index)})

OnInstallSnapshot(m) ==
    /\ m.type = "InstallSnapshot"
    /\ RefuseSnapshot(m) \/ AcceptSnapshot(m)

OnInstallSnapshotResponse(m) ==
    /\ m.type = "InstallSnapshotResponse"
    /\ IsMember(m.to, m.from)
    /\ \/ AdoptTerm(m)
       \/ /\ m.term = currentTerm[m.to]
          /\ role[m.to] = Leader
          /\ m.from \in Tracked(m.to)      \* or the handler panics
          /\ RecordMatch(m, m.lastIncludedIndex)

-----------------------------------------------------------------------------

\* Everything but the start of a configuration change.
Step ==
    \/ \E n \in Node : StartElection(n)
    \/ \E n \in Node : Heartbeat(n)
    \/ \E n \in Crashable : Restart(n)
    \/ \E n \in Node, c \in Command : Propose(n, c)
    \/ \E n, id \in Node : AddLearner(n, id)
    \/ \E n, id \in Node : RemoveLearner(n, id)
    \/ \E n \in Node, i \in CompactPoints, d \in SnapshotData : Compact(n, i, d)
    \/ \E m \in msgs : Lose(m)
    \/ \E m \in msgs : OnRequestVote(m)
    \/ \E m \in msgs : OnRequestVoteResponse(m)
    \/ \E m \in msgs : OnAppendEntries(m)
    \/ \E m \in msgs : OnAppendEntriesResponse(m)
    \/ \E m \in msgs : OnInstallSnapshot(m)
    \/ \E m \in msgs : OnInstallSnapshotResponse(m)

Next ==
    \/ Step
    \/ \E n \in Node, S \in VoterSets : ProposeConfigChange(n, S)

Spec == Init /\ [][Next]_vars

\* An operator who keeps to the on-ramp that the doc of propose_config_change asks
\* for, a new server being a learner (or an old voter) before it is a voter, and who
\* starts a change only from a configuration that is committed and not joint.
\* Neither the code nor its docs ask for the latter: it is a restriction of the
\* model, without which LeaderCompleteness fails.
OperatedNext ==
    \/ Step
    \/ \E n \in Node, S \in VoterSets :
          /\ S \ {n} \subseteq Tracked(n)
          /\ ~ IsJoint(currentConfig[n])
          /\ currentConfigIndex[n] <= commitIndex[n]
          /\ ProposeConfigChange(n, S)

OperatedSpec == Init /\ [][OperatedNext]_vars

-----------------------------------------------------------------------------
(* Types *)

\* Every variable has its type: in particular no handler ever produces an
\* entry, a snapshot or a message outside the protocol's vocabulary, and the
\* index arithmetic of vec_index, entries_from and saturating_sub stays in Nat.
TypeOK ==
    /\ role \in [Node -> {Follower, Candidate, Leader}]
    /\ currentTerm \in [Node -> Nat]
    /\ votedFor \in [Node -> Node \cup {Nil}]
    /\ votesGranted \in [Node -> SUBSET Node]
    /\ log \in [Node -> Seq(Entry)]
    /\ commitIndex \in [Node -> Nat]
    /\ nextIndex \in [Node -> [Node -> Nat]]
    /\ matchIndex \in [Node -> [Node -> Nat]]
    /\ snapshot \in [Node -> Snapshot]
    /\ currentConfig \in [Node -> Config]
    /\ currentConfigIndex \in [Node -> Nat]
    /\ learners \in [Node -> SUBSET Node]
    /\ disk \in [Node -> Durable]
    /\ msgs \subseteq Message
    /\ elected \subseteq [term : Nat, leader : Node, votes : SUBSET Node, config : Config]
    /\ committed \subseteq [index : Nat, entry : Entry]

-----------------------------------------------------------------------------
(* Safety *)

\* The evidence that v voted for candidate c in term t: a granted reply in
\* flight, a vote counted by a candidate, or one that elected a leader.
Voted(v, c, t) ==
    \/ \E m \in msgs : /\ m.type = "RequestVoteResponse" /\ m.granted
                       /\ m.from = v /\ m.to = c /\ m.term = t
    \/ currentTerm[c] = t /\ v \in votesGranted[c]
    \/ \E e \in elected : e.leader = c /\ e.term = t /\ v \in e.votes

\* No two votes of one node in one term are for different candidates, however
\* it crashes, restarts and is asked again: the hard state that on_request_vote
\* and start_election persist before anything is sent is the one recover
\* starts from.
VoteOnce ==
    \A v, c, d \in Node : \A t \in 1 .. MaxTerm :
        Voted(v, c, t) /\ Voted(v, d, t) => c = d

HardStateStep ==
    \A n \in Node :
        \/ currentTerm'[n] > currentTerm[n]
        \/ currentTerm'[n] = currentTerm[n] /\ votedFor[n] \in {Nil, votedFor'[n]}

\* A node's term never goes back, and within a term a vote once cast is never
\* changed or forgotten, by any handler or by a crash and recover: the promise
\* Effect::PersistHardState exists to keep.
VoteIsFinal == [][HardStateStep]_vars

\* At most one node ever wins a term (has_quorum, on_request_vote), even
\* counting leaders that have since crashed, retired or stepped down.
ElectionSafety ==
    \A e, f \in elected : e.term = f.term => e.leader = f.leader

EntryAt(n, i) == log[n][i - snapshot[n].index]

Holds(n, i) == i > snapshot[n].index /\ i <= LastLogIndex(n)

\* The indices both a and b hold, neither having compacted them away.
Shared(a, b) == {i \in (snapshot[a].index + 1) .. LastLogIndex(a) : Holds(b, i)}

\* Two logs that have the same term at an index hold the same entries up to it
\* (on_append_entries' prev-log check and conflict truncation), wherever
\* neither has compacted them away.
LogMatching ==
    \A a, b \in Node : \A i \in Shared(a, b) :
        TermAt(a, i) = TermAt(b, i) =>
            \A j \in Shared(a, b) : j <= i => EntryAt(a, j) = EntryAt(b, j)

\* No two nodes, at any two times, count different entries committed at the
\* same index: what drain_committed hands to the state machines never forks.
StateMachineSafety ==
    \A c, d \in committed : c.index = d.index => c = d

\* The leader of the newest term holds every entry ever committed, in its log
\* or under its snapshot boundary: the Leader Completeness that
\* on_append_entries relies on when it takes a prev_log_index below its own
\* boundary as matching.
LeaderCompleteness ==
    \A n \in Node :
        role[n] = Leader /\ (\A p \in Node : currentTerm[p] <= currentTerm[n]) =>
            \A c \in committed :
                \/ c.index <= snapshot[n].index
                \/ Holds(n, c.index) /\ EntryAt(n, c.index) = c.entry

\* The committed prefix is in the log or under the boundary, which is what
\* compact's expect("a committed index is always present in the log or already
\* the boundary") depends on.
CommittedIsPresent ==
    \A n \in Node : commitIndex[n] <= LastLogIndex(n)

\* The disk a crash would leave behind describes exactly the node that crashed:
\* every handler emits the Persist* effects its changes need, with splice
\* points that land where the in-memory log was cut.
DurableMatchesMemory ==
    \A n \in Node :
        /\ disk[n].term = currentTerm[n]
        /\ disk[n].votedFor = votedFor[n]
        /\ disk[n].log = log[n]
        /\ disk[n].learners = learners[n]
        /\ disk[n].snapshot.index = snapshot[n].index
        /\ disk[n].snapshot.term = snapshot[n].term
        /\ disk[n].snapshot.data = snapshot[n].data
        /\ snapshot[n].index > 0 => disk[n].snapshot.config = snapshot[n].config

\* The cached current_config and its index are what a scan of the log would
\* find: no mutation that can change "latest" misses its recompute_config.
ConfigLockstep ==
    \A n \in Node :
        [config |-> currentConfig[n], index |-> currentConfigIndex[n]]
            = LatestConfiguration(log[n], snapshot[n])

\* What a leader believes a peer of its own term has acknowledged, the peer
\* still holds, identical to the leader's copy, across delayed and repeated
\* responses, crashes, compactions and snapshot installs on either side.
MatchIndexSound ==
    \A l, p \in Node :
        role[l] = Leader /\ p # l /\ currentTerm[p] = currentTerm[l] =>
            /\ matchIndex[l][p] <= LastLogIndex(p)
            /\ \A i \in Shared(l, p) :
                  i <= matchIndex[l][p] => EntryAt(l, i) = EntryAt(p, i)

\* A leader tracks progress for every peer it replicates to, so no expect in
\* replicate_to or the response handlers can fire.
TargetsTracked ==
    \A n \in Node : role[n] = Leader => ReplicationTargets(n) \subseteq Tracked(n)

\* The configuration in force at index i, by the committed entries.
ConfigAt(i) ==
    LET at == {c \in committed : c.index <= i /\ c.entry.payload.type = "Configuration"}
    IN  IF at = {} THEN Stable(Bootstrap)
        ELSE (CHOOSE c \in at : \A d \in at : d.index <= c.index).entry.payload.config

\* A snapshot carries the membership active as of its boundary, as the doc of
\* Effect::PersistSnapshot.config says, whoever took it and whatever
\* configuration entries were above the boundary when it was taken.
SnapshotConfigSound ==
    \A n \in Node :
        snapshot[n].index > 0 => snapshot[n].config = ConfigAt(snapshot[n].index)

=============================================================================
