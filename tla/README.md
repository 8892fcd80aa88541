# Kurogane: a TLA+ verification project

Kurogane is a Raft implementation in Rust with a replicated key/value store on
top. This directory holds TLA+ models of it, TLC configurations that check them
on small instances, and proofs checked by TLAPS. `PROJECT.json` maps every
definition to the lines it models and lists, for each property of each run, the
mutation of the code under which the run fails.

## The system

| Part | State it keeps | Operations | Hard behaviour |
|---|---|---|---|
| `kurogane-raft`: `Node` | role, term, vote, votes granted, log above a snapshot boundary, commit index, per-peer `next_index`/`match_index`, snapshot with its membership, cached active membership, learners, tick counters | `step` (tick, six message types), `propose`, `propose_config_change`, `add_learner`, `remove_learner`, `compact`, `recover`, `new_learner` | messages late, lost, reordered; crashes; memberships that differ between nodes; timers |
| `kurogane-kv`: `StateMachine`, `Replica` | key/value map, `last_applied`, results by index | `drain_committed` after every call, `restore`, `recover`, `compact(retain)` | the label of a snapshot against its content |
| `kurogane-runtime` `storage.rs` | hard state, log, snapshot, learners in one file | `apply` of each `Persist*` effect, `open` | a crash, or a failed write, between two flushes of a batch |
| `actor.rs` | one `Replica`, storage, transport, leader hint, a bounded channel, the published `last_applied` | one request at a time: call, dispatch of effects in order, `maybe_compact` | requests of many tasks interleave; dropped ticks and responses |
| `server.rs` | an RPC handler's progress | `Propose` (four requests to the actor, a wait and a timeout), `ProposeConfigChange`, `AddLearner`; the peer service | the entry changes between two of the requests |
| `peer_client.rs`, `auth.rs` | reachable peers, token | one RPC per message, response fed back to the actor; token check | loss, delay, unreachable learners |
| `dto.rs`, `proto` | - | conversions to and from protobuf, of messages and of the file | defaults that are not written |
| `timer.rs`, tick counters | elapsed ticks | election timeout, heartbeat | progress; a late heartbeat against a timeout |
| `bin/kurogane-node.rs` | - | chooses `recover` or `new_learner` | restart of a server that has not finished joining |
| `kurogane-sim` | clock, inbox, traces | `Simulation::step`, `DurableState` | - |
| `kurogane-verify` | replicas, disks, pending operations, history | a driver with faults; `is_linearizable` | answers that race timeouts; the search's real-time order |

How the parts interact: RPC handlers and timers put requests in the actor's
channel; the actor calls its `Replica`, which calls its `Node` and drains what
has become committed; the node returns effects; the actor makes every `Persist*`
durable and hands every `Send` to the transport, in the order of the effects;
the transport performs one RPC and gives the response back to the actor. Nodes
share nothing but messages. A configuration takes effect on a node the moment
its entry is in that node's log, committed or not.

What makes each part correct: one vote per node and term across crashes, one
leader per term, logs that agree wherever their terms do, committed entries that
never fork or vanish, acknowledgements that stay true, a disk that always
describes the node, snapshots with the membership of their boundary, maps that
converge, no `expect` that can fire, answers that one atomic map could have
given, calls that end, and a cluster that finds and keeps a leader.

## Modules

```
ClusterConfig <- Raft <- Replica <- Wire    <- MCReplica      (snapshots)
      ^            ^        ^  ^
      |            |        |  KeyValue <- AtomicStore, History <- Linearizability
      |            |        +-- Harness (with History, AtomicStore)
      |            |              ^-- MCHarness (with Linearizability)   (histories)
      |            +-- MCRaft               (elections, figure8, replication, membership)
      +-- Server <- MCServer                (server)
      +-- Timing <- MCTiming                (timing)

proofs:  Basics <- RaftStateProofs <- RaftLogProofs <- RaftSafetyProofs <- ReplicaProofs
         ReplicaProofs <- WireProofs, HarnessProofs
         Basics <- ServerProofs
```

- `ClusterConfig` - the membership type and the two quorum rules: `HasQuorum`
  (elections, from `has_quorum`) and `CommitQuorum` (commitment, from
  `advance_commit_index`). They are separate because the code's rules differ: the
  election rule counts votes for the new set without asking whose they are.
- `Raft` - the core. Each variable is a field of `Node` for every node at once,
  plus `disk`, `msgs` (messages in flight) and two history variables that no
  guard reads: `elected`, every election won, and `committed`, every entry some
  node counted committed. One action is one whole call with the effects it returns:

  | Action | Code |
  |---|---|
  | `StartElection` | `on_tick` -> `start_election` (-> `become_leader`) |
  | `Heartbeat` | `on_leader_tick` -> `broadcast_replication` |
  | `OnRequestVote`, `OnRequestVoteResponse`, `OnAppendEntries`, `OnAppendEntriesResponse`, `OnInstallSnapshot`, `OnInstallSnapshotResponse` | the handlers of the same names |
  | `Propose`, `ProposeConfigChange` | append, then `advance_commit_index` in full: the automatic `C_new`, its own commit pass, retirement |
  | `AddLearner`, `RemoveLearner`, `Compact` | the calls of the same names |
  | `Restart` | a crash and `recover` or `new_learner` as `kurogane-node` chooses |
  | `Lose` | a failed RPC, or a message its receiver ignores |

- `KeyValue` - commands and their byte encoding, the map, its snapshot bytes. Decoders
  and replay are recursive functions, so that they can be proved about; a command of the
  log is its bytes.
- `Replica` - `Raft` composed with a `KeyValue` machine per node: every call of the
  node is conjoined with `DrainCommitted`, which restores a snapshot that jumped
  ahead and applies the rest. A call whose drain would panic leaves the replica
  behind its node, which `DrainNeverPanics` forbids.
- `Wire` - the conversions, over everything `Replica` sends, persists and answers.
  A protobuf message is the fields whose value is not the default.
- `History` - what a recorded operation means to the checker, and the definition of
  linearizability.
- `Linearizability` - `is_linearizable`: the search, with its memo of dead ends, that
  decides that definition. It is recursive and therefore apart from what is proved.
- `AtomicStore` - the abstract specification: one map on which each operation acts at
  one instant between its call and its answer. `Harness` is shown to implement it.
- `Harness` - `kurogane-verify`'s driver over `Replica`: clients submit, replicas
  crash and come back, `resolve_pending` answers or gives up.
- `Server` - one process: actor, channel, file, RPC handlers. Effects are dispatched
  one at a time, so a crash or a failed write falls between any two. The consensus
  core is reduced to what its owner can tell apart (`*Outcomes`): terms, votes, entries
  of peers replacing uncommitted ones, commitment, installation. A membership is reduced
  to what it says of this node (`Membership`), and a leader's progress to which of its
  own entries a majority may have (`Counted`); around that, `Advanced` is
  `advance_commit_index` in full, with the `C_new` it appends, the commit pass on it and
  retirement, on a response as after an append. So the batch `PersistLog(C_new)`, `Send`
  of a response that ends a transition is dispatched effect by effect like every other,
  and `MaybeCompact` may follow it. The peers keep to the
  protocol: they do not replace what was committed or acknowledged in their term
  (`Settled`), hold only entries they could have received (`PeerEntries`), and do not
  lead a term this node has led (`PeerLedTerms`).
- `Timing` - the tick counters on a quiescent cluster, in the simulator's steps: deliver
  what is due, tick every node.

Abstractions of `Raft`, all towards more behaviours: an election timeout or a
heartbeat may fire at any step and the joint-transition disruption guard of
`on_request_vote`, which compares tick counters, may or may not refuse (`Timing` has
the counters); `msgs` is a set from which a message is delivered at any later time, in
any order, or never; a response may reach a sender that has restarted meanwhile; the
effects of one call become durable together (`Server` takes them apart); commands and
snapshot bytes are opaque; voter lists are sets; a peer without progress has
`nextIndex` 0.

`Spec` lets an operator call `propose_config_change` with any of `VoterSets` at any
time, which the code accepts. `OperatedSpec` has an operator who follows the doc of
that call, a new server is a learner first, and who starts a change only from a
committed configuration that is not joint. Neither the docs nor the code ask for the
latter: it is the model's own restriction (see "Further observations").

## Runs

Bounds: `MaxTerm` (no election from that term on), `MaxIndex` (no proposal at that log
length; the automatic `C_new` may exceed it), `MaxInFlight`, `Campaigners` (nodes whose
timers may fire), `Crashable`, `VoterSets`, `CompactPoints`. Where the bounds make a
run stop, and only there, deadlock is not checked.

| Run | Instance | Properties | Shows |
|---|---|---|---|
| `elections` | 3 voters, all campaign and crash, 2 terms, 1 entry | `TypeOK` `VoteOnce` `ElectionSafety` `DurableMatchesMemory` `VoteIsFinal` | no double vote across any crash; one leader per term; disk = memory |
| `figure8` | 3 voters, 2 rivals, 4 terms, 1 entry | `StateMachineSafety` `LeaderCompleteness` | an old term's entry reaches a majority and is overwritten, and was never counted committed |
| `replication` | 3 voters, 2 rivals, 3 terms, 2 entries | `LogMatching` `MatchIndexSound` `StateMachineSafety` `CommittedIsPresent` | conflicting suffixes, late and repeated AppendEntries and acknowledgements; `min(leader_commit, last_log_index)` never counts a suffix that is not the leader's, and a truncation never cuts what is committed |
| `membership` | `{n1,n2}` to `{n1,n2,n3}`, `{n1}` or `{n2}`, n1 and n3 campaign, 2 terms, boundaries 1 and 2 | `TargetsTracked` `ElectionSafety` `LeaderCompleteness` `ConfigLockstep` `SnapshotConfigSound` | learners, promotion, removal, retirement, rival elections and compaction at any point of the transition |
| `snapshots` | 2 voters and a learner that is promoted, writes of an empty value and a deletion, margin 1, n2 crashes | `MatchIndexSound` `DurableMatchesMemory` `DrainNeverPanics` `ReplicasConverge` `WireFaithful` | compaction, installation and recovery under the retained margin; what every message and file reads back as |
| `histories` | 3 replicas, n1 crashes, leadership passes from n1 to n2, 2 clients, a write and a read | `HistoryLinearizable` `ReplicasAgree` `CheckerExact` `ImplementsAtomicStore` | every history is linearizable; replicas that have applied as much hold the same map; search = definition; refinement of `AtomicStore` |
| `server` | one process, one RPC of any kind, one peer, which may bring a joint configuration that removes this node, channel of 1, threshold 2, 2 terms, 1 entry of the peer and what this node appends to it | `PromisesSurvive` `AnswerIsVouchedFor` `TailBounded` `ReachableIsRegistered` `CallsAreAnswered` | persist before send across crashes, as voter, follower and leader; the answer's vouching; bounded tail; every call ends |
| `timing` | 3 nodes in a joint configuration, heartbeat 2, timeouts 4 to 12, delays 1 or 2, one partition of n1 | `LedWithinPatience` `StableLeadership` | a leader within 26 steps of any disturbance; no deposition of a leader that is heard |

Why the bounds are enough: a double vote needs two candidates of one term and a crash
of the voter; Figure 8 needs four terms, two rivals and one entry; a conflicting suffix
needs two terms and two entries, and a third term to be built upon by mistake; a stale
acknowledgement needs two messages to one peer in flight (`replication`, which reads no
record of elections, explores the states without it: the view `NoElections`); a transition needs its joint
entry, the automatic plain one and one rival election; an entry that is replaced under
a waiting client needs a second leader and one index; a torn batch needs one compaction;
a channel of one is always full when two tasks use it. In `timing` the shortest timeout,
4, is the least that stability allows: heartbeat interval plus spread of the delays plus
one. `histories` starts where n1 has won term 1 (a reachable state), to spend its states
on what follows.

`NodeSymmetry` is used only where the permuted nodes start alike and nothing else
separates them, and never with a temporal property that it could break.

### What some of the properties mean

- `ImplementsAtomicStore` maps an operation's instant to the step in which its entry
  is first counted committed by any node; an answer must be what the replay of the
  committed log gives at that point, and a refused operation must never act. Answers
  that are given up are `Indeterminate` and may act later.
- `CheckerExact` compares the search with the definition on each recorded history and
  on histories that differ from it in one answer or one finishing time, so that both
  verdicts occur.
- `ReplicasConverge` is about `compact`: the map of `last_applied` is filed under
  `last_applied - retain`, so whoever installs it applies the retained commands twice.
  The map still converges, because commands overwrite or erase one key and the last
  one wins: that is the theorem `ReapplyingIsHarmless`. The *results* of the replayed
  commands may differ in `previous`; nobody asks the replaying node for them, as the RPC
  that proposed them ended with the crash.
- `ReplicasAgree` compares the maps of any two replicas whose `last_applied` is the
  same, with no reference to what was counted committed: the state-machine safety that a
  client sees. It is checked where nothing is compacted. In `snapshots` it would fail, for
  the reason just given: the installer's map is ahead of its label.
- `PromisesSurvive` keeps, as history, the most the process has told anyone in its
  newest term (term, vote, last entry held) and compares it with the file after every
  single flush.
- `AnswerIsVouchedFor` is what the two term reads of `Propose` do guarantee; that they
  do not guarantee more is `v_foreign_result`.
- `LedWithinPatience` is a bounded response rather than a liveness property: with
  randomized timeouts, "eventually" needs probability, since equal draws can collide for
  ever. The draws of the run land apart, and `Step` is the only way time passes, so the
  bound says that nothing but colliding draws can delay a leader further.

### Fairness

`ServerSpec` is the one specification with fairness, and `CallsAreAnswered` the one
liveness property. Weak fairness of `Take \/ Read`, `DispatchEffect` and `Finish`: the
actor is one task that tokio keeps polling. Weak fairness of `WaitForApplied`, `Timeout`
and `Unanswered`: a handler's task is polled, its timer expires and a closed channel wakes
it. Strong fairness of `Ask`: the channel fills and empties, and tokio's bounded mpsc
hands out room first come first served, so a waiting sender gets it. Nothing is assumed of
peers, ticks, clients, crashes or panics.

### Violations

Four runs refute something the repository's own comments say:

| Run | Property | What happens |
|---|---|---|
| `v_split_brain` | `LeaderCompleteness` | replacing n1 by n4, `C_new` commits on n3 and n4, and n1, which still holds `C_old,new`, wins the next term with its own and n2's vote, without that entry: `has_quorum` counts n1's vote for the new set, of which n1 is no member |
| `v_stale_snapshot` | `CommittedIsPresent` | an InstallSnapshot overtaken by entries the follower has since committed and compacted replaces the newer snapshot: `term_at` has no term below the boundary |
| `v_foreign_result` | `AppliedIsOwn` | between `propose` and the first `entry_term` request a peer's entry replaces the caller's; both reads then see the peer's term, and its result is answered as the caller's |
| `v_torn_batch` | `RecoversAligned` | a crash between the flushes of `PersistSnapshot` and `PersistLog` recovers the old log under the new boundary |

The passing runs stay clear of these four: in `membership` every majority of the old
set contains one of the new; in `snapshots` two messages in flight are too few for a
snapshot to be overtaken by a follower's own newer one, which is why `CommittedIsPresent`
is not claimed there but in `replication`, where nothing is compacted; and `ServerNext`
spares the moment between the flushes of a new snapshot (`Aligned(disk)`), so that what it
shows holds apart from the finding.

That `has_quorum` wins elections without a majority of the new set contradicts the doc of
`ClusterConfig` directly ("Both sets must independently reach majority"); no run claims
the contrary, and `v_split_brain` shows what it leads to.

## Proofs

All theorems hold for every value of the constants that the named assumptions
allow: a finite set of nodes, a non-empty bootstrap set within it, `Nil` not a node,
natural bounds (`Raft`); a positive channel capacity and compaction threshold, `Nil`
none of the names or answers (`Server`). They are about the same `Spec` and
`ServerSpec` the runs check.

| Theorem | Property | Further hypothesis |
|---|---|---|
| `RaftStateProofs!TypeCorrect`, `SnapshotCommitted` | `TypeOK`, boundary below commit index | - |
| `RaftStateProofs!OneVotePerTerm` | `VoteOnce` | - |
| `RaftStateProofs!VotesAreFinal` | `VoteIsFinal` | - |
| `RaftStateProofs!DiskIsMemory` | `DurableMatchesMemory` | - |
| `RaftStateProofs!CacheIsLatest` | `ConfigLockstep` | - |
| `RaftStateProofs!OneLeaderPerTerm` | `ElectionSafety` | `Static` |
| `RaftStateProofs!PeersAreTracked` | `TargetsTracked` | `Static` |
| `RaftLogProofs!LogsMatch` | `LogMatching` | `Plain` |
| `RaftLogProofs!MatchesAreStored` | `MatchIndexSound` | `Plain` |
| `RaftSafetyProofs!CommittedOnce` | `StateMachineSafety` | `Plain` |
| `RaftSafetyProofs!LeadersAreComplete` | `LeaderCompleteness` | `Plain` |
| `RaftSafetyProofs!CommittedIsHeld` | `CommittedIsPresent` | `Plain` |
| `ReplicaProofs!CommandRoundTrip`, `SnapshotRoundTrip` | decoding what was encoded returns it, for every command and map | - |
| `ReplicaProofs!ReapplyingIsHarmless` | a suffix replayed twice leaves the map it left the first time | - |
| `ReplicaProofs!ReplicasRunRaft` | `Spec`: the composed replica implements the core | `Plain`, `Uncompacted` |
| `ReplicaProofs!DrainIsSafe` | `DrainNeverPanics` | `Plain`, `Uncompacted` |
| `ReplicaProofs!ReplicasAreReplays` | `ReplicasConverge` | `Plain`, `Uncompacted` |
| `ReplicaProofs!ReplicasNeverDisagree` | `ReplicasAgree` | `Plain`, `Uncompacted` |
| `HarnessProofs!HistoriesAreLinearizable` | `HistoryLinearizable`, of `HarnessSpec` | `Plain` |
| `HarnessProofs!ReplicasImplementAtomicStore` | `ImplementsAtomicStore`, of `HarnessSpec` | `Plain` |
| `WireProofs!CompactingReplicasRunRaft` | `Spec`, with compaction and voter changes | `Owned` |
| `WireProofs!NothingChangesOnTheWay` | `WireFaithful`, with compaction and voter changes | `Owned` |
| `ServerProofs!TornInvariant` | the inductive invariant, of `TornSpec` | - |
| `ServerProofs!PromisesAreKept` | `PromisesSurvive` | - |
| `ServerProofs!AnswersAreVouchedFor` | `AnswerIsVouchedFor` | - |
| `ServerProofs!TailsAreBounded` | `TailBounded` | - |
| `ServerProofs!OnlyRegisteredAreReached` | `ReachableIsRegistered` | - |

`Static` is `VoterSets = {} /\ Crashable \subseteq Bootstrap`: nobody calls
`propose_config_change`, and the servers that crash are genesis voters. Learners are
added and removed, logs compacted and snapshots installed. The second conjunct is
needed because a joiner that has stored a term but no snapshot recovers with
`KUROGANE_PEERS` as its configuration and may then campaign (see "Further
observations"). `Plain` is `Static /\ CompactPoints = {}`: in addition nobody compacts,
so every log starts at index 1. Both restrict what operators ask of the cluster, not
what nodes, messages, timers or crashes do, and a cluster of genesis voters that is
never reconfigured, with a threshold it never reaches, is one. The restrictions are
also where the code does not stay safe in general: `LeaderCompleteness` is refuted with
`VoterSets` in `v_split_brain`, `CommittedIsPresent` with `CompactPoints` in
`v_stale_snapshot`. `elections`, `figure8`, `replication` and `histories` are
instances of `Plain`; the driver of `HarnessSpec` neither compacts nor changes
voters, so there all `Plain`
adds is that the replicas that crash are genesis voters. `Uncompacted` is `Plain`'s second half said of a replica, whose
`compact` does not read `CompactPoints`: no step of the behaviour is a `ReplicaCompact`.

`Owned` restricts nothing. It fixes the constants that `Raft` leaves open and a replica
settles: the data of a snapshot are the bytes of some map, `Nil` is none of them, and a
boundary may be any index. `ReplicaSpec` reads none of these, so it has the same
behaviours whatever they are; the hypothesis only says under which values the core's
`Spec`, which does read them, describes those behaviours.

### The inductive invariants

All but `ServerInv`, whose paths TLC cannot enumerate, were checked with TLC as invariants of
their runs before they were proved.

- **Types.** `TypeInv` is `TypeOK` with `SnapshotIsCommitted`: that an entry newly
  counted committed is an entry of the log, and that the arithmetic relative to a
  boundary stays in range, needs `commitIndex` never to be below the boundary.
- **Votes.** The evidence of a vote (a reply in flight, a vote counted, an election won)
  says nothing of the voter's present vote, so `VoteInv` adds: the hard state on disk is
  the one in memory; the evidence of a vote in a node's current term is for the candidate
  it remembers, and there is none for a later term; votes of past terms agree.
- **Disk and cache.** `LockInv` says of each node that disk and memory mirror each other
  and that the cached configuration is `LatestConfiguration` of log and snapshot. The work
  is in `PersistLog`: `SplicedLog` shows that an effect whose splice point is one past a
  cut that old and new log share leaves the new log on disk, and every handler's effect
  is shown to be of that form, whichever boundary it was computed with.
- **Elections.** `StaticInv`: the only configuration a log or snapshot can yield is the
  genesis one, or none on a joiner; only genesis voters campaign and answer candidates; the
  votes that won an election are therefore voters, which `has_quorum` itself does not ask.
  Two majorities of one finite set meet (`MajoritiesMeet`), and the voter they share
  contradicts `VotesAgree`.
- **Logs.** An entry with its index and the term before it is a *link*. `LogInv` is about
  the set `Links` of those in all logs and all AppendEntries requests in flight: terms do
  not decrease along it, index and term determine a link, the entries of a term start at one
  place, each term with entries was won. Besides: a sitting leader has every entry of its
  term, a request's entries are a window of the log its sender still has while it leads, and
  an acknowledgement is of indices whose entries the follower got from that leader and still has
  unless it moved to a later term. Log Matching follows from the uniqueness of links by
  descending along `prev`, here a least-counterexample argument over indices.
- **Commitment.** `CommitInv` is the heart of Raft. `Choose`: as soon as a leader *may yet*
  count a majority for an entry of its term (each member of some majority has acknowledged it or
  has not moved past the term), later terms build only on logs at least as new
  (`Point`), and those who acknowledged it hold it and back no candidate with an older log
  (`Holder`). Stating it for entries that may be chosen, not for those that are, makes it
  inductive: the majority exists before the leader counts it. `CommittedSafe`, `NodeCommit` and
  `RequestCommit` tie what is counted, on the leader, on a follower through
  `leader_commit` and in flight, to such an entry at or above it. The rule that only an
  entry of the leader's own term is counted (Figure 8) is what the second step needs.
- **One process.** `ServerInv`: dispatching what is left of `effects` turns the file into the
  memory along a path of files (`Leads`), each of which keeps what was promised before, and
  each of which, from a `Send` of the batch on, also keeps what that `Send` promises
  (`Telling`): the term, the vote, and for a leader its last index. A batch need not end with
  its `Send`: a compaction may follow it, and its files must keep the promise too. Results
  kept are those of committed
  entries; a request in the channel is one its handler is waiting for, at most one per handler;
  a learner that is being answered is in memory and so, once the batch is done, on disk.
  Outcomes are shown, kind by kind, to extend such a path: for a leader `CountedSound`,
  `FollowedUpSound` (a `PersistLog` of `C_new` on whatever was counted) and `ReplicatedSound`
  (the `Send` after it), and `CompactedSound` for the compaction appended to any of them:
  between its two writes the file is the
  torn one of `v_torn_batch`, but its last index only seems larger, so a promise that
  was kept still is. The proof is therefore of `TornSpec`, which fails anywhere, and
  `ServerSpec` inherits it.

- **Replicas.** A step of `ReplicaSpec` is a call of `Node` and the drain after it, so
  everything proved of `Spec` is inherited (`ReplicasRunRaft`). `MachineInv` then says of
  each node that its machine is the replay, from an empty map, of its log up to its commit
  index; `Recorded`, that this replay is the one of the entries counted
  committed, which is where `CommittedIsPresent` and `StateMachineSafety` enter. A replay is a
  recursive function of the number of commands: that it is defined, that it splits at any
  point, and that it depends on the prefix alone are proved by induction on that number.
  `ReapplyingIsHarmless` is proved one key at a time: after a suffix, a key has the value of
  the last command of the suffix that names it, whatever the map was before, or the value it
  had before if none names it.
- **Clients.** `ClientInv` knows an operation by the index and the term its entry was
  appended at: no two operations share both (`Apart`, which needs `TakenByLeader`: a term has
  one leader, and its log only grows while it leads), and every entry in a log, in flight or
  counted committed is the entry of an operation (`AllAsked`). The entries counted committed are
  numbered from 1 without a gap (`Numbered`), and the oracle is their replay
  (`OracleReplays`). `AnswersTrue` says that who was answered has acted, and was told what the
  oracle has at that index: the driver reads a result only while the term at the index is still
  the operation's own, which is what makes the entry that was applied there the one
  it proposed. `RealTime`: whoever calls after an answer acts at a higher index, because what is
  answered is committed already. From there the two theorems part. Linearizability: order the
  operations that have acted by index; the replay explains every answer, `RealTime` gives the
  order in time, and those that have not acted
  have no answer, so the definition may drop them. Refinement: the entries that one step
  newly counts act in the order of their indices (`ActsInOrder`), which is one step of
  `AtomicStore`; every other step is a call, an answer or a stutter (`StoreSteps`). A
  cluster of one voter counts a proposal at once, so `Call` may act in the same step.
- **Wire.** A field that is not written reads back as the default, so a message is
  faithful only if no value that matters equals one. `OwnedInv` supplies what the
  conversions rely on: `TypeInv` and `LockInv`; `SnapshotsMarked`, that a boundary is 0
  exactly when there are no bytes, on each node, each disk and in each InstallSnapshot;
  `MachinesWhole`, that every map is one the encoding can write. They hold with compaction,
  installation and changes of voters, since none of them depends on what is committed.
  Each kind of message, file and answer is then decoded field by field (`FieldsReturn`).

`Basics` holds what all of them need of extrema and sequences, and induction over the
naturals in the form the provers take: about a *set* of numbers that contains 0 and
the successor of each of its members (`Induction`). The library's theorem is about an operator and
cannot be instantiated here; a property is given as the set of the numbers that have it. It is
what makes replays and encodings provable. TLC's trials of the
strengthened invariants: `LogInv` and `CommitInv` on 519,000 states (3 nodes, 2 terms, 2 entries)
and 217,000 (3 nodes, 4 terms, 1 entry).

### Only model-checked

- `ElectionSafety`, `TargetsTracked` with voters changing, and `LogMatching`,
  `MatchIndexSound`, `StateMachineSafety`, `LeaderCompleteness` and `CommittedIsPresent` with
  changes of voters or compaction: some are false of `Spec` in general (see the
  violations), so a proof has to be of the operated procedure, whose invariant relates the
  configurations of all nodes.
- `SnapshotConfigSound`: false for learners that never got a configuration entry.
- `DrainNeverPanics`, `ReplicasConverge`, `ReplicasAgree` with compaction or changes of voters:
  they rest on `CommittedIsPresent`, which `v_stale_snapshot` refutes there.
- `CheckerExact`: that the search, a RECURSIVE operator, which the prover cannot take, agrees
  with the definition. `HistoryLinearizable` is about the definition, and is proved. The
  driver neither compacts nor changes voters, so histories with either are neither proved nor
  checked.
- `CallsAreAnswered`, liveness under fairness, and `LedWithinPatience` and `StableLeadership`,
  whose bounds are specific to the chosen timeouts and delays.

## Further observations

Behaviour the models show that no comment of the repository speaks against, or that
a run leaves out on purpose:

- A second configuration change during a transition takes the joint configuration's
  *new* voters as its old set, and the original majority is no longer asked
  (`propose_config_change`). A mere retry is enough: n1 of `{n1,n2,n3}`, asked twice to be
  the only voter, commits the second change and its `C_new` alone, while n2 and n3, who
  have heard of neither, elect a leader without them. With overlapping changes
  `LeaderCompleteness` therefore fails; `OperatedSpec` keeps them out.
- A learner that got its log from index 1, and no configuration entry in it, compacts
  with an empty membership, though that of its boundary is the genesis one. In
  `membership` every log starts with a configuration.
- A joiner that has stored a term but no snapshot is not fresh, and restarts with
  `KUROGANE_PEERS` as its configuration, a voter; the comment beside that branch of
  `kurogane-node` says it cannot come to that.
- `start_election` asks only the new set's voters: from `{n1,n2,n3}` to `{n1,n4,n5}` no
  election can succeed until the transition is over.
- A learner's address is known to the one leader that added it, in memory.

## Not modelled

- A file torn inside one flush: `File::create` truncates, then `write_all` writes; which
  bytes a crash leaves is the file system's choice, and any prefix that parses could be
  read back. `Server` treats a flush as one step.
- Environment parsing and task wiring of the node binary, connection caching, error
  texts, traces, the random number generator, the saving of seeds.
- The demo client: an example that prints one reply.
- Most of the repository's lines are tests inside the source files; the map covers nearly
  all of the implementation above them and none of the tests.

## Plan

1. `LogMatching`, `MatchIndexSound` and `StateMachineSafety` with compaction
   (`CompactPoints` arbitrary): the links of a log then start at its boundary, and
   the links a snapshot has swallowed must be kept as history to say that boundaries agree.
2. `ElectionSafety` of `OperatedSpec` while `C_old,new` is the only joint configuration.
