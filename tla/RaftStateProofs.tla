--------------------------- MODULE RaftStateProofs --------------------------
(***************************************************************************)
(* The state of a Raft node, for every set of nodes and every input: it    *)
(* has its type; every handler keeps the disk in step with the memory,     *)
(* through the Persist* effects it emits, and so one vote per node and     *)
(* term, the fact elections rest on; and it keeps the cached configuration *)
(* in step with the log, through recompute_config.  And where the voters   *)
(* are never changed, one leader per term.                                 *)
(***************************************************************************)
EXTENDS Raft, Basics

-----------------------------------------------------------------------------
(* Types *)

\* A node's snapshot covers only entries it counts committed.  recover starts
\* commit_index from this fact, and without it the history of committed
\* entries could not be read off the log above the boundary.
SnapshotIsCommitted == \A n \in Node : snapshot[n].index <= commitIndex[n]

\* TypeOK is not inductive alone: an entry newly counted committed is looked up
\* above the snapshot boundary.
TypeInv == TypeOK /\ SnapshotIsCommitted

-----------------------------------------------------------------------------
(* Reading a log *)

\* An entry of a log has a term and a payload.
LEMMA EntryFields ==
    ASSUME NEW lg \in Seq(Entry), NEW k \in DOMAIN lg
    PROVE  lg[k] \in Entry /\ lg[k].term \in Nat /\ lg[k].payload \in Payload
<1>1. lg[k] \in Entry
  OBVIOUS
<1> QED
  BY <1>1 DEF Entry

\* term_at yields a term or None, and None only outside the log.
LEMMA TermInType ==
    ASSUME NEW lg \in Seq(Entry), NEW snap \in Snapshot, NEW i \in Int
    PROVE  /\ TermIn(lg, snap, i) \in Nat \cup {NoTerm}
           /\ TermIn(lg, snap, i) # NoTerm =>
                i # 0 /\ (i = snap.index \/ i - snap.index \in 1 .. Len(lg))
           /\ i - snap.index \in 1 .. Len(lg) => TermIn(lg, snap, i) \in Nat
<1>1. DOMAIN lg = 1 .. Len(lg) /\ Len(lg) \in Nat /\ snap.index \in Nat /\ snap.term \in Nat
  BY DEF Snapshot
<1>2. \A k \in DOMAIN lg : lg[k].term \in Nat
  BY EntryFields
<1>3. CASE i = 0
  BY <1>1, <1>3 DEF TermIn, NoTerm
<1>4. CASE i # 0 /\ i = snap.index
  BY <1>1, <1>4 DEF TermIn, NoTerm
<1>5. CASE i # 0 /\ i # snap.index /\ i - snap.index \in DOMAIN lg
  <2>1. lg[i - snap.index].term \in Nat
    BY <1>2, <1>5
  <2>2. TermIn(lg, snap, i) = lg[i - snap.index].term
    BY <1>5 DEF TermIn
  <2> QED
    BY <1>1, <1>5, <2>1, <2>2 DEF NoTerm
<1>6. CASE i # 0 /\ i # snap.index /\ i - snap.index \notin DOMAIN lg
  BY <1>1, <1>6 DEF TermIn, NoTerm
<1> QED
  BY <1>3, <1>4, <1>5, <1>6

\* The configuration found in a log, or else the snapshot's, is one, and the
\* index it is found at lies between the boundary and the end of the log.
LEMMA LatestConfigurationType ==
    ASSUME NEW lg \in Seq(Entry), NEW snap \in Snapshot
    PROVE  /\ LatestConfiguration(lg, snap).config \in Config
           /\ LatestConfiguration(lg, snap).index \in snap.index .. (snap.index + Len(lg))
<1> DEFINE at == {i \in DOMAIN lg : lg[i].payload.type = "Configuration"}
<1>1. CASE at = {}
  BY <1>1 DEF LatestConfiguration, Snapshot
<1>2. CASE at # {}
  <2>1. at \in SUBSET Nat /\ Len(lg) \in Nat /\ \A y \in at : y <= Len(lg)
    OBVIOUS
  <2>2. Max(at) \in at
    <3> HIDE DEF at
    <3> QED
      BY <1>2, <2>1, MaxProperties
  <2>3. \A i \in DOMAIN lg : lg[i].payload \in Payload
    BY EntryFields
  <2>4. lg[Max(at)].payload \in Payload /\ lg[Max(at)].payload.type = "Configuration"
    <3> HIDE DEF Payload
    <3> QED
      BY <2>2, <2>3
  <2>5. lg[Max(at)].payload.config \in Config
    BY <2>4 DEF Payload
  <2> QED
    BY <1>2, <2>2, <2>5 DEF LatestConfiguration, Snapshot
<1> QED
  BY <1>1, <1>2

\* Every message replicate_to builds is well formed.
LEMMA ReplicationType ==
    ASSUME NEW n \in Node, NEW p \in Node, NEW t \in Nat, NEW lg \in Seq(Entry),
           NEW snap \in Snapshot, NEW next \in Nat, NEW commit \in Nat
    PROVE  Replication(n, p, t, lg, snap, next, commit) \in Message
<1>1. CASE next <= snap.index
  BY <1>1 DEF Replication, Message
<1>2. CASE next > snap.index
  <2>1. snap.index \in Nat
    BY DEF Snapshot
  <2>2. next - 1 \in Nat /\ next - snap.index \in Nat /\ next - snap.index >= 1
    BY <1>2, <2>1
  <2>3. SubSeq(lg, next - snap.index, Len(lg)) \in Seq(Entry)
    BY <2>2, SuffixType
  <2>4. PrevLogTerm(lg, snap, next - 1) \in Nat
    BY <2>2, TermInType DEF PrevLogTerm
  <2>5. ~ (next <= snap.index)
    BY <1>2, <2>1
  <2> QED
    BY <2>2, <2>3, <2>4, <2>5 DEF Replication, Message
<1> QED
  BY <1>1, <1>2 DEF Snapshot

-----------------------------------------------------------------------------
(* The disk *)

\* Every Persist* effect leaves a well-formed disk.
LEMMA PersistTypes ==
    ASSUME NEW d \in Durable
    PROVE  /\ \A t \in Nat, v \in Node \cup {Nil} : PersistHardState(d, t, v) \in Durable
           /\ \A snap \in Snapshot : PersistSnapshot(d, snap) \in Durable
           /\ \A S \in SUBSET Node : PersistLearners(d, S) \in Durable
           /\ \A from \in Nat, entries \in Seq(Entry) :
                 PersistLog(d, from, entries) \in Durable
<1>1. \A t \in Nat, v \in Node \cup {Nil} : PersistHardState(d, t, v) \in Durable
  BY DEF PersistHardState, Durable
<1>2. \A snap \in Snapshot : PersistSnapshot(d, snap) \in Durable
  BY DEF PersistSnapshot, Durable
<1>3. \A S \in SUBSET Node : PersistLearners(d, S) \in Durable
  BY DEF PersistLearners, Durable
<1>4. ASSUME NEW from \in Nat, NEW entries \in Seq(Entry)
      PROVE  PersistLog(d, from, entries) \in Durable
  <2> DEFINE keep == from - d.snapshot.index - 1
             kept == IF keep < Len(d.log) THEN SubSeq(d.log, 1, keep) ELSE d.log
  <2>1. d.log \in Seq(Entry) /\ keep \in Int
    BY DEF Durable, Snapshot
  <2>2. kept \in Seq(Entry)
    BY <2>1, PrefixType
  <2>3. kept \o entries \in Seq(Entry)
    BY <2>2, ConcatProperties
  <2> QED
    BY <2>3 DEF PersistLog, Durable
<1> QED
  BY <1>1, <1>2, <1>3, <1>4

-----------------------------------------------------------------------------
(* advance_commit_index *)

\* A commit pass never moves the commit index back, nor past the end of the log.
LEMMA CommitPassType ==
    ASSUME NEW n \in Node, snapshot[n] \in Snapshot, currentTerm[n] \in Nat,
           NEW lg \in Seq(Entry), NEW c, NEW match, NEW commit \in Nat
    PROVE  /\ CommitPass(n, lg, c, match, commit) \in Nat
           /\ CommitPass(n, lg, c, match, commit) >= commit
           /\ \/ CommitPass(n, lg, c, match, commit) = commit
              \/ CommitPass(n, lg, c, match, commit) <= snapshot[n].index + Len(lg)
<1> DEFINE last == snapshot[n].index + Len(lg)
           Holders(i) == {p \in Node : IF p = n THEN last >= i ELSE match[p] >= i}
           reached == {i \in (commit + 1) .. (last + 1) : CommitQuorum(c, Holders(i))}
<1>1. last \in Nat /\ last + 1 \in Nat /\ snapshot[n].index \in Nat /\ Len(lg) \in Nat
  BY DEF Snapshot
<1>2. reached \in SUBSET Nat /\ \A y \in reached : y <= last + 1 /\ y > commit
  BY <1>1
<1>3. reached # {} => Max(reached) \in reached
  <2> HIDE DEF reached, last
  <2> QED
    BY <1>1, <1>2, MaxProperties
<1>4. CommitPass(n, lg, c, match, commit)
        = IF reached # {} /\ OfOwnTerm(n, lg, Max(reached)) THEN Max(reached) ELSE commit
  BY DEF CommitPass
<1>5. CASE reached # {} /\ OfOwnTerm(n, lg, Max(reached))
  <2>1. CommitPass(n, lg, c, match, commit) = Max(reached) /\ Max(reached) \in reached
    BY <1>3, <1>4, <1>5
  <2>2. Max(reached) \in Nat /\ Max(reached) > commit
    <3> HIDE DEF reached, last
    <3> QED
      BY <1>2, <2>1
  <2> HIDE DEF reached
  <2>3. TermIn(lg, snapshot[n], Max(reached)) # NoTerm
    BY <1>5 DEF OfOwnTerm, NoTerm
  <2>4. Max(reached) = snapshot[n].index \/ Max(reached) - snapshot[n].index \in 1 .. Len(lg)
    BY <2>2, <2>3, TermInType
  <2>5. Max(reached) <= snapshot[n].index + Len(lg)
    BY <1>1, <2>2, <2>4
  <2> QED
    BY <2>1, <2>2, <2>5
<1>6. CASE ~ (reached # {} /\ OfOwnTerm(n, lg, Max(reached)))
  <2>1. CommitPass(n, lg, c, match, commit) = commit
    BY <1>4, <1>6
  <2> QED
    BY <2>1
<1> QED
  BY <1>5, <1>6

\* What advance_commit_index leaves behind is well formed, keeps the log it was
\* given, and never takes the commit index back or past the end.
LEMMA AdvanceType ==
    ASSUME NEW n \in Node, snapshot[n] \in Snapshot, currentTerm[n] \in Nat,
           commitIndex[n] \in Nat, NEW lg \in Seq(Entry), NEW match, NEW active,
           active.config \in Config, active.index \in Nat
    PROVE  LET adv == AdvanceCommitIndex(n, lg, active, match)
           IN  /\ adv.log \in Seq(Entry)
               /\ Len(adv.log) >= Len(lg)
               /\ adv.active.config \in Config
               /\ adv.active.index \in Nat
               /\ adv.commit \in Nat
               /\ adv.commit >= commitIndex[n]
               /\ \/ adv.commit = commitIndex[n]
                  \/ adv.commit <= snapshot[n].index + Len(adv.log)
               /\ adv.retired \in BOOLEAN
<1> DEFINE commit1 == CommitPass(n, lg, active.config, match, commitIndex[n])
           finish == IsJoint(active.config) /\ commit1 >= active.index
           next == [term |-> currentTerm[n],
                    payload |-> ConfigurationPayload(Stable(active.config.voters))]
           lg2 == IF finish THEN Append(lg, next) ELSE lg
           active2 == IF finish THEN LatestConfiguration(lg2, snapshot[n]) ELSE active
           commit2 == IF finish THEN CommitPass(n, lg2, active2.config, match, commit1)
                                ELSE commit1
           adv == AdvanceCommitIndex(n, lg, active, match)
<1>1. next \in Entry
  BY DEF Entry, Payload, ConfigurationPayload, Stable, Config
<1>2. lg2 \in Seq(Entry) /\ Len(lg2) >= Len(lg)
  <2> HIDE DEF next, finish
  <2> QED
    BY <1>1, AppendProperties
<1>3. commit1 \in Nat /\ commit1 >= commitIndex[n]
        /\ (commit1 = commitIndex[n] \/ commit1 <= snapshot[n].index + Len(lg))
  BY CommitPassType
<1>4. active2.config \in Config /\ active2.index \in Nat
  <2>1. LatestConfiguration(lg2, snapshot[n]).config \in Config
    BY <1>2, LatestConfigurationType
  <2>2. LatestConfiguration(lg2, snapshot[n]).index \in Nat
    <3>1. snapshot[n].index \in Nat
      BY DEF Snapshot
    <3>2. LatestConfiguration(lg2, snapshot[n]).index
            \in snapshot[n].index .. (snapshot[n].index + Len(lg2))
      BY <1>2, LatestConfigurationType
    <3> HIDE DEF lg2
    <3> QED
      BY <1>2, <3>1, <3>2
  <2> HIDE DEF lg2, finish
  <2> QED
    BY <2>1, <2>2
<1>5. commit2 \in Nat /\ commit2 >= commit1
        /\ (commit2 = commit1 \/ commit2 <= snapshot[n].index + Len(lg2))
  <2> HIDE DEF lg2, active2, commit1, finish
  <2> QED
    BY <1>2, <1>3, CommitPassType
<1>6. /\ adv.log = lg2 /\ adv.active = active2 /\ adv.commit = commit2
      /\ adv.retired \in BOOLEAN
  BY DEF AdvanceCommitIndex
<1>7. snapshot[n].index \in Nat /\ Len(lg) \in Nat /\ Len(lg2) \in Nat
  BY <1>2 DEF Snapshot
<1> HIDE DEF lg2, active2, commit1, commit2, adv
<1>8. \/ commit2 = commitIndex[n]
      \/ commit2 <= snapshot[n].index + Len(lg2)
  BY <1>2, <1>3, <1>5, <1>7
<1>9. commit2 >= commitIndex[n]
  BY <1>3, <1>5
<1> QED
  BY <1>2, <1>4, <1>5, <1>6, <1>8, <1>9 DEF adv

-----------------------------------------------------------------------------
(* on_append_entries *)

\* The merge never leaves a gap: everything before the first entry a follower
\* lacks is under its boundary or in its log.
LEMMA MergedLogType ==
    ASSUME NEW n \in Node, snapshot[n] \in Snapshot, log[n] \in Seq(Entry),
           NEW m, m.prevLogIndex \in Nat, m.prevLogTerm \in Nat,
           m.entries \in Seq(Entry), PrevLogSatisfied(n, m)
    PROVE  /\ MergedLog(n, m) \in Seq(Entry)
           /\ Missing(n, m) # {} =>
                /\ Min(Missing(n, m)) \in DOMAIN m.entries
                /\ m.prevLogIndex + Min(Missing(n, m)) > snapshot[n].index
                /\ m.prevLogIndex + Min(Missing(n, m)) <= LastLogIndex(n) + 1
<1> DEFINE k == Min(Missing(n, m))
           b == snapshot[n].index
           cut == m.prevLogIndex + k - 1 - b
<1>1. CASE Missing(n, m) = {}
  BY <1>1 DEF MergedLog
<1>2. CASE Missing(n, m) # {}
  <2>1. Missing(n, m) \in SUBSET Nat
    BY DEF Missing
  <2>2. k \in Missing(n, m) /\ \A j \in Missing(n, m) : k <= j
    BY <1>2, <2>1, MinProperties
  <2> HIDE DEF k
  <2>10. DOMAIN m.entries = 1 .. Len(m.entries) /\ Len(m.entries) \in Nat
    OBVIOUS
  <2>3. k \in 1 .. Len(m.entries) /\ m.prevLogIndex + k > b
    BY <2>10, <2>2 DEF Missing
  <2>4. b \in Nat /\ Len(log[n]) \in Nat /\ cut \in Int /\ cut >= 0
    <3>1. b \in Nat
      BY DEF Snapshot
    <3>2. k \in Nat
      BY <2>10, <2>3
    <3> QED
      BY <2>3, <3>1, <3>2, SMTT(30)
  <2>5. cut <= Len(log[n])
    <3>1. \A i \in Int : TermIn(log[n], snapshot[n], i) # NoTerm =>
              i - b <= Len(log[n])
      BY <2>4, TermInType
    <3>2. CASE k = 1
      <4>1. CASE m.prevLogIndex <= b
        BY <2>4, <3>2, <4>1
      <4>2. CASE TermAt(n, m.prevLogIndex) = m.prevLogTerm
        <5>1. TermIn(log[n], snapshot[n], m.prevLogIndex) # NoTerm
          BY <4>2 DEF TermAt, NoTerm
        <5> QED
          BY <2>4, <3>1, <3>2, <5>1
      <4> QED
        BY <4>1, <4>2 DEF PrevLogSatisfied
    <3>3. CASE k > 1
      <4>1. k - 1 \in DOMAIN m.entries /\ k - 1 \notin Missing(n, m)
        <5>1. k - 1 \in 1 .. Len(m.entries) /\ ~ (k <= k - 1)
          BY <2>3, <3>3
        <5> QED
          BY <2>2, <5>1
      <4>2. \/ m.prevLogIndex + (k - 1) <= b
            \/ TermAt(n, m.prevLogIndex + (k - 1)) = m.entries[k - 1].term
        <5>1. m.prevLogIndex + (k - 1) \in Int
          BY <2>10, <2>3
        <5>2. ~ (/\ m.prevLogIndex + (k - 1) > b
                 /\ TermAt(n, m.prevLogIndex + (k - 1)) # m.entries[k - 1].term)
          BY <4>1 DEF Missing
        <5> QED
          BY <2>4, <5>1, <5>2
      <4>3. CASE m.prevLogIndex + (k - 1) <= b
        BY <2>3, <2>4, <4>3
      <4>4. CASE TermAt(n, m.prevLogIndex + (k - 1)) = m.entries[k - 1].term
        <5>1. m.entries[k - 1].term \in Nat
          BY <4>1, EntryFields
        <5>2. TermIn(log[n], snapshot[n], m.prevLogIndex + (k - 1)) # NoTerm
          BY <4>4, <5>1 DEF TermAt, NoTerm
        <5>3. (m.prevLogIndex + (k - 1)) - b <= Len(log[n])
          BY <2>3, <3>1, <5>2
        <5> QED
          BY <2>3, <2>4, <5>3
      <4> QED
        BY <4>2, <4>3, <4>4
    <3> QED
      BY <2>3, <3>2, <3>3
  <2>6. SubSeq(log[n], 1, cut) \in Seq(Entry)
    BY <2>4, <2>5, PrefixType
  <2>7. SubSeq(m.entries, k, Len(m.entries)) \in Seq(Entry)
    BY <2>3, SuffixType
  <2>8. MergedLog(n, m) = SubSeq(log[n], 1, cut) \o SubSeq(m.entries, k, Len(m.entries))
    BY <1>2 DEF MergedLog, k
  <2>9. MergedLog(n, m) \in Seq(Entry)
    BY <2>6, <2>7, <2>8, ConcatProperties
  <2> QED
    <3>1. m.prevLogIndex + k <= b + Len(log[n]) + 1
      BY <2>10, <2>3, <2>4, <2>5, SMTT(30)
    <3> QED
      BY <2>10, <2>3, <2>9, <3>1 DEF LastLogIndex, k
<1> QED
  BY <1>1, <1>2

-----------------------------------------------------------------------------
(* Messages *)

\* The fields of a message are well formed, and its type says which it has.
LEMMA MessageFields ==
    ASSUME NEW m \in Message
    PROVE  /\ m.from \in Node /\ m.to \in Node /\ m.term \in Nat
           /\ m.type = "AppendEntries" =>
                /\ m.prevLogIndex \in Nat /\ m.prevLogTerm \in Nat
                /\ m.entries \in Seq(Entry) /\ m.leaderCommit \in Nat
           /\ m.type = "AppendEntriesResponse" => m.matchIndex \in Nat
           /\ m.type = "InstallSnapshot" => m.snapshot \in Snapshot
           /\ m.type = "InstallSnapshotResponse" => m.lastIncludedIndex \in Nat
<1> DEFINE RV == [type : {"RequestVote"}, from : Node, to : Node, term : Nat,
                  lastLogIndex : Nat, lastLogTerm : Nat]
           RVR == [type : {"RequestVoteResponse"}, from : Node, to : Node,
                   term : Nat, granted : BOOLEAN]
           AE == [type : {"AppendEntries"}, from : Node, to : Node, term : Nat,
                  prevLogIndex : Nat, prevLogTerm : Nat, entries : Seq(Entry),
                  leaderCommit : Nat]
           AER == [type : {"AppendEntriesResponse"}, from : Node, to : Node,
                   term : Nat, success : BOOLEAN, matchIndex : Nat]
           IS == [type : {"InstallSnapshot"}, from : Node, to : Node,
                  term : Nat, snapshot : Snapshot]
           ISR == [type : {"InstallSnapshotResponse"}, from : Node, to : Node,
                   term : Nat, lastIncludedIndex : Nat]
<1>1. m \in RV \/ m \in RVR \/ m \in AE \/ m \in AER \/ m \in IS \/ m \in ISR
  BY DEF Message
<1>2. CASE m \in RV
  BY <1>2
<1>3. CASE m \in RVR
  BY <1>3
<1>4. CASE m \in AE
  BY <1>4
<1>5. CASE m \in AER
  BY <1>5
<1>6. CASE m \in IS
  BY <1>6
<1>7. CASE m \in ISR
  BY <1>7
<1> QED
  BY <1>1, <1>2, <1>3, <1>4, <1>5, <1>6, <1>7

\* Responses are well formed.
LEMMA ResponseTypes ==
    ASSUME NEW n \in Node, NEW p \in Node, NEW t \in Nat
    PROVE  /\ \A g \in BOOLEAN : RequestVoteResponse(n, p, t, g) \in Message
           /\ \A g \in BOOLEAN, i \in Nat : AppendEntriesResponse(n, p, t, g, i) \in Message
           /\ \A i \in Nat : InstallSnapshotResponse(n, p, t, i) \in Message
  BY DEF RequestVoteResponse, AppendEntriesResponse, InstallSnapshotResponse, Message

\* What replicate_to sends is well formed, before and after a step.
LEMMA ReplicateToType ==
    ASSUME NEW n \in Node, NEW p \in Node
    PROVE  /\ currentTerm[n] \in Nat /\ log[n] \in Seq(Entry)
              /\ snapshot[n] \in Snapshot /\ nextIndex[n][p] \in Nat
              /\ commitIndex[n] \in Nat
              => ReplicateTo(n, p) \in Message
           /\ currentTerm'[n] \in Nat /\ log'[n] \in Seq(Entry)
              /\ snapshot'[n] \in Snapshot /\ nextIndex'[n][p] \in Nat
              /\ commitIndex'[n] \in Nat
              => ReplicateTo(n, p)' \in Message
  BY ReplicationType DEF ReplicateTo

\* Both branches of a leader's message handler leave well-formed elections.
LEMMA ObserveLeaderType ==
    ASSUME TypeOK, NEW n \in Node, NEW t \in Nat, ObserveLeader(n, t) \/ StepDown(n, t)
    PROVE  /\ role' \in [Node -> {Follower, Candidate, Leader}]
           /\ currentTerm' \in [Node -> Nat]
           /\ votedFor' \in [Node -> Node \cup {Nil}]
           /\ votesGranted' \in [Node -> SUBSET Node]
           /\ nextIndex' \in [Node -> [Node -> Nat]]
           /\ matchIndex' \in [Node -> [Node -> Nat]]
<1>1. NoProgress \in [Node -> Nat]
  BY DEF NoProgress
<1>2. CASE StepDown(n, t)
  BY <1>1, <1>2 DEF TypeOK, StepDown, Follower, Candidate, Leader
<1>3. CASE ObserveLeader(n, t) /\ ~ StepDown(n, t)
  BY <1>3 DEF TypeOK, ObserveLeader, Follower, Candidate, Leader, leaderVars
<1> QED
  BY <1>2, <1>3

\* recompute_config leaves a configuration and an index.
LEMMA RecomputeConfigType ==
    ASSUME TypeOK, NEW n \in Node, NEW lg \in Seq(Entry), NEW snap \in Snapshot,
           RecomputeConfig(n, lg, snap)
    PROVE  /\ currentConfig' \in [Node -> Config]
           /\ currentConfigIndex' \in [Node -> Nat]
<1>1. snap.index \in Nat /\ Len(lg) \in Nat
  BY DEF Snapshot
<1>2. /\ LatestConfiguration(lg, snap).config \in Config
      /\ LatestConfiguration(lg, snap).index \in Nat
  BY <1>1, LatestConfigurationType
<1> QED
  BY <1>2 DEF TypeOK, RecomputeConfig

\* become_leader seeds well-formed progress for every target.
LEMMA WinWithType ==
    ASSUME TypeOK, NEW n \in Node, NEW t \in Nat, NEW votes \in SUBSET Node,
           WinWith(n, t, votes)
    PROVE  /\ nextIndex' \in [Node -> [Node -> Nat]]
           /\ matchIndex' \in [Node -> [Node -> Nat]]
           /\ elected' \subseteq [term : Nat, leader : Node, votes : SUBSET Node,
                                  config : Config]
<1> DEFINE Seed(v) == [p \in Node |-> IF p \in ReplicationTargets(n) THEN v ELSE 0]
<1>1. LastLogIndex(n) + 1 \in Nat
  BY DEF TypeOK, LastLogIndex, Snapshot
<1>2. Seed(LastLogIndex(n) + 1) \in [Node -> Nat] /\ Seed(0) \in [Node -> Nat]
  BY <1>1
<1>3. CASE HasQuorum(currentConfig[n], votes)
  <2>1. nextIndex' = [nextIndex EXCEPT ![n] = Seed(LastLogIndex(n) + 1)]
        /\ matchIndex' = [matchIndex EXCEPT ![n] = Seed(0)]
    BY <1>3 DEF WinWith
  <2>2. elected' = elected \cup {[term |-> t, leader |-> n, votes |-> votes,
                                  config |-> currentConfig[n]]}
    BY <1>3 DEF WinWith
  <2> HIDE DEF Seed
  <2> QED
    BY <1>2, <2>1, <2>2 DEF TypeOK
<1>4. CASE ~ HasQuorum(currentConfig[n], votes)
  BY <1>4 DEF WinWith, TypeOK, leaderVars
<1> QED
  BY <1>3, <1>4

\* The entries a node newly counts committed are in its log.
LEMMA NewlyCommittedType ==
    ASSUME NEW n \in Node, snapshot[n] \in Snapshot, commitIndex[n] \in Nat,
           snapshot[n].index <= commitIndex[n], NEW lg \in Seq(Entry), NEW commit \in Nat,
           commit <= commitIndex[n] \/ commit <= snapshot[n].index + Len(lg)
    PROVE  NewlyCommitted(n, lg, commit) \subseteq [index : Nat, entry : Entry]
<1>1. snapshot[n].index \in Nat /\ Len(lg) \in Nat
  BY DEF Snapshot
<1>2. SUFFICES ASSUME NEW i \in (commitIndex[n] + 1) .. commit
               PROVE  i \in Nat /\ lg[i - snapshot[n].index] \in Entry
  BY DEF NewlyCommitted
<1>3. i - snapshot[n].index \in 1 .. Len(lg) /\ i \in Nat
  BY <1>1
<1> QED
  BY <1>3

\* A leader that runs advance_commit_index on a well-formed log, configuration
\* and progress leaves a well-formed state, whatever it appends on its own.
LEMMA LeaderAdvanceType ==
    ASSUME TypeInv, NEW n \in Node, NEW lg \in Seq(Entry), Len(lg) >= Len(log[n]),
           NEW active, active.config \in Config, active.index \in Nat,
           NEW next \in [Node -> Nat], NEW match \in [Node -> Nat], NEW d \in Durable,
           LeaderAdvance(n, lg, active, next, match, d)
    PROVE  /\ role' \in [Node -> {Follower, Candidate, Leader}]
           /\ currentTerm' \in [Node -> Nat]
           /\ votedFor' \in [Node -> Node \cup {Nil}]
           /\ votesGranted' \in [Node -> SUBSET Node]
           /\ log' \in [Node -> Seq(Entry)]
           /\ commitIndex' \in [Node -> Nat]
           /\ nextIndex' \in [Node -> [Node -> Nat]]
           /\ matchIndex' \in [Node -> [Node -> Nat]]
           /\ snapshot' \in [Node -> Snapshot]
           /\ currentConfig' \in [Node -> Config]
           /\ currentConfigIndex' \in [Node -> Nat]
           /\ disk' \in [Node -> Durable]
           /\ elected' \subseteq [term : Nat, leader : Node, votes : SUBSET Node,
                                  config : Config]
           /\ committed' \subseteq [index : Nat, entry : Entry]
           /\ SnapshotIsCommitted'
<1> DEFINE adv == AdvanceCommitIndex(n, lg, active, match)
           fresh == SubSeq(adv.log, Len(log[n]) + 1, Len(adv.log))
<1> USE DEF TypeInv
<1>1. /\ snapshot[n] \in Snapshot /\ currentTerm[n] \in Nat /\ commitIndex[n] \in Nat
      /\ log[n] \in Seq(Entry) /\ Len(log[n]) \in Nat /\ snapshot[n].index \in Nat
      /\ snapshot[n].index <= commitIndex[n]
  BY DEF TypeOK, Snapshot, SnapshotIsCommitted
<1>2. /\ adv.log \in Seq(Entry)
      /\ adv.active.config \in Config
      /\ adv.active.index \in Nat
      /\ adv.commit \in Nat
      /\ adv.commit >= commitIndex[n]
      /\ \/ adv.commit = commitIndex[n]
         \/ adv.commit <= snapshot[n].index + Len(adv.log)
      /\ adv.retired \in BOOLEAN
  BY <1>1, AdvanceType
<1>3. NewlyCommitted(n, adv.log, adv.commit) \subseteq [index : Nat, entry : Entry]
  <2> HIDE DEF adv
  <2> QED
    BY <1>1, <1>2, NewlyCommittedType
<1>4. fresh \in Seq(Entry)
  <2> HIDE DEF adv
  <2> QED
    BY <1>1, <1>2, SuffixType
<1>5. (IF fresh = <<>> THEN d ELSE PersistLog(d, LastLogIndex(n) + 1, fresh)) \in Durable
  <2>1. LastLogIndex(n) + 1 \in Nat
    BY <1>1 DEF LastLogIndex
  <2> HIDE DEF fresh
  <2> QED
    BY <1>4, <2>1, PersistTypes
<1>6. NoProgress \in [Node -> Nat]
  BY DEF NoProgress
<1>7. /\ log' = [log EXCEPT ![n] = adv.log]
      /\ commitIndex' = [commitIndex EXCEPT ![n] = adv.commit]
      /\ currentConfig' = [currentConfig EXCEPT ![n] = adv.active.config]
      /\ currentConfigIndex' = [currentConfigIndex EXCEPT ![n] = adv.active.index]
      /\ role' = [role EXCEPT ![n] = IF adv.retired THEN Follower ELSE @]
      /\ votesGranted' = [votesGranted EXCEPT ![n] = IF adv.retired THEN {} ELSE @]
      /\ nextIndex' = [nextIndex EXCEPT ![n] = IF adv.retired THEN NoProgress ELSE next]
      /\ matchIndex' = [matchIndex EXCEPT ![n] = IF adv.retired THEN NoProgress ELSE match]
      /\ disk' = [disk EXCEPT ![n] = IF fresh = <<>> THEN d
                                     ELSE PersistLog(d, LastLogIndex(n) + 1, fresh)]
      /\ committed' = committed \cup NewlyCommitted(n, adv.log, adv.commit)
      /\ UNCHANGED <<currentTerm, votedFor, snapshot, elected>>
  BY DEF LeaderAdvance
<1> HIDE DEF adv, fresh
<1>8. role' \in [Node -> {Follower, Candidate, Leader}]
  BY <1>7 DEF TypeOK, Follower
<1>9. votesGranted' \in [Node -> SUBSET Node]
  BY <1>7 DEF TypeOK
<1>10. nextIndex' \in [Node -> [Node -> Nat]] /\ matchIndex' \in [Node -> [Node -> Nat]]
  BY <1>6, <1>7 DEF TypeOK
<1>11. log' \in [Node -> Seq(Entry)] /\ commitIndex' \in [Node -> Nat]
  BY <1>2, <1>7 DEF TypeOK
<1>12. currentConfig' \in [Node -> Config] /\ currentConfigIndex' \in [Node -> Nat]
  BY <1>2, <1>7 DEF TypeOK
<1>13. disk' \in [Node -> Durable]
  BY <1>5, <1>7 DEF TypeOK
<1>14. committed' \subseteq [index : Nat, entry : Entry]
  BY <1>3, <1>7 DEF TypeOK
<1>15. SnapshotIsCommitted'
  <2>1. commitIndex' = [commitIndex EXCEPT ![n] = adv.commit] /\ snapshot' = snapshot
    BY <1>7
  <2>2. adv.commit >= snapshot[n].index
    BY <1>1, <1>2
  <2> QED
    BY <2>1, <2>2 DEF SnapshotIsCommitted, TypeOK
<1>16. /\ currentTerm' \in [Node -> Nat]
       /\ votedFor' \in [Node -> Node \cup {Nil}]
       /\ snapshot' \in [Node -> Snapshot]
       /\ elected' \subseteq [term : Nat, leader : Node, votes : SUBSET Node,
                              config : Config]
  BY <1>7 DEF TypeOK
<1> QED
  BY <1>8, <1>9, <1>10, <1>11, <1>12, <1>13, <1>14, <1>15, <1>16

-----------------------------------------------------------------------------
(* The actions *)

\* The genesis state is well formed.
LEMMA InitType == Init => TypeInv
<1> SUFFICES ASSUME Init PROVE TypeInv
  OBVIOUS
<1>1. Stable(Bootstrap) \in Config /\ EmptyConfig \in Config
  BY BootstrapAssumption DEF Stable, EmptyConfig, Config
<1>2. \A c \in Config : NoSnapshot(c) \in Snapshot /\ NoSnapshot(c).index = 0
  BY DEF NoSnapshot, Snapshot
<1>3. <<>> \in Seq(Entry)
  BY EmptySeq
<1>4. FreshDisk \in Durable
  <2>1. NoSnapshot(EmptyConfig) \in Snapshot
    BY <1>1, <1>2
  <2> QED
    BY <1>3, <2>1 DEF FreshDisk, Durable
<1>5. NoProgress \in [Node -> Nat]
  BY DEF NoProgress
<1>6. currentConfig \in [Node -> Config]
  BY <1>1 DEF Init
<1>7. snapshot \in [Node -> Snapshot] /\ \A n \in Node : snapshot[n].index = 0
  BY <1>1, <1>2 DEF Init
<1>8. log \in [Node -> Seq(Entry)]
  BY <1>3 DEF Init
<1>9. disk \in [Node -> Durable]
  BY <1>4 DEF Init
<1>10. nextIndex \in [Node -> [Node -> Nat]] /\ matchIndex \in [Node -> [Node -> Nat]]
  BY <1>5 DEF Init
<1>11. SnapshotIsCommitted
  BY <1>7 DEF Init, SnapshotIsCommitted
<1>12. TypeOK
  BY <1>6, <1>7, <1>8, <1>9, <1>10 DEF Init, TypeOK, Follower
<1> QED
  BY <1>11, <1>12 DEF TypeInv

\* An election timeout.
LEMMA StartElectionType ==
    ASSUME TypeInv, NEW n \in Node, StartElection(n)
    PROVE  TypeInv'
<1> DEFINE t == currentTerm[n] + 1
           won == HasQuorum(currentConfig[n], {n})
<1> USE DEF TypeInv
<1>1. t \in Nat
  BY DEF TypeOK
<1>2. /\ nextIndex' \in [Node -> [Node -> Nat]]
      /\ matchIndex' \in [Node -> [Node -> Nat]]
      /\ elected' \subseteq [term : Nat, leader : Node, votes : SUBSET Node,
                             config : Config]
  BY <1>1, WinWithType DEF StartElection
<1>3. /\ role' = [role EXCEPT ![n] = IF won THEN Leader ELSE Candidate]
      /\ currentTerm' = [currentTerm EXCEPT ![n] = t]
      /\ votedFor' = [votedFor EXCEPT ![n] = n]
      /\ votesGranted' = [votesGranted EXCEPT ![n] = {n}]
      /\ disk' = [disk EXCEPT ![n] = PersistHardState(@, t, n)]
      /\ UNCHANGED <<log, commitIndex, snapshot, currentConfig, currentConfigIndex,
                     learners, committed>>
      /\ msgs' = msgs \cup IF won
                THEN {ReplicateTo(n, p)' : p \in ReplicationTargets(n)}
                ELSE {RequestVote(n, p)' : p \in currentConfig[n].voters \ {n}}
  BY DEF StartElection, Send, configVars
<1> HIDE DEF t, won
<1>4. role' \in [Node -> {Follower, Candidate, Leader}]
  BY <1>3 DEF TypeOK
<1>5. /\ currentTerm' \in [Node -> Nat] /\ votedFor' \in [Node -> Node \cup {Nil}]
      /\ votesGranted' \in [Node -> SUBSET Node]
  BY <1>1, <1>3 DEF TypeOK
<1>6. disk' \in [Node -> Durable]
  <2>1. PersistHardState(disk[n], t, n) \in Durable
    BY <1>1, PersistTypes DEF TypeOK
  <2> QED
    BY <1>3, <2>1 DEF TypeOK
<1>7. /\ currentTerm'[n] \in Nat /\ log'[n] \in Seq(Entry) /\ snapshot'[n] \in Snapshot
      /\ commitIndex'[n] \in Nat /\ \A p \in Node : nextIndex'[n][p] \in Nat
  BY <1>2, <1>3, <1>5 DEF TypeOK
<1>8. currentConfig[n].voters \subseteq Node /\ ReplicationTargets(n) \subseteq Node
  BY DEF TypeOK, Config, ReplicationTargets
<1>9. \A p \in ReplicationTargets(n) : ReplicateTo(n, p)' \in Message
  BY <1>7, <1>8, ReplicateToType
<1>10. \A p \in currentConfig[n].voters : RequestVote(n, p)' \in Message
  <2>1. LastLogIndex(n)' \in Nat
    BY <1>7 DEF LastLogIndex, Snapshot
  <2>2. LastLogTerm(n)' \in Nat
    <3>1. CASE log'[n] = <<>>
      BY <1>7, <3>1 DEF LastLogTerm, Snapshot
    <3>2. CASE log'[n] # <<>>
      <4>1. Len(log'[n]) \in DOMAIN log'[n]
        BY <1>7, <3>2, EmptySeq, LenProperties
      <4>2. log'[n][Len(log'[n])].term \in Nat
        BY <1>7, <4>1, EntryFields
      <4> QED
        BY <3>2, <4>2 DEF LastLogTerm
    <3> QED
      BY <3>1, <3>2
  <2> QED
    BY <1>7, <1>8, <2>1, <2>2 DEF RequestVote, Message
<1>11. msgs' \subseteq Message
  BY <1>3, <1>9, <1>10 DEF TypeOK
<1>12. SnapshotIsCommitted'
  BY <1>3 DEF SnapshotIsCommitted
<1> QED
  BY <1>2, <1>3, <1>4, <1>5, <1>6, <1>11, <1>12 DEF TypeOK

\* A crash and recovery.
LEMMA RestartType ==
    ASSUME TypeInv, NEW n \in Node, Restart(n)
    PROVE  TypeInv'
<1> DEFINE snap == [disk[n].snapshot EXCEPT !.config = RecoveredConfig(n)]
<1> USE DEF TypeInv
<1>1. /\ disk[n].term \in Nat /\ disk[n].votedFor \in Node \cup {Nil}
      /\ disk[n].log \in Seq(Entry) /\ disk[n].snapshot \in Snapshot
      /\ disk[n].learners \in SUBSET Node
  BY DEF TypeOK, Durable
<1>2. RecoveredConfig(n) \in Config
  <2>1. disk[n].snapshot.config \in Config /\ disk[n].snapshot.index \in Nat
    BY <1>1 DEF Snapshot
  <2>2. EmptyConfig \in Config /\ Stable(Bootstrap \cup {n}) \in Config
    BY BootstrapAssumption DEF EmptyConfig, Stable, Config
  <2>3. CASE disk[n].snapshot.index > 0
    BY <2>1, <2>3 DEF RecoveredConfig
  <2>4. CASE disk[n].snapshot.index = 0 /\ n \notin Bootstrap /\ IsFreshStorage(disk[n])
    BY <2>2, <2>4 DEF RecoveredConfig
  <2>5. CASE disk[n].snapshot.index = 0 /\ ~ (n \notin Bootstrap /\ IsFreshStorage(disk[n]))
    BY <2>2, <2>5 DEF RecoveredConfig
  <2> QED
    BY <2>1, <2>3, <2>4, <2>5
<1>3. snap \in Snapshot /\ snap.index = disk[n].snapshot.index /\ snap.index \in Nat
  BY <1>1, <1>2 DEF Snapshot
<1>4. NoProgress \in [Node -> Nat]
  BY DEF NoProgress
<1>5. /\ role' = [role EXCEPT ![n] = Follower]
      /\ currentTerm' = [currentTerm EXCEPT ![n] = disk[n].term]
      /\ votedFor' = [votedFor EXCEPT ![n] = disk[n].votedFor]
      /\ votesGranted' = [votesGranted EXCEPT ![n] = {}]
      /\ log' = [log EXCEPT ![n] = disk[n].log]
      /\ commitIndex' = [commitIndex EXCEPT ![n] = disk[n].snapshot.index]
      /\ nextIndex' = [nextIndex EXCEPT ![n] = NoProgress]
      /\ matchIndex' = [matchIndex EXCEPT ![n] = NoProgress]
      /\ snapshot' = [snapshot EXCEPT ![n] = snap]
      /\ RecomputeConfig(n, disk[n].log, snap)
      /\ learners' = [learners EXCEPT ![n] = disk[n].learners]
      /\ UNCHANGED <<disk, msgs, elected, committed>>
  BY DEF Restart
<1> HIDE DEF snap
<1>6. currentConfig' \in [Node -> Config] /\ currentConfigIndex' \in [Node -> Nat]
  BY <1>1, <1>3, <1>5, RecomputeConfigType
<1>7. role' \in [Node -> {Follower, Candidate, Leader}]
  BY <1>5 DEF TypeOK
<1>8. /\ currentTerm' \in [Node -> Nat] /\ votedFor' \in [Node -> Node \cup {Nil}]
      /\ votesGranted' \in [Node -> SUBSET Node] /\ learners' \in [Node -> SUBSET Node]
  BY <1>1, <1>5 DEF TypeOK
<1>9. nextIndex' \in [Node -> [Node -> Nat]] /\ matchIndex' \in [Node -> [Node -> Nat]]
  BY <1>4, <1>5 DEF TypeOK
<1>10. /\ log' \in [Node -> Seq(Entry)] /\ snapshot' \in [Node -> Snapshot]
       /\ commitIndex' \in [Node -> Nat]
  BY <1>1, <1>3, <1>5 DEF TypeOK
<1>11. SnapshotIsCommitted'
  BY <1>3, <1>5 DEF SnapshotIsCommitted, TypeOK
<1> QED
  BY <1>5, <1>6, <1>7, <1>8, <1>9, <1>10, <1>11 DEF TypeOK

\* A response of a later term.
LEMMA AdoptTermType ==
    ASSUME TypeInv, NEW m \in msgs, AdoptTerm(m)
    PROVE  TypeInv'
<1> USE DEF TypeInv
<1>1. m \in Message /\ m.to \in Node /\ m.term \in Nat
  BY MessageFields DEF TypeOK
<1>2. /\ role' \in [Node -> {Follower, Candidate, Leader}]
      /\ currentTerm' \in [Node -> Nat]
      /\ votedFor' \in [Node -> Node \cup {Nil}]
      /\ votesGranted' \in [Node -> SUBSET Node]
      /\ nextIndex' \in [Node -> [Node -> Nat]]
      /\ matchIndex' \in [Node -> [Node -> Nat]]
  BY <1>1, ObserveLeaderType DEF AdoptTerm
<1>3. disk' \in [Node -> Durable]
  <2>1. PersistHardState(disk[m.to], m.term, Nil) \in Durable
    BY <1>1, PersistTypes DEF TypeOK
  <2> QED
    BY <1>1, <2>1 DEF AdoptTerm, TypeOK
<1>4. /\ msgs' \subseteq Message
      /\ UNCHANGED <<log, commitIndex, snapshot, currentConfig, currentConfigIndex,
                     learners, elected, committed>>
  BY DEF AdoptTerm, Reply, TypeOK, configVars
<1>5. SnapshotIsCommitted'
  BY <1>4 DEF SnapshotIsCommitted
<1> QED
  BY <1>2, <1>3, <1>4, <1>5 DEF TypeOK

\* A request for a vote.
LEMMA OnRequestVoteType ==
    ASSUME TypeInv, NEW m \in msgs, OnRequestVote(m)
    PROVE  TypeInv'
<1> USE DEF TypeInv
<1> DEFINE n == m.to
<1>1. m \in Message /\ n \in Node /\ m.from \in Node /\ m.term \in Nat /\ currentTerm[n] \in Nat
  BY MessageFields DEF TypeOK
<1>2. CASE DisregardRequestVote(m)
  <2>1. RequestVoteResponse(n, m.from, currentTerm[n], FALSE) \in Message
    BY <1>1, ResponseTypes
  <2>2. msgs' \subseteq Message
    BY <1>2, <2>1 DEF DisregardRequestVote, Reply, TypeOK
  <2>3. UNCHANGED <<role, currentTerm, votedFor, votesGranted, log, commitIndex,
                    nextIndex, matchIndex, snapshot, currentConfig,
                    currentConfigIndex, learners, disk, elected, committed>>
    BY <1>2 DEF DisregardRequestVote, electionVars, leaderVars, configVars
  <2> QED
    BY <2>2, <2>3 DEF TypeOK, SnapshotIsCommitted
<1>3. CASE AnswerRequestVote(m)
  <2> DEFINE newer == m.term > currentTerm[n]
             vote == IF newer THEN Nil ELSE votedFor[n]
             grant == LogIsUpToDate(n, m) /\ vote \in {Nil, m.from}
             vote2 == IF grant THEN m.from ELSE vote
  <2>1. vote2 \in Node \cup {Nil} /\ grant \in BOOLEAN
    BY <1>1 DEF TypeOK
  <2>2. NoProgress \in [Node -> Nat]
    BY DEF NoProgress
  <2>3. /\ role' = [role EXCEPT ![n] = IF newer THEN Follower ELSE @]
        /\ currentTerm' = [currentTerm EXCEPT ![n] = m.term]
        /\ votedFor' = [votedFor EXCEPT ![n] = vote2]
        /\ votesGranted' = [votesGranted EXCEPT ![n] = IF newer THEN {} ELSE @]
        /\ nextIndex' = [nextIndex EXCEPT ![n] = IF newer THEN NoProgress ELSE @]
        /\ matchIndex' = [matchIndex EXCEPT ![n] = IF newer THEN NoProgress ELSE @]
        /\ disk' = [disk EXCEPT ![n] = IF newer \/ grant
                                       THEN PersistHardState(@, m.term, vote2)
                                       ELSE @]
        /\ msgs' = (msgs \ {m}) \cup {RequestVoteResponse(n, m.from, m.term, grant)}
        /\ UNCHANGED <<log, commitIndex, snapshot, currentConfig, currentConfigIndex,
                       learners, elected, committed>>
    BY <1>3 DEF AnswerRequestVote, Reply, configVars
  <2> HIDE DEF n, newer, grant, vote2
  <2>4. PersistHardState(disk[n], m.term, vote2) \in Durable
    BY <1>1, <2>1, PersistTypes DEF TypeOK
  <2>5. RequestVoteResponse(n, m.from, m.term, grant) \in Message
    BY <1>1, <2>1, ResponseTypes
  <2>6. role' \in [Node -> {Follower, Candidate, Leader}]
    BY <1>1, <2>3 DEF TypeOK, Follower
  <2>7. /\ currentTerm' \in [Node -> Nat] /\ votedFor' \in [Node -> Node \cup {Nil}]
        /\ votesGranted' \in [Node -> SUBSET Node]
    BY <1>1, <2>1, <2>3 DEF TypeOK
  <2>8. nextIndex' \in [Node -> [Node -> Nat]] /\ matchIndex' \in [Node -> [Node -> Nat]]
    BY <1>1, <2>2, <2>3 DEF TypeOK
  <2>9. disk' \in [Node -> Durable]
    BY <1>1, <2>3, <2>4 DEF TypeOK
  <2>10. msgs' \subseteq Message
    BY <2>3, <2>5 DEF TypeOK
  <2>11. SnapshotIsCommitted'
    BY <2>3 DEF SnapshotIsCommitted
  <2> QED
    BY <2>3, <2>6, <2>7, <2>8, <2>9, <2>10, <2>11 DEF TypeOK
<1> QED
  BY <1>2, <1>3 DEF OnRequestVote

\* An answer to a request for a vote.
LEMMA OnRequestVoteResponseType ==
    ASSUME TypeInv, NEW m \in msgs, OnRequestVoteResponse(m)
    PROVE  TypeInv'
<1> USE DEF TypeInv
<1> DEFINE n == m.to
           votes == votesGranted[n] \cup {m.from}
           won == HasQuorum(currentConfig[n], votes)
<1>1. m \in Message /\ n \in Node /\ m.from \in Node /\ m.term \in Nat
  BY MessageFields DEF TypeOK
<1>2. CASE AdoptTerm(m)
  BY <1>2, AdoptTermType
<1>3. CASE CountVote(m)
  <2>1. votes \in SUBSET Node
    BY <1>1 DEF TypeOK
  <2>2. /\ votesGranted' = [votesGranted EXCEPT ![n] = votes]
        /\ role' = [role EXCEPT ![n] = IF won THEN Leader ELSE @]
        /\ WinWith(n, m.term, votes)
        /\ UNCHANGED <<currentTerm, votedFor, log, commitIndex, snapshot,
                       currentConfig, currentConfigIndex, learners, disk, committed>>
        /\ msgs' = (msgs \ {m})
             \cup IF won THEN {ReplicateTo(n, p)' : p \in ReplicationTargets(n)}
                         ELSE {}
    BY <1>3 DEF CountVote, Reply, configVars
  <2> HIDE DEF n, votes, won
  <2>3. /\ nextIndex' \in [Node -> [Node -> Nat]]
        /\ matchIndex' \in [Node -> [Node -> Nat]]
        /\ elected' \subseteq [term : Nat, leader : Node, votes : SUBSET Node,
                               config : Config]
    BY <1>1, <2>1, <2>2, WinWithType
  <2>4. /\ currentTerm'[n] \in Nat /\ log'[n] \in Seq(Entry)
        /\ snapshot'[n] \in Snapshot /\ commitIndex'[n] \in Nat
        /\ \A p \in Node : nextIndex'[n][p] \in Nat
    BY <1>1, <2>2, <2>3, ZenonT(30) DEF TypeOK
  <2>5. ReplicationTargets(n) \subseteq Node
    BY <1>1 DEF TypeOK, Config, ReplicationTargets
  <2>6. \A p \in ReplicationTargets(n) : ReplicateTo(n, p)' \in Message
    BY <1>1, <2>4, <2>5, ReplicateToType
  <2>7. msgs' \subseteq Message
    BY <2>2, <2>6 DEF TypeOK
  <2>8. role' \in [Node -> {Follower, Candidate, Leader}]
    BY <1>1, <2>2 DEF TypeOK, Leader
  <2>9. votesGranted' \in [Node -> SUBSET Node]
    BY <1>1, <2>1, <2>2 DEF TypeOK
  <2>10. SnapshotIsCommitted'
    BY <2>2 DEF SnapshotIsCommitted
  <2> QED
    BY <2>2, <2>3, <2>7, <2>8, <2>9, <2>10 DEF TypeOK
<1> QED
  BY <1>2, <1>3 DEF OnRequestVoteResponse

\* The append of propose and propose_config_change.
LEMMA AppendAndAdvanceType ==
    ASSUME TypeInv, NEW n \in Node, NEW payload \in Payload, NEW d \in Durable,
           AppendAndAdvance(n, payload, d), learners' \in [Node -> SUBSET Node],
           msgs' = msgs
    PROVE  TypeInv'
<1> USE DEF TypeInv
<1> DEFINE e == [term |-> currentTerm[n], payload |-> payload]
           lg == Append(log[n], e)
           active == LatestConfiguration(lg, snapshot[n])
<1>1. log[n] \in Seq(Entry) /\ snapshot[n] \in Snapshot
      /\ nextIndex[n] \in [Node -> Nat] /\ matchIndex[n] \in [Node -> Nat]
  BY DEF TypeOK
<1>2. e \in Entry
  BY DEF TypeOK, Entry
<1>3. lg \in Seq(Entry) /\ Len(lg) >= Len(log[n])
  <2> HIDE DEF e
  <2> QED
    BY <1>1, <1>2, AppendProperties
<1>4. LeaderAdvance(n, lg, active, nextIndex[n], matchIndex[n], d)
  BY DEF AppendAndAdvance
<1>5. active.config \in Config /\ active.index \in Nat
  <2> HIDE DEF lg
  <2>1. snapshot[n].index \in Nat /\ Len(lg) \in Nat
    BY <1>1, <1>3 DEF Snapshot
  <2> QED
    BY <1>1, <1>3, <2>1, LatestConfigurationType
<1> HIDE DEF lg, active
<1> QED
  BY <1>1, <1>3, <1>4, <1>5, LeaderAdvanceType DEF TypeOK

\* Client proposals and configuration changes.
LEMMA ProposeType ==
    ASSUME TypeInv, NEW n \in Node
    PROVE  /\ \A c \in Command : Propose(n, c) => TypeInv'
           /\ \A S \in VoterSets : ProposeConfigChange(n, S) => TypeInv'
<1> USE DEF TypeInv
<1>1. ASSUME NEW c \in Command, Propose(n, c) PROVE TypeInv'
  <2>1. CommandPayload(c) \in Payload
    BY DEF CommandPayload, Payload
  <2>2. /\ disk[n] \in Durable /\ learners' \in [Node -> SUBSET Node] /\ msgs' = msgs
        /\ AppendAndAdvance(n, CommandPayload(c), disk[n])
    BY <1>1 DEF Propose, TypeOK
  <2> QED
    BY <2>1, <2>2, AppendAndAdvanceType
<1>2. ASSUME NEW S \in VoterSets, ProposeConfigChange(n, S) PROVE TypeInv'
  <2> DEFINE remaining == learners[n] \ S
             joint == [voters |-> S, oldVoters |-> currentConfig[n].voters]
             d == IF remaining # learners[n] THEN PersistLearners(disk[n], remaining)
                                             ELSE disk[n]
  <2>1. joint \in Config /\ remaining \in SUBSET Node
    BY InputAssumption DEF TypeOK, Config
  <2>2. ConfigurationPayload(joint) \in Payload
    BY <2>1 DEF ConfigurationPayload, Payload
  <2>3. d \in Durable
    BY <2>1, PersistTypes DEF TypeOK
  <2>4. /\ AppendAndAdvance(n, ConfigurationPayload(joint), d)
        /\ learners' \in [Node -> SUBSET Node] /\ msgs' = msgs
    BY <1>2, <2>1 DEF ProposeConfigChange, TypeOK
  <2> HIDE DEF d, joint
  <2> QED
    BY <2>2, <2>3, <2>4, AppendAndAdvanceType
<1> QED
  BY <1>1, <1>2

\* Learners come and go.
LEMMA LearnerType ==
    ASSUME TypeInv, NEW n \in Node, NEW id \in Node,
           AddLearner(n, id) \/ RemoveLearner(n, id)
    PROVE  TypeInv'
<1> USE DEF TypeInv
<1>1. PICK S \in SUBSET Node : SetLearners(n, S)
  BY DEF AddLearner, RemoveLearner, TypeOK
<1>2. nextIndex' \in [Node -> [Node -> Nat]] /\ matchIndex' \in [Node -> [Node -> Nat]]
  <2>1. log[n] \in Seq(Entry) /\ snapshot[n].index \in Nat
    BY DEF TypeOK, Snapshot
  <2>2. LastLogIndex(n) + 1 \in Nat
    BY <2>1 DEF LastLogIndex
  <2>3. CASE UNCHANGED leaderVars
    BY <2>3 DEF leaderVars, TypeOK
  <2>4. CASE ~ UNCHANGED leaderVars
    <3>1. /\ nextIndex' = [nextIndex EXCEPT ![n][id] = LastLogIndex(n) + 1]
          /\ matchIndex' = [matchIndex EXCEPT ![n][id] = 0]
      BY <2>4 DEF AddLearner, RemoveLearner
    <3> QED
      BY <2>2, <3>1 DEF TypeOK
  <2> QED
    BY <2>3, <2>4
<1>3. PersistLearners(disk[n], S) \in Durable
  BY PersistTypes DEF TypeOK
<1>4. /\ learners' = [learners EXCEPT ![n] = S]
      /\ disk' = [disk EXCEPT ![n] = PersistLearners(@, S)]
      /\ UNCHANGED <<role, currentTerm, votedFor, votesGranted, log, commitIndex,
                     snapshot, currentConfig, currentConfigIndex, msgs, elected,
                     committed>>
  BY <1>1 DEF SetLearners, electionVars, configVars
<1>5. disk' \in [Node -> Durable] /\ learners' \in [Node -> SUBSET Node]
  BY <1>3, <1>4 DEF TypeOK
<1>6. SnapshotIsCommitted'
  BY <1>4 DEF SnapshotIsCommitted
<1> QED
  BY <1>2, <1>4, <1>5, <1>6 DEF TypeOK

\* A compaction: the new boundary has a term, and is committed.
LEMMA CompactType ==
    ASSUME TypeInv, NEW n \in Node, NEW i \in CompactPoints, NEW data \in SnapshotData,
           Compact(n, i, data)
    PROVE  TypeInv'
<1> USE DEF TypeInv
<1> DEFINE rest == SubSeq(log[n], i - snapshot[n].index + 1, Len(log[n]))
           snap == [index |-> i, term |-> TermAt(n, i), data |-> data,
                    config |-> ConfigAtBoundary(n, i)]
<1>1. /\ i \in Nat /\ log[n] \in Seq(Entry) /\ snapshot[n] \in Snapshot
      /\ snapshot[n].index \in Nat /\ Len(log[n]) \in Nat /\ commitIndex[n] \in Nat
      /\ i > snapshot[n].index /\ i <= commitIndex[n]
      /\ i <= snapshot[n].index + Len(log[n])
  BY InputAssumption DEF TypeOK, Snapshot, Compact, LastLogIndex
<1>2. rest \in Seq(Entry)
  BY <1>1, SuffixType
<1>3. TermAt(n, i) \in Nat
  <2>1. i - snapshot[n].index \in 1 .. Len(log[n])
    BY <1>1
  <2> QED
    BY <1>1, <2>1, TermInType DEF TermAt
<1>4. ConfigAtBoundary(n, i) \in Config
  <2>1. SubSeq(log[n], 1, i - snapshot[n].index) \in Seq(Entry)
    BY <1>1, PrefixType
  <2> QED
    BY <1>1, <2>1, LatestConfigurationType DEF ConfigAtBoundary
<1>5. snap \in Snapshot /\ snap.index = i
  BY <1>1, <1>3, <1>4 DEF Snapshot
<1>6. /\ log' = [log EXCEPT ![n] = rest]
      /\ snapshot' = [snapshot EXCEPT ![n] = snap]
      /\ RecomputeConfig(n, rest, snap)
      /\ disk' = [disk EXCEPT ![n] = PersistLog(PersistSnapshot(@, snap), i + 1, rest)]
      /\ UNCHANGED <<role, currentTerm, votedFor, votesGranted, commitIndex, nextIndex,
                     matchIndex, learners, msgs, elected, committed>>
  BY DEF Compact, electionVars, leaderVars
<1> HIDE DEF rest, snap
<1>7. currentConfig' \in [Node -> Config] /\ currentConfigIndex' \in [Node -> Nat]
  BY <1>2, <1>5, <1>6, RecomputeConfigType
<1>8. disk' \in [Node -> Durable]
  <2>1. PersistSnapshot(disk[n], snap) \in Durable
    BY <1>5, PersistTypes DEF TypeOK
  <2>2. PersistLog(PersistSnapshot(disk[n], snap), i + 1, rest) \in Durable
    <3> DEFINE d == PersistSnapshot(disk[n], snap)
    <3>1. d \in Durable /\ i + 1 \in Nat
      BY <1>1, <2>1
    <3> HIDE DEF d
    <3>2. PersistLog(d, i + 1, rest) \in Durable
      BY <1>2, <3>1, PersistTypes
    <3> QED
      BY <3>2 DEF d
  <2> QED
    BY <1>6, <2>2 DEF TypeOK
<1>9. log' \in [Node -> Seq(Entry)] /\ snapshot' \in [Node -> Snapshot]
  BY <1>2, <1>5, <1>6 DEF TypeOK
<1>10. SnapshotIsCommitted'
  BY <1>1, <1>5, <1>6 DEF SnapshotIsCommitted, TypeOK
<1> QED
  BY <1>6, <1>7, <1>8, <1>9, <1>10 DEF TypeOK

\* A leader's tick, and a message that goes nowhere.
LEMMA HeartbeatType ==
    ASSUME TypeInv
    PROVE  /\ \A n \in Node : Heartbeat(n) => TypeInv'
           /\ \A m \in msgs : Lose(m) => TypeInv'
<1> USE DEF TypeInv
<1>1. ASSUME NEW n \in Node, Heartbeat(n) PROVE TypeInv'
  <2>1. ReplicationTargets(n) \subseteq Node
    BY DEF TypeOK, Config, ReplicationTargets
  <2>2. \A p \in ReplicationTargets(n) : ReplicateTo(n, p) \in Message
    BY <2>1, ReplicateToType DEF TypeOK
  <2>3. msgs' \subseteq Message
    BY <1>1, <2>2 DEF Heartbeat, Send, TypeOK
  <2>4. UNCHANGED <<role, currentTerm, votedFor, votesGranted, log, commitIndex,
                    nextIndex, matchIndex, snapshot, currentConfig,
                    currentConfigIndex, learners, disk, elected, committed>>
    BY <1>1 DEF Heartbeat, electionVars, leaderVars, configVars
  <2> QED
    BY <2>3, <2>4 DEF TypeOK, SnapshotIsCommitted
<1>2. ASSUME NEW m \in msgs, Lose(m) PROVE TypeInv'
  BY <1>2 DEF Lose, TypeOK, SnapshotIsCommitted, electionVars, leaderVars, configVars
<1> QED
  BY <1>1, <1>2

\* The disk of a node that has observed a leader.
LEMMA ObservedDiskType ==
    ASSUME TypeOK, NEW n \in Node, NEW t \in Nat
    PROVE  ObservedDisk(n, t) \in Durable
<1>1. disk[n] \in Durable
  BY DEF TypeOK
<1> QED
  BY <1>1, PersistTypes DEF ObservedDisk

\* AppendEntries, refused.
LEMMA RejectAppendEntriesType ==
    ASSUME TypeInv, NEW m \in msgs, RejectAppendEntries(m)
    PROVE  TypeInv'
<1> USE DEF TypeInv
<1> DEFINE n == m.to
<1>1. m \in Message /\ n \in Node /\ m.from \in Node /\ m.term \in Nat
  BY MessageFields DEF TypeOK
<1>2. UNCHANGED <<log, commitIndex, snapshot, currentConfig, currentConfigIndex,
                  learners, elected, committed>>
  BY DEF RejectAppendEntries, configVars
<1>3. /\ role' \in [Node -> {Follower, Candidate, Leader}]
      /\ currentTerm' \in [Node -> Nat]
      /\ votedFor' \in [Node -> Node \cup {Nil}]
      /\ votesGranted' \in [Node -> SUBSET Node]
      /\ nextIndex' \in [Node -> [Node -> Nat]]
      /\ matchIndex' \in [Node -> [Node -> Nat]]
      /\ disk' \in [Node -> Durable]
  <2>1. CASE UNCHANGED <<electionVars, leaderVars, disk>>
    BY <2>1 DEF TypeOK, electionVars, leaderVars
  <2>2. CASE ObserveLeader(n, m.term) /\ disk' = [disk EXCEPT ![n] = ObservedDisk(n, m.term)]
    <3>1. disk' \in [Node -> Durable]
      BY <1>1, <2>2, ObservedDiskType DEF TypeOK
    <3> QED
      BY <1>1, <2>2, <3>1, ObserveLeaderType
  <2> QED
    BY <2>1, <2>2 DEF RejectAppendEntries
<1>4. AppendEntriesResponse(n, m.from, currentTerm'[n], FALSE, 0) \in Message
  BY <1>1, <1>3, ResponseTypes
<1>5. msgs' \subseteq Message
  BY <1>4 DEF RejectAppendEntries, Reply, TypeOK
<1>6. SnapshotIsCommitted'
  BY <1>2 DEF SnapshotIsCommitted
<1> QED
  BY <1>2, <1>3, <1>5, <1>6 DEF TypeOK

\* AppendEntries, merged.
LEMMA AcceptAppendEntriesType ==
    ASSUME TypeInv, NEW m \in msgs, m.type = "AppendEntries", AcceptAppendEntries(m)
    PROVE  TypeInv'
<1> USE DEF TypeInv
<1> DEFINE n == m.to
           lg == MergedLog(n, m)
           from == m.prevLogIndex + Min(Missing(n, m))
           last == snapshot[n].index + Len(lg)
           commit == IF m.leaderCommit > commitIndex[n]
                     THEN Min({m.leaderCommit, last}) ELSE commitIndex[n]
           tail == SubSeq(lg, from - snapshot[n].index, Len(lg))
<1>1. /\ m \in Message /\ n \in Node /\ m.from \in Node /\ m.term \in Nat
      /\ m.prevLogIndex \in Nat /\ m.prevLogTerm \in Nat
      /\ m.entries \in Seq(Entry) /\ m.leaderCommit \in Nat
  BY MessageFields DEF TypeOK
<1>2. /\ PrevLogSatisfied(n, m)
      /\ ObserveLeader(n, m.term)
      /\ log' = [log EXCEPT ![n] = lg]
      /\ commitIndex' = [commitIndex EXCEPT ![n] = commit]
      /\ committed' = committed \cup NewlyCommitted(n, lg, commit)
      /\ IF Missing(n, m) = {}
         THEN /\ UNCHANGED configVars
              /\ disk' = [disk EXCEPT ![n] = ObservedDisk(n, m.term)]
         ELSE /\ RecomputeConfig(n, lg, snapshot[n])
              /\ disk' = [disk EXCEPT ![n] =
                    PersistLog(ObservedDisk(n, m.term), from, tail)]
      /\ UNCHANGED <<snapshot, learners, elected>>
      /\ msgs' = (msgs \ {m}) \cup {AppendEntriesResponse(n, m.from, m.term, TRUE,
                                        m.prevLogIndex + Len(m.entries))}
  BY DEF AcceptAppendEntries, Reply
<1>3. /\ snapshot[n] \in Snapshot /\ snapshot[n].index \in Nat /\ log[n] \in Seq(Entry)
      /\ commitIndex[n] \in Nat /\ snapshot[n].index <= commitIndex[n]
  BY <1>1 DEF TypeOK, Snapshot, SnapshotIsCommitted
<1> HIDE DEF n
<1>4. /\ lg \in Seq(Entry)
      /\ Missing(n, m) # {} => /\ Min(Missing(n, m)) \in DOMAIN m.entries
                               /\ from > snapshot[n].index
  BY <1>1, <1>2, <1>3, MergedLogType
<1>5. Len(lg) \in Nat /\ Len(m.entries) \in Nat /\ m.prevLogIndex + Len(m.entries) \in Nat
  <2> HIDE DEF lg
  <2> QED
    BY <1>1, <1>4
<1>6. Missing(n, m) # {} => from \in Nat /\ from - snapshot[n].index >= 1
  <2>1. DOMAIN m.entries \subseteq Nat
    BY <1>1
  <2> QED
    BY <1>1, <1>3, <1>4, <2>1, SMTT(30)
<1>7. Missing(n, m) # {} => tail \in Seq(Entry)
  <2> HIDE DEF lg, from
  <2>1. ASSUME Missing(n, m) # {} PROVE from - snapshot[n].index \in Int
    BY <1>3, <1>6, <2>1
  <2> QED
    BY <1>4, <1>6, <2>1, SuffixType
<1>8. /\ commit \in Nat
      /\ commit >= snapshot[n].index
      /\ commit <= commitIndex[n] \/ commit <= last
  <2> HIDE DEF lg
  <2>1. last \in Nat /\ last >= snapshot[n].index
    BY <1>3, <1>5
  <2> HIDE DEF last
  <2>2. CASE m.leaderCommit > commitIndex[n]
    <3>1. /\ Min({m.leaderCommit, last}) \in {m.leaderCommit, last}
          /\ Min({m.leaderCommit, last}) <= last
      BY <1>1, <2>1, PairExtrema
    <3> QED
      BY <1>1, <1>3, <2>1, <2>2, <3>1
  <2>3. CASE ~ (m.leaderCommit > commitIndex[n])
    BY <1>3, <2>3
  <2> QED
    BY <2>2, <2>3
<1> HIDE DEF lg, from, commit, tail
<1>9. NewlyCommitted(n, lg, commit) \subseteq [index : Nat, entry : Entry]
  BY <1>1, <1>3, <1>4, <1>8, NewlyCommittedType
<1>10. /\ role' \in [Node -> {Follower, Candidate, Leader}]
       /\ currentTerm' \in [Node -> Nat]
       /\ votedFor' \in [Node -> Node \cup {Nil}]
       /\ votesGranted' \in [Node -> SUBSET Node]
       /\ nextIndex' \in [Node -> [Node -> Nat]]
       /\ matchIndex' \in [Node -> [Node -> Nat]]
  BY <1>1, <1>2, ObserveLeaderType
<1>11. ObservedDisk(n, m.term) \in Durable
  BY <1>1, ObservedDiskType
<1>12. /\ currentConfig' \in [Node -> Config]
       /\ currentConfigIndex' \in [Node -> Nat]
       /\ disk' \in [Node -> Durable]
  <2>1. CASE Missing(n, m) = {}
    BY <1>1, <1>2, <1>11, <2>1, ZenonT(30) DEF TypeOK, configVars
  <2>2. CASE Missing(n, m) # {}
    <3>1. PersistLog(ObservedDisk(n, m.term), from, tail) \in Durable
      BY <1>6, <1>7, <1>11, <2>2, PersistTypes
    <3>2. disk' \in [Node -> Durable]
      BY <1>1, <1>2, <2>2, <3>1 DEF TypeOK
    <3>3. RecomputeConfig(n, lg, snapshot[n])
      BY <1>2, <2>2
    <3> QED
      BY <1>1, <1>3, <1>4, <3>2, <3>3, RecomputeConfigType
  <2> QED
    BY <2>1, <2>2
<1>13. msgs' \subseteq Message
  <2>1. AppendEntriesResponse(n, m.from, m.term, TRUE,
                              m.prevLogIndex + Len(m.entries)) \in Message
    BY <1>1, <1>5, ResponseTypes
  <2> QED
    BY <1>2, <2>1 DEF TypeOK
<1>14. /\ log' \in [Node -> Seq(Entry)] /\ commitIndex' \in [Node -> Nat]
       /\ committed' \subseteq [index : Nat, entry : Entry]
       /\ snapshot' \in [Node -> Snapshot] /\ learners' \in [Node -> SUBSET Node]
       /\ elected' \subseteq [term : Nat, leader : Node, votes : SUBSET Node,
                              config : Config]
  BY <1>1, <1>2, <1>4, <1>8, <1>9 DEF TypeOK
<1>15. SnapshotIsCommitted'
  <2>1. commitIndex' = [commitIndex EXCEPT ![n] = commit] /\ snapshot' = snapshot
    BY <1>2
  <2> QED
    BY <1>1, <1>8, <2>1 DEF SnapshotIsCommitted, TypeOK
<1> QED
  BY <1>10, <1>12, <1>13, <1>14, <1>15 DEF TypeOK

\* The larger of an integer and a natural number.
LEMMA MaxIsNat ==
    ASSUME NEW a \in Int, NEW b \in Nat
    PROVE  Max({a, b}) \in Nat /\ Max({a, b}) >= b
<1>1. Max({a, b}) \in {a, b} /\ Max({a, b}) >= b
  BY PairExtrema
<1> QED
  BY <1>1

\* A response handler's trailing replication.
LEMMA ReplicateIfBehindType ==
    ASSUME NEW m \in Message, msgs \subseteq Message, ReplicateIfBehind(m),
           currentTerm' \in [Node -> Nat], log' \in [Node -> Seq(Entry)],
           snapshot' \in [Node -> Snapshot], commitIndex' \in [Node -> Nat],
           nextIndex' \in [Node -> [Node -> Nat]]
    PROVE  msgs' \subseteq Message
<1>1. m.from \in Node /\ m.to \in Node
  BY MessageFields
<1>2. ReplicateTo(m.to, m.from)' \in Message
  BY <1>1, ReplicateToType
<1> QED
  BY <1>2 DEF ReplicateIfBehind, Reply

\* An acknowledgement, of entries or of a snapshot.
LEMMA RecordMatchType ==
    ASSUME TypeInv, NEW m \in msgs, NEW i \in Nat, RecordMatch(m, i)
    PROVE  TypeInv'
<1> USE DEF TypeInv
<1> DEFINE n == m.to
           match == Max({matchIndex[n][m.from], i})
           active == [config |-> currentConfig[n], index |-> currentConfigIndex[n]]
           next2 == [nextIndex[n] EXCEPT ![m.from] = match + 1]
           match2 == [matchIndex[n] EXCEPT ![m.from] = match]
<1>1. m \in Message /\ n \in Node /\ m.from \in Node
  BY MessageFields DEF TypeOK
<1>2. match \in Nat
  <2> DEFINE a == matchIndex[n][m.from]
  <2>1. a \in Int
    BY <1>1 DEF TypeOK
  <2> HIDE DEF a
  <2>2. Max({a, i}) \in Nat
    BY <2>1, MaxIsNat
  <2> QED
    BY <2>2 DEF a
<1>3. /\ LeaderAdvance(n, log[n], active, next2, match2, disk[n])
      /\ learners' = learners /\ ReplicateIfBehind(m)
  BY DEF RecordMatch
<1> HIDE DEF n, match
<1>4. next2 \in [Node -> Nat] /\ match2 \in [Node -> Nat]
  BY <1>1, <1>2, SMTT(30) DEF TypeOK
<1>5. active.config \in Config /\ active.index \in Nat
  BY <1>1 DEF TypeOK
<1>6. log[n] \in Seq(Entry) /\ Len(log[n]) >= Len(log[n]) /\ disk[n] \in Durable
  <2>1. log[n] \in Seq(Entry) /\ disk[n] \in Durable
    BY <1>1 DEF TypeOK
  <2> QED
    BY <2>1
<1> HIDE DEF active, next2, match2
<1>7. /\ role' \in [Node -> {Follower, Candidate, Leader}]
      /\ currentTerm' \in [Node -> Nat]
      /\ votedFor' \in [Node -> Node \cup {Nil}]
      /\ votesGranted' \in [Node -> SUBSET Node]
      /\ log' \in [Node -> Seq(Entry)]
      /\ commitIndex' \in [Node -> Nat]
      /\ nextIndex' \in [Node -> [Node -> Nat]]
      /\ matchIndex' \in [Node -> [Node -> Nat]]
      /\ snapshot' \in [Node -> Snapshot]
      /\ currentConfig' \in [Node -> Config]
      /\ currentConfigIndex' \in [Node -> Nat]
      /\ disk' \in [Node -> Durable]
      /\ elected' \subseteq [term : Nat, leader : Node, votes : SUBSET Node,
                             config : Config]
      /\ committed' \subseteq [index : Nat, entry : Entry]
      /\ SnapshotIsCommitted'
  BY <1>1, <1>3, <1>4, <1>5, <1>6, LeaderAdvanceType
<1>8. msgs' \subseteq Message
  BY <1>1, <1>3, <1>7, ReplicateIfBehindType DEF TypeOK
<1> QED
  BY <1>3, <1>7, <1>8 DEF TypeOK

\* A refusal moves next_index back, never below 1.
LEMMA BackOffType ==
    ASSUME TypeInv, NEW m \in msgs, BackOff(m)
    PROVE  TypeInv'
<1> USE DEF TypeInv
<1> DEFINE n == m.to
           back == Max({nextIndex[n][m.from] - 1, 1})
<1>1. m \in Message /\ n \in Node /\ m.from \in Node
  BY MessageFields DEF TypeOK
<1>2. back \in Nat
  <2> DEFINE a == nextIndex[n][m.from] - 1
  <2>1. nextIndex[n][m.from] \in Nat
    BY <1>1, SMTT(30) DEF TypeOK
  <2>2. a \in Int /\ 1 \in Nat
    BY <2>1
  <2> HIDE DEF a
  <2>3. Max({a, 1}) \in Nat
    BY <2>2, MaxIsNat
  <2> QED
    BY <2>3 DEF a
<1>3. /\ nextIndex' = [nextIndex EXCEPT ![n][m.from] = back]
      /\ UNCHANGED <<role, currentTerm, votedFor, votesGranted, log, commitIndex,
                     matchIndex, snapshot, currentConfig, currentConfigIndex,
                     learners, disk, elected, committed>>
      /\ ReplicateIfBehind(m)
  BY DEF BackOff, electionVars, configVars
<1> HIDE DEF n, back
<1>4. nextIndex' \in [Node -> [Node -> Nat]]
  BY <1>1, <1>2, <1>3 DEF TypeOK
<1>5. msgs' \subseteq Message
  BY <1>1, <1>3, <1>4, ReplicateIfBehindType DEF TypeOK
<1>6. SnapshotIsCommitted'
  BY <1>3 DEF SnapshotIsCommitted
<1> QED
  BY <1>3, <1>4, <1>5, <1>6 DEF TypeOK

\* Snapshots, refused or installed.
LEMMA OnInstallSnapshotType ==
    ASSUME TypeInv, NEW m \in msgs, OnInstallSnapshot(m)
    PROVE  TypeInv'
<1> USE DEF TypeInv
<1> DEFINE n == m.to
           snap == m.snapshot
<1>1. /\ m \in Message /\ n \in Node /\ m.from \in Node /\ m.term \in Nat
      /\ m.type = "InstallSnapshot" /\ snap \in Snapshot /\ snap.index \in Nat
  <2>1. m \in Message /\ m.type = "InstallSnapshot"
    BY DEF OnInstallSnapshot, TypeOK
  <2>2. n \in Node /\ m.from \in Node /\ m.term \in Nat /\ snap \in Snapshot
    BY <2>1, MessageFields
  <2> QED
    BY <2>1, <2>2 DEF Snapshot
<1>2. CASE RefuseSnapshot(m)
  <2>1. currentTerm[n] \in Nat /\ snapshot[n].index \in Nat
    BY <1>1 DEF TypeOK, Snapshot
  <2>2. InstallSnapshotResponse(n, m.from, currentTerm[n], snapshot[n].index) \in Message
    BY <1>1, <2>1, ResponseTypes
  <2>3. msgs' \subseteq Message
    BY <1>2, <2>2 DEF RefuseSnapshot, Reply, TypeOK
  <2>4. UNCHANGED <<role, currentTerm, votedFor, votesGranted, log, commitIndex,
                    nextIndex, matchIndex, snapshot, currentConfig,
                    currentConfigIndex, learners, disk, elected, committed>>
    BY <1>2 DEF RefuseSnapshot, electionVars, leaderVars, configVars
  <2> QED
    BY <2>3, <2>4 DEF TypeOK, SnapshotIsCommitted
<1>3. CASE AcceptSnapshot(m)
  <2>1. /\ ObserveLeader(n, m.term)
        /\ KeepLog(m) \/ ReplaceLog(m)
        /\ UNCHANGED <<learners, elected, committed>>
        /\ msgs' = (msgs \ {m}) \cup {InstallSnapshotResponse(n, m.from, m.term, snap.index)}
    BY <1>3 DEF AcceptSnapshot, Reply
  <2>2. /\ role' \in [Node -> {Follower, Candidate, Leader}]
        /\ currentTerm' \in [Node -> Nat]
        /\ votedFor' \in [Node -> Node \cup {Nil}]
        /\ votesGranted' \in [Node -> SUBSET Node]
        /\ nextIndex' \in [Node -> [Node -> Nat]]
        /\ matchIndex' \in [Node -> [Node -> Nat]]
    BY <1>1, <2>1, ObserveLeaderType
  <2>3. msgs' \subseteq Message
    <3>1. InstallSnapshotResponse(n, m.from, m.term, snap.index) \in Message
      BY <1>1, ResponseTypes
    <3> QED
      BY <2>1, <3>1 DEF TypeOK
  <2>4. ObservedDisk(n, m.term) \in Durable
    BY <1>1, ObservedDiskType
  <2>5. /\ log' \in [Node -> Seq(Entry)] /\ snapshot' \in [Node -> Snapshot]
        /\ commitIndex' \in [Node -> Nat]
        /\ currentConfig' \in [Node -> Config] /\ currentConfigIndex' \in [Node -> Nat]
        /\ disk' \in [Node -> Durable] /\ SnapshotIsCommitted'
    <3>1. CASE KeepLog(m)
      <4>1. disk' \in [Node -> Durable]
        BY <1>1, <2>4, <3>1 DEF KeepLog, TypeOK
      <4>2. UNCHANGED <<log, commitIndex, snapshot, currentConfig, currentConfigIndex>>
        BY <3>1 DEF KeepLog, configVars
      <4> QED
        BY <4>1, <4>2 DEF TypeOK, SnapshotIsCommitted
    <3>2. CASE ReplaceLog(m)
      <4>1. <<>> \in Seq(Entry) /\ snap.index + 1 \in Nat
        BY <1>1, EmptySeq
      <4>2. commitIndex[n] \in Nat
        BY <1>1 DEF TypeOK
      <4> DEFINE commit == Max({commitIndex[n], snap.index})
                 d == PersistSnapshot(ObservedDisk(n, m.term), snap)
      <4>3. commit \in Nat /\ commit >= snap.index
        <5> DEFINE a == commitIndex[n]
                   b == snap.index
        <5>1. a \in Int /\ b \in Nat
          BY <1>1, <4>2
        <5> HIDE DEF a, b
        <5>2. Max({a, b}) \in Nat /\ Max({a, b}) >= b
          BY <5>1, MaxIsNat
        <5> QED
          BY <5>2 DEF a, b
      <4>4. /\ log' = [log EXCEPT ![n] = <<>>]
            /\ snapshot' = [snapshot EXCEPT ![n] = snap]
            /\ commitIndex' = [commitIndex EXCEPT ![n] = commit]
            /\ RecomputeConfig(n, <<>>, snap)
            /\ disk' = [disk EXCEPT ![n] = PersistLog(d, snap.index + 1, <<>>)]
        BY <3>2 DEF ReplaceLog
      <4>5. d \in Durable
        BY <1>1, <2>4, PersistTypes
      <4> HIDE DEF d, commit, n, snap
      <4>6. PersistLog(d, snap.index + 1, <<>>) \in Durable
        BY <4>1, <4>5, PersistTypes
      <4>7. disk' \in [Node -> Durable]
        BY <1>1, <4>4, <4>6 DEF TypeOK
      <4>8. currentConfig' \in [Node -> Config] /\ currentConfigIndex' \in [Node -> Nat]
        BY <1>1, <4>1, <4>4, RecomputeConfigType
      <4>9. /\ log' \in [Node -> Seq(Entry)] /\ snapshot' \in [Node -> Snapshot]
            /\ commitIndex' \in [Node -> Nat]
        BY <1>1, <4>1, <4>3, <4>4 DEF TypeOK
      <4>10. SnapshotIsCommitted'
        BY <1>1, <4>3, <4>4 DEF SnapshotIsCommitted, TypeOK
      <4> QED
        BY <4>7, <4>8, <4>9, <4>10
    <3> QED
      BY <2>1, <3>1, <3>2
  <2> QED
    BY <2>1, <2>2, <2>3, <2>5 DEF TypeOK
<1> QED
  BY <1>2, <1>3 DEF OnInstallSnapshot

-----------------------------------------------------------------------------
(* The theorems *)

\* Every step keeps the state well formed.
LEMMA NextType == TypeInv /\ [Next]_vars => TypeInv'
<1> SUFFICES ASSUME TypeInv, [Next]_vars PROVE TypeInv'
  OBVIOUS
<1>m. \A m \in msgs : m \in Message
  BY DEF TypeInv, TypeOK
<1>1. ASSUME NEW n \in Node, StartElection(n) PROVE TypeInv'
  BY <1>1, StartElectionType
<1>2. ASSUME NEW n \in Node, Heartbeat(n) PROVE TypeInv'
  BY <1>2, HeartbeatType
<1>3. ASSUME NEW n \in Crashable, Restart(n) PROVE TypeInv'
  BY <1>3, RestartType, InputAssumption
<1>4. ASSUME NEW n \in Node, NEW c \in Command, Propose(n, c) PROVE TypeInv'
  BY <1>4, ProposeType
<1>5. ASSUME NEW n \in Node, NEW id \in Node, AddLearner(n, id) \/ RemoveLearner(n, id)
      PROVE  TypeInv'
  BY <1>5, LearnerType
<1>6. ASSUME NEW n \in Node, NEW i \in CompactPoints, NEW d \in SnapshotData,
             Compact(n, i, d)
      PROVE  TypeInv'
  BY <1>6, CompactType
<1>7. ASSUME NEW m \in msgs, Lose(m) PROVE TypeInv'
  BY <1>7, HeartbeatType
<1>8. ASSUME NEW m \in msgs, OnRequestVote(m) PROVE TypeInv'
  BY <1>8, OnRequestVoteType
<1>9. ASSUME NEW m \in msgs, OnRequestVoteResponse(m) PROVE TypeInv'
  BY <1>9, OnRequestVoteResponseType
<1>10. ASSUME NEW m \in msgs, OnAppendEntries(m) PROVE TypeInv'
  BY <1>10, RejectAppendEntriesType, AcceptAppendEntriesType DEF OnAppendEntries
<1>11. ASSUME NEW m \in msgs, OnAppendEntriesResponse(m) PROVE TypeInv'
  <2>1. m.matchIndex \in Nat
    BY <1>m, <1>11, MessageFields DEF OnAppendEntriesResponse
  <2> QED
    BY <1>11, <2>1, AdoptTermType, RecordMatchType, BackOffType DEF OnAppendEntriesResponse
<1>12. ASSUME NEW m \in msgs, OnInstallSnapshot(m) PROVE TypeInv'
  BY <1>12, OnInstallSnapshotType
<1>13. ASSUME NEW m \in msgs, OnInstallSnapshotResponse(m) PROVE TypeInv'
  <2>1. m.lastIncludedIndex \in Nat
    BY <1>m, <1>13, MessageFields DEF OnInstallSnapshotResponse
  <2> QED
    BY <1>13, <2>1, AdoptTermType, RecordMatchType DEF OnInstallSnapshotResponse
<1>14. ASSUME NEW n \in Node, NEW S \in VoterSets, ProposeConfigChange(n, S) PROVE TypeInv'
  BY <1>14, ProposeType
<1>15. ASSUME UNCHANGED vars PROVE TypeInv'
  BY <1>15 DEF TypeInv, TypeOK, SnapshotIsCommitted, vars, electionVars, leaderVars,
               configVars
<1> QED
  BY <1>1, <1>2, <1>3, <1>4, <1>5, <1>6, <1>7, <1>8, <1>9, <1>10, <1>11, <1>12,
     <1>13, <1>14, <1>15 DEF Next, Step

\* The state stays well formed, whatever the nodes, the inputs, the crashes and
\* the order of messages: in particular replicate_to never asks for a term the
\* log does not have, and the merge of on_append_entries leaves no gap.
THEOREM TypeCorrect == Spec => []TypeOK
<1>1. TypeInv => TypeOK
  BY DEF TypeInv
<1> QED
  BY <1>1, InitType, NextType, PTL DEF Spec

\* A node's snapshot never covers an entry the node does not count committed.
THEOREM SnapshotCommitted == Spec => []SnapshotIsCommitted
<1>1. TypeInv => SnapshotIsCommitted
  BY DEF TypeInv
<1> QED
  BY <1>1, InitType, NextType, PTL DEF Spec

-----------------------------------------------------------------------------
(* The disk and the memory, the log and the cached configuration *)

\* The disk holds the hard state in memory: recover starts from the same term
\* and vote the node crashed with.
HardStateDurable ==
    \A n \in Node : disk[n].term = currentTerm[n] /\ disk[n].votedFor = votedFor[n]

\* A node remembers a vote until its term moves on, and never votes ahead of
\* its own term.
VoteRemembered ==
    \A v, c \in Node : \A t \in Nat :
        Voted(v, c, t) => \/ t < currentTerm[v]
                          \/ t = currentTerm[v] /\ votedFor[v] = c

\* VoteOnce without the bound on terms.
VotesAgree ==
    \A v, c, d \in Node : \A t \in Nat : Voted(v, c, t) /\ Voted(v, d, t) => c = d

VoteInv == HardStateDurable /\ VoteRemembered /\ VotesAgree

Granted(m) == m.type = "RequestVoteResponse" /\ m.granted

\* A step adds no evidence of a vote but for the one its voter then remembers.
VotesAreOld ==
    \A v, c \in Node : \A t \in Nat :
        Voted(v, c, t)' => \/ Voted(v, c, t)
                           \/ t = currentTerm'[v] /\ votedFor'[v] = c

\* What a single action has to show.
VoteStep == HardStateDurable' /\ HardStateStep /\ VotesAreOld

-----------------------------------------------------------------------------
(* What the actions are built from *)

\* Persisting anything but the hard state leaves the hard state.
LEMMA PersistKeepsHardState ==
    ASSUME NEW d \in Durable
    PROVE  /\ \A snap : /\ PersistSnapshot(d, snap).term = d.term
                        /\ PersistSnapshot(d, snap).votedFor = d.votedFor
           /\ \A S : /\ PersistLearners(d, S).term = d.term
                     /\ PersistLearners(d, S).votedFor = d.votedFor
           /\ \A from, entries : /\ PersistLog(d, from, entries).term = d.term
                                 /\ PersistLog(d, from, entries).votedFor = d.votedFor
           /\ \A t, v : /\ PersistHardState(d, t, v).term = t
                        /\ PersistHardState(d, t, v).votedFor = v
  BY DEF PersistSnapshot, PersistLearners, PersistLog, PersistHardState, Durable

\* None of the other messages is a vote.
LEMMA OthersAreNotVotes ==
    ASSUME NEW n, NEW p
    PROVE  /\ ~ Granted(ReplicateTo(n, p))
           /\ ~ Granted(ReplicateTo(n, p)')
           /\ ~ Granted(RequestVote(n, p)')
           /\ \A t, s, i : ~ Granted(AppendEntriesResponse(n, p, t, s, i))
           /\ \A t, i : ~ Granted(InstallSnapshotResponse(n, p, t, i))
<1>1. \A t, lg, snap, next, commit :
          ~ Granted(Replication(n, p, t, lg, snap, next, commit))
  BY DEF Replication, Granted
<1> QED
  BY <1>1 DEF ReplicateTo, RequestVote, AppendEntriesResponse,
              InstallSnapshotResponse, Granted

\* A step that sends no vote, elects nobody, and forgets the votes a candidate
\* has counted when its term changes.
LEMMA NoNewVotes ==
    ASSUME \A c \in Node : \/ votesGranted'[c] = {}
                           \/ /\ currentTerm'[c] = currentTerm[c]
                              /\ votesGranted'[c] \subseteq votesGranted[c],
           elected' \subseteq elected,
           \A m \in msgs' : Granted(m) => m \in msgs
    PROVE  VotesAreOld
<1> SUFFICES ASSUME NEW v \in Node, NEW c \in Node, NEW t \in Nat, Voted(v, c, t)'
             PROVE  Voted(v, c, t)
  BY DEF VotesAreOld
<1>1. CASE \E m \in msgs' : /\ m.type = "RequestVoteResponse" /\ m.granted
                            /\ m.from = v /\ m.to = c /\ m.term = t
  BY <1>1 DEF Voted, Granted
<1>2. CASE currentTerm'[c] = t /\ v \in votesGranted'[c]
  BY <1>2 DEF Voted
<1>3. CASE \E e \in elected' : e.leader = c /\ e.term = t /\ v \in e.votes
  BY <1>3 DEF Voted
<1> QED
  BY <1>1, <1>2, <1>3 DEF Voted

\* A step that leaves the terms, the votes and the tallies alone.
LEMMA Quiet ==
    ASSUME TypeInv, HardStateDurable, UNCHANGED <<currentTerm, votedFor, elected>>,
           \A c \in Node : votesGranted'[c] = {} \/ votesGranted'[c] = votesGranted[c],
           \A c \in Node : /\ disk'[c].term = disk[c].term
                           /\ disk'[c].votedFor = disk[c].votedFor,
           \A m \in msgs' : Granted(m) => m \in msgs
    PROVE  VoteStep
<1>1. VotesAreOld
  BY NoNewVotes
<1>2. HardStateDurable'
  BY DEF HardStateDurable
<1>3. HardStateStep
  BY DEF HardStateStep
<1> QED
  BY <1>1, <1>2, <1>3 DEF VoteStep

\* A step that takes node n to a later term.
LEMMA StepDownVotes ==
    ASSUME TypeInv, HardStateDurable, NEW n \in Node, NEW t \in Nat,
           t > currentTerm[n], StepDown(n, t), UNCHANGED elected,
           disk'[n].term = t, disk'[n].votedFor = Nil,
           \A c \in Node \ {n} : disk'[c] = disk[c],
           \A m \in msgs' : Granted(m) => m \in msgs
    PROVE  VoteStep
<1>1. /\ currentTerm' = [currentTerm EXCEPT ![n] = t]
      /\ votedFor' = [votedFor EXCEPT ![n] = Nil]
      /\ votesGranted' = [votesGranted EXCEPT ![n] = {}]
  BY DEF StepDown
<1>2. /\ currentTerm'[n] = t /\ votedFor'[n] = Nil /\ votesGranted'[n] = {}
      /\ \A c \in Node \ {n} : /\ currentTerm'[c] = currentTerm[c]
                               /\ votedFor'[c] = votedFor[c]
                               /\ votesGranted'[c] = votesGranted[c]
  BY <1>1 DEF TypeInv, TypeOK
<1>3. VotesAreOld
  BY <1>2, NoNewVotes
<1>4. HardStateDurable'
  BY <1>2 DEF HardStateDurable
<1>5. HardStateStep
  BY <1>2 DEF HardStateStep
<1> QED
  BY <1>3, <1>4, <1>5 DEF VoteStep

\* A node that observes a leader and persists what that changes.
LEMMA ObserveLeaderVotes ==
    ASSUME TypeInv, HardStateDurable, NEW n \in Node, NEW t \in Nat,
           ObserveLeader(n, t), UNCHANGED elected,
           disk'[n].term = ObservedDisk(n, t).term,
           disk'[n].votedFor = ObservedDisk(n, t).votedFor,
           \A c \in Node \ {n} : disk'[c] = disk[c],
           \A m \in msgs' : Granted(m) => m \in msgs
    PROVE  VoteStep
<1>0. disk[n] \in Durable /\ currentTerm[n] \in Nat
  BY DEF TypeInv, TypeOK
<1>1. CASE t > currentTerm[n]
  <2>1. StepDown(n, t)
    BY <1>0, <1>1 DEF ObserveLeader
  <2>2. disk'[n].term = t /\ disk'[n].votedFor = Nil
    BY <1>0, <1>1, PersistKeepsHardState DEF ObservedDisk
  <2> QED
    BY <1>1, <2>1, <2>2, StepDownVotes
<1>2. CASE ~ (t > currentTerm[n])
  <2>1. UNCHANGED <<currentTerm, votedFor, votesGranted>>
    BY <1>2 DEF ObserveLeader
  <2>2. ObservedDisk(n, t) = disk[n]
    BY <1>2 DEF ObservedDisk
  <2> QED
    BY <2>1, <2>2, Quiet
<1> QED
  BY <1>1, <1>2

-----------------------------------------------------------------------------
(* The actions *)

\* No vote exists at the start.
LEMMA InitVotes == Init => VoteInv
<1> SUFFICES ASSUME Init PROVE VoteInv
  OBVIOUS
<1>1. HardStateDurable
  BY DEF Init, HardStateDurable, FreshDisk
<1>2. \A v, c \in Node : \A t \in Nat : ~ Voted(v, c, t)
  BY DEF Init, Voted
<1> QED
  BY <1>1, <1>2 DEF VoteInv, VoteRemembered, VotesAgree

\* A candidate votes for itself.
LEMMA StartElectionVotes ==
    ASSUME TypeInv, VoteInv, NEW n \in Node, StartElection(n)
    PROVE  VoteStep
<1> DEFINE t == currentTerm[n] + 1
           won == HasQuorum(currentConfig[n], {n})
<1>1. /\ currentTerm' = [currentTerm EXCEPT ![n] = t]
      /\ votedFor' = [votedFor EXCEPT ![n] = n]
      /\ votesGranted' = [votesGranted EXCEPT ![n] = {n}]
      /\ disk' = [disk EXCEPT ![n] = PersistHardState(@, t, n)]
      /\ WinWith(n, t, {n})
      /\ msgs' = msgs \cup IF won
                THEN {ReplicateTo(n, p)' : p \in ReplicationTargets(n)}
                ELSE {RequestVote(n, p)' : p \in currentConfig[n].voters \ {n}}
  BY DEF StartElection, Send
<1>2. elected' \subseteq elected \cup {[term |-> t, leader |-> n, votes |-> {n},
                                        config |-> currentConfig[n]]}
  BY <1>1 DEF WinWith
<1>3. t \in Nat /\ t > currentTerm[n] /\ disk[n] \in Durable
  BY DEF TypeInv, TypeOK
<1> HIDE DEF t, won
<1>4. /\ currentTerm'[n] = t /\ votedFor'[n] = n /\ votesGranted'[n] = {n}
      /\ disk'[n] = PersistHardState(disk[n], t, n)
      /\ \A c \in Node \ {n} : /\ currentTerm'[c] = currentTerm[c]
                               /\ votedFor'[c] = votedFor[c]
                               /\ votesGranted'[c] = votesGranted[c]
                               /\ disk'[c] = disk[c]
  BY <1>1 DEF TypeInv, TypeOK
<1>5. HardStateDurable'
  BY <1>3, <1>4, PersistKeepsHardState DEF VoteInv, HardStateDurable
<1>6. HardStateStep
  BY <1>3, <1>4 DEF HardStateStep
<1>7. \A m \in msgs' : Granted(m) => m \in msgs
  BY <1>1, OthersAreNotVotes
<1>8. VotesAreOld
  <2> SUFFICES ASSUME NEW v \in Node, NEW c \in Node, NEW u \in Nat, Voted(v, c, u)'
               PROVE  \/ Voted(v, c, u)
                      \/ u = currentTerm'[v] /\ votedFor'[v] = c
    BY DEF VotesAreOld
  <2>1. CASE \E m \in msgs' : /\ m.type = "RequestVoteResponse" /\ m.granted
                              /\ m.from = v /\ m.to = c /\ m.term = u
    BY <1>7, <2>1 DEF Voted, Granted
  <2>2. CASE currentTerm'[c] = u /\ v \in votesGranted'[c]
    <3>1. CASE c = n
      BY <1>4, <2>2, <3>1
    <3>2. CASE c # n
      BY <1>4, <2>2, <3>2 DEF Voted
    <3> QED
      BY <3>1, <3>2
  <2>3. CASE \E e \in elected' : e.leader = c /\ e.term = u /\ v \in e.votes
    <3>1. PICK e \in elected' : e.leader = c /\ e.term = u /\ v \in e.votes
      BY <2>3
    <3>2. CASE e \in elected
      BY <3>1, <3>2 DEF Voted
    <3>3. CASE e = [term |-> t, leader |-> n, votes |-> {n}, config |-> currentConfig[n]]
      BY <1>4, <3>1, <3>3
    <3> QED
      BY <1>2, <3>1, <3>2, <3>3
  <2> QED
    BY <2>1, <2>2, <2>3 DEF Voted
<1> QED
  BY <1>5, <1>6, <1>8 DEF VoteStep

\* A crash and recovery find the term and the vote on disk.
LEMMA RestartVotes ==
    ASSUME TypeInv, VoteInv, NEW n \in Node, Restart(n)
    PROVE  VoteStep
<1>1. /\ currentTerm' = [currentTerm EXCEPT ![n] = disk[n].term]
      /\ votedFor' = [votedFor EXCEPT ![n] = disk[n].votedFor]
      /\ votesGranted' = [votesGranted EXCEPT ![n] = {}]
      /\ UNCHANGED <<disk, msgs, elected>>
  BY DEF Restart
<1>2. disk[n].term = currentTerm[n] /\ disk[n].votedFor = votedFor[n]
  BY DEF VoteInv, HardStateDurable
<1>3. UNCHANGED <<currentTerm, votedFor>>
  BY <1>1, <1>2 DEF TypeInv, TypeOK
<1>4. \A c \in Node : votesGranted'[c] = {} \/ votesGranted'[c] = votesGranted[c]
  BY <1>1 DEF TypeInv, TypeOK
<1> QED
  BY <1>1, <1>3, <1>4, Quiet DEF VoteInv

\* A response of a later term.
LEMMA AdoptTermVotes ==
    ASSUME TypeInv, VoteInv, NEW m \in msgs, AdoptTerm(m)
    PROVE  VoteStep
<1>1. m.to \in Node /\ m.term \in Nat
  BY MessageFields DEF TypeInv, TypeOK
<1>2. /\ disk'[m.to] = PersistHardState(disk[m.to], m.term, Nil)
      /\ \A c \in Node \ {m.to} : disk'[c] = disk[c]
  BY <1>1 DEF AdoptTerm, TypeInv, TypeOK
<1>3. disk'[m.to].term = m.term /\ disk'[m.to].votedFor = Nil
  <2>1. disk[m.to] \in Durable
    BY <1>1 DEF TypeInv, TypeOK
  <2> QED
    BY <1>2, <2>1, PersistKeepsHardState
<1>4. /\ m.term > currentTerm[m.to] /\ StepDown(m.to, m.term) /\ UNCHANGED elected
      /\ \A x \in msgs' : Granted(x) => x \in msgs
  BY DEF AdoptTerm, Reply
<1> QED
  BY <1>1, <1>2, <1>3, <1>4, StepDownVotes DEF VoteInv

\* A vote is granted only by a node that has cast none in the term, or that
\* one; it is remembered and persisted with the grant.
LEMMA AnswerRequestVoteVotes ==
    ASSUME TypeInv, VoteInv, NEW m \in msgs, AnswerRequestVote(m)
    PROVE  VoteStep
<1> DEFINE n == m.to
           newer == m.term > currentTerm[n]
           vote == IF newer THEN Nil ELSE votedFor[n]
           grant == LogIsUpToDate(n, m) /\ vote \in {Nil, m.from}
           vote2 == IF grant THEN m.from ELSE vote
<1>1. /\ n \in Node /\ m.from \in Node /\ m.term \in Nat /\ currentTerm[n] \in Nat
      /\ disk[n] \in Durable
  BY MessageFields DEF TypeInv, TypeOK
<1>2. /\ currentTerm' = [currentTerm EXCEPT ![n] = m.term]
      /\ votedFor' = [votedFor EXCEPT ![n] = vote2]
      /\ votesGranted' = [votesGranted EXCEPT ![n] = IF newer THEN {} ELSE @]
      /\ disk' = [disk EXCEPT ![n] = IF newer \/ grant
                                     THEN PersistHardState(@, m.term, vote2)
                                     ELSE @]
      /\ msgs' = (msgs \ {m}) \cup {RequestVoteResponse(n, m.from, m.term, grant)}
      /\ elected' = elected /\ m.term >= currentTerm[n]
  BY DEF AnswerRequestVote, Reply
<1>3. vote2 = votedFor[n] \/ votedFor[n] = Nil \/ newer
  OBVIOUS
<1>4. grant => vote2 = m.from
  OBVIOUS
<1>5. ~ newer /\ ~ grant => vote2 = votedFor[n]
  OBVIOUS
<1>6. ~ newer => m.term = currentTerm[n]
  BY <1>1, <1>2
<1> HIDE DEF n, grant, vote2
<1>7. /\ currentTerm'[n] = m.term /\ votedFor'[n] = vote2
      /\ votesGranted'[n] = (IF newer THEN {} ELSE votesGranted[n])
      /\ disk'[n] = (IF newer \/ grant THEN PersistHardState(disk[n], m.term, vote2)
                                       ELSE disk[n])
      /\ \A c \in Node \ {n} : /\ currentTerm'[c] = currentTerm[c]
                               /\ votedFor'[c] = votedFor[c]
                               /\ votesGranted'[c] = votesGranted[c]
                               /\ disk'[c] = disk[c]
  BY <1>1, <1>2 DEF TypeInv, TypeOK
<1>8. HardStateStep
  BY <1>1, <1>2, <1>3, <1>6, <1>7 DEF HardStateStep
<1>9. HardStateDurable'
  <2>1. disk'[n].term = m.term /\ disk'[n].votedFor = vote2
    <3>1. CASE newer \/ grant
      BY <1>1, <1>7, <3>1, PersistKeepsHardState
    <3>2. CASE ~ (newer \/ grant)
      BY <1>1, <1>5, <1>6, <1>7, <3>2 DEF VoteInv, HardStateDurable
    <3> QED
      BY <3>1, <3>2
  <2> QED
    BY <1>7, <2>1 DEF VoteInv, HardStateDurable
<1>10. VotesAreOld
  <2> SUFFICES ASSUME NEW v \in Node, NEW c \in Node, NEW u \in Nat, Voted(v, c, u)'
               PROVE  \/ Voted(v, c, u)
                      \/ u = currentTerm'[v] /\ votedFor'[v] = c
    BY DEF VotesAreOld
  <2>1. CASE \E x \in msgs' : /\ x.type = "RequestVoteResponse" /\ x.granted
                              /\ x.from = v /\ x.to = c /\ x.term = u
    <3>1. PICK x \in msgs' : /\ x.type = "RequestVoteResponse" /\ x.granted
                             /\ x.from = v /\ x.to = c /\ x.term = u
      BY <2>1
    <3>2. CASE x \in msgs
      BY <3>1, <3>2 DEF Voted
    <3>3. CASE x = RequestVoteResponse(n, m.from, m.term, grant)
      <4>1. grant /\ v = n /\ c = m.from /\ u = m.term
        BY <3>1, <3>3 DEF RequestVoteResponse
      <4> QED
        BY <1>4, <1>7, <4>1
    <3> QED
      BY <1>2, <3>1, <3>2, <3>3
  <2>2. CASE currentTerm'[c] = u /\ v \in votesGranted'[c]
    BY <1>6, <1>7, <2>2 DEF Voted
  <2>3. CASE \E e \in elected' : e.leader = c /\ e.term = u /\ v \in e.votes
    BY <1>2, <2>3 DEF Voted
  <2> QED
    BY <2>1, <2>2, <2>3 DEF Voted
<1> QED
  BY <1>8, <1>9, <1>10 DEF VoteStep

\* A counted vote was in flight, and an election's votes were counted.
LEMMA CountVoteVotes ==
    ASSUME TypeInv, VoteInv, NEW m \in msgs, m.type = "RequestVoteResponse", CountVote(m)
    PROVE  VoteStep
<1> DEFINE n == m.to
           votes == votesGranted[n] \cup {m.from}
           won == HasQuorum(currentConfig[n], votes)
<1>1. n \in Node /\ m.from \in Node /\ m.term \in Nat
  BY MessageFields DEF TypeInv, TypeOK
<1>2. /\ m.term = currentTerm[n] /\ m.granted
      /\ votesGranted' = [votesGranted EXCEPT ![n] = votes]
      /\ WinWith(n, m.term, votes)
      /\ UNCHANGED <<currentTerm, votedFor, disk>>
      /\ msgs' = (msgs \ {m})
           \cup IF won THEN {ReplicateTo(n, p)' : p \in ReplicationTargets(n)} ELSE {}
  BY DEF CountVote, Reply
<1>3. elected' \subseteq elected \cup {[term |-> m.term, leader |-> n, votes |-> votes,
                                        config |-> currentConfig[n]]}
  BY <1>2 DEF WinWith
<1>4. \A v \in votes : Voted(v, n, m.term)
  BY <1>2 DEF Voted
<1> HIDE DEF n, votes, won
<1>5. /\ votesGranted'[n] = votes
      /\ \A c \in Node \ {n} : votesGranted'[c] = votesGranted[c]
  BY <1>1, <1>2 DEF TypeInv, TypeOK
<1>6. \A x \in msgs' : Granted(x) => x \in msgs
  BY <1>2, OthersAreNotVotes
<1>7. VotesAreOld
  <2> SUFFICES ASSUME NEW v \in Node, NEW c \in Node, NEW u \in Nat, Voted(v, c, u)'
               PROVE  Voted(v, c, u)
    BY DEF VotesAreOld
  <2>1. CASE \E x \in msgs' : /\ x.type = "RequestVoteResponse" /\ x.granted
                              /\ x.from = v /\ x.to = c /\ x.term = u
    BY <1>6, <2>1 DEF Voted, Granted
  <2>2. CASE currentTerm'[c] = u /\ v \in votesGranted'[c]
    <3>1. CASE c = n
      BY <1>2, <1>4, <1>5, <2>2, <3>1
    <3>2. CASE c # n
      BY <1>2, <1>5, <2>2, <3>2 DEF Voted
    <3> QED
      BY <3>1, <3>2
  <2>3. CASE \E e \in elected' : e.leader = c /\ e.term = u /\ v \in e.votes
    <3>1. PICK e \in elected' : e.leader = c /\ e.term = u /\ v \in e.votes
      BY <2>3
    <3>2. CASE e \in elected
      BY <3>1, <3>2 DEF Voted
    <3>3. CASE e = [term |-> m.term, leader |-> n, votes |-> votes,
                    config |-> currentConfig[n]]
      BY <1>4, <3>1, <3>3
    <3> QED
      BY <1>3, <3>1, <3>2, <3>3
  <2> QED
    BY <2>1, <2>2, <2>3 DEF Voted
<1>8. HardStateDurable' /\ HardStateStep
  BY <1>2 DEF VoteInv, HardStateDurable, HardStateStep
<1> QED
  BY <1>7, <1>8 DEF VoteStep

\* advance_commit_index touches no vote, even when the leader retires.
LEMMA LeaderAdvanceVotes ==
    ASSUME TypeInv, VoteInv, NEW n \in Node, NEW lg, NEW active, NEW next, NEW match,
           NEW d \in Durable, d.term = disk[n].term, d.votedFor = disk[n].votedFor,
           LeaderAdvance(n, lg, active, next, match, d),
           \A m \in msgs' : Granted(m) => m \in msgs
    PROVE  VoteStep
<1>1. \A c \in Node : votesGranted'[c] = {} \/ votesGranted'[c] = votesGranted[c]
  BY DEF LeaderAdvance, TypeInv, TypeOK
<1>2. PICK fresh, i :
        disk' = [disk EXCEPT ![n] = IF fresh = <<>> THEN d ELSE PersistLog(d, i, fresh)]
  BY DEF LeaderAdvance
<1>3. \A c \in Node : disk'[c].term = disk[c].term /\ disk'[c].votedFor = disk[c].votedFor
  BY <1>2, PersistKeepsHardState, SMTT(30) DEF TypeInv, TypeOK
<1>4. UNCHANGED <<currentTerm, votedFor, elected>>
  BY DEF LeaderAdvance
<1> QED
  BY <1>1, <1>3, <1>4, Quiet DEF VoteInv

\* The calls of a leader's owner.
LEMMA OwnerVotes ==
    ASSUME TypeInv, VoteInv, NEW n \in Node
    PROVE  /\ \A c : Propose(n, c) => VoteStep
           /\ \A S : ProposeConfigChange(n, S) => VoteStep
           /\ \A id : AddLearner(n, id) \/ RemoveLearner(n, id) => VoteStep
           /\ \A i, data : Compact(n, i, data) => VoteStep
<1>0. disk[n] \in Durable
  BY DEF TypeInv, TypeOK
<1>1. ASSUME NEW c, Propose(n, c) PROVE VoteStep
  BY <1>0, <1>1, LeaderAdvanceVotes DEF Propose, AppendAndAdvance
<1>2. ASSUME NEW S, ProposeConfigChange(n, S) PROVE VoteStep
  <2> DEFINE remaining == learners[n] \ S
             d == IF remaining # learners[n] THEN PersistLearners(disk[n], remaining)
                                             ELSE disk[n]
  <2>1. d \in Durable /\ d.term = disk[n].term /\ d.votedFor = disk[n].votedFor
    <3>1. remaining \in SUBSET Node
      BY DEF TypeInv, TypeOK
    <3> QED
      BY <1>0, <3>1, PersistTypes, PersistKeepsHardState
  <2>2. PICK lg, active, next, match : LeaderAdvance(n, lg, active, next, match, d)
    BY <1>2 DEF ProposeConfigChange, AppendAndAdvance
  <2>3. msgs' = msgs
    BY <1>2 DEF ProposeConfigChange
  <2> HIDE DEF d
  <2> QED
    BY <2>1, <2>2, <2>3, LeaderAdvanceVotes
<1>3. ASSUME NEW id, AddLearner(n, id) \/ RemoveLearner(n, id) PROVE VoteStep
  <2>1. PICK S : SetLearners(n, S)
    BY <1>3 DEF AddLearner, RemoveLearner
  <2>2. /\ UNCHANGED <<currentTerm, votedFor, votesGranted, elected, msgs>>
        /\ disk' = [disk EXCEPT ![n] = PersistLearners(@, S)]
    BY <2>1 DEF SetLearners, electionVars
  <2>3. \A c \in Node : disk'[c].term = disk[c].term /\ disk'[c].votedFor = disk[c].votedFor
    BY <1>0, <2>2, PersistKeepsHardState, SMTT(30) DEF TypeInv, TypeOK
  <2> QED
    BY <2>2, <2>3, Quiet DEF VoteInv
<1>4. ASSUME NEW i, NEW data, Compact(n, i, data) PROVE VoteStep
  <2>1. PICK snap, rest :
          disk' = [disk EXCEPT ![n] = PersistLog(PersistSnapshot(@, snap), i + 1, rest)]
    BY <1>4 DEF Compact
  <2>2. UNCHANGED <<currentTerm, votedFor, votesGranted, elected, msgs>>
    BY <1>4 DEF Compact, electionVars
  <2>3. /\ PersistLog(PersistSnapshot(disk[n], snap), i + 1, rest).term = disk[n].term
        /\ PersistLog(PersistSnapshot(disk[n], snap), i + 1, rest).votedFor
             = disk[n].votedFor
    BY <1>0 DEF PersistLog, PersistSnapshot, Durable
  <2>4. \A c \in Node : disk'[c].term = disk[c].term /\ disk'[c].votedFor = disk[c].votedFor
    BY <2>1, <2>3 DEF TypeInv, TypeOK
  <2> QED
    BY <2>2, <2>4, Quiet DEF VoteInv
<1> QED
  BY <1>1, <1>2, <1>3, <1>4

\* A tick of a leader, and a message that goes nowhere.
LEMMA HeartbeatVotes ==
    ASSUME TypeInv, VoteInv
    PROVE  /\ \A n \in Node : Heartbeat(n) => VoteStep
           /\ \A m \in msgs : Lose(m) => VoteStep
           /\ \A m \in msgs : DisregardRequestVote(m) => VoteStep
           /\ \A m \in msgs : BackOff(m) => VoteStep
<1>1. ASSUME NEW n \in Node, Heartbeat(n) PROVE VoteStep
  <2>1. \A m \in msgs' : Granted(m) => m \in msgs
    BY <1>1, OthersAreNotVotes DEF Heartbeat, Send
  <2>2. UNCHANGED <<currentTerm, votedFor, votesGranted, elected, disk>>
    BY <1>1 DEF Heartbeat, electionVars
  <2> QED
    BY <2>1, <2>2, Quiet DEF VoteInv
<1>2. ASSUME NEW m \in msgs, Lose(m) PROVE VoteStep
  <2>1. UNCHANGED <<currentTerm, votedFor, votesGranted, elected, disk>>
    BY <1>2 DEF Lose, electionVars
  <2>2. \A x \in msgs' : Granted(x) => x \in msgs
    BY <1>2 DEF Lose
  <2> QED
    BY <2>1, <2>2, Quiet DEF VoteInv
<1>3. ASSUME NEW m \in msgs, DisregardRequestVote(m) PROVE VoteStep
  <2>1. UNCHANGED <<currentTerm, votedFor, votesGranted, elected, disk>>
    BY <1>3 DEF DisregardRequestVote, electionVars
  <2>2. \A x \in msgs' : Granted(x) => x \in msgs
    BY <1>3 DEF DisregardRequestVote, Reply, RequestVoteResponse, Granted
  <2> QED
    BY <2>1, <2>2, Quiet DEF VoteInv
<1>4. ASSUME NEW m \in msgs, BackOff(m) PROVE VoteStep
  <2>1. UNCHANGED <<currentTerm, votedFor, votesGranted, elected, disk>>
    BY <1>4 DEF BackOff, electionVars
  <2>2. \A x \in msgs' : Granted(x) => x \in msgs
    BY <1>4, OthersAreNotVotes DEF BackOff, ReplicateIfBehind, Reply
  <2> QED
    BY <2>1, <2>2, Quiet DEF VoteInv
<1> QED
  BY <1>1, <1>2, <1>3, <1>4

\* An acknowledgement.
LEMMA RecordMatchVotes ==
    ASSUME TypeInv, VoteInv, NEW m \in msgs, NEW i, RecordMatch(m, i)
    PROVE  VoteStep
<1>1. m.to \in Node /\ disk[m.to] \in Durable
  BY MessageFields DEF TypeInv, TypeOK
<1>2. \A x \in msgs' : Granted(x) => x \in msgs
  BY OthersAreNotVotes DEF RecordMatch, ReplicateIfBehind, Reply
<1>3. PICK lg, active, next, match :
        LeaderAdvance(m.to, lg, active, next, match, disk[m.to])
  BY DEF RecordMatch
<1> QED
  BY <1>1, <1>2, <1>3, LeaderAdvanceVotes

\* A leader's entries.
LEMMA OnAppendEntriesVotes ==
    ASSUME TypeInv, VoteInv, NEW m \in msgs, OnAppendEntries(m)
    PROVE  VoteStep
<1> DEFINE n == m.to
<1>1. n \in Node /\ m.term \in Nat
  BY MessageFields DEF TypeInv, TypeOK
<1>2. ObservedDisk(n, m.term) \in Durable
  BY <1>1, ObservedDiskType DEF TypeInv
<1>3. \A x \in msgs' : Granted(x) => x \in msgs
  <2>1. PICK t, s, i : msgs' = (msgs \ {m}) \cup {AppendEntriesResponse(n, m.from, t, s, i)}
    BY DEF OnAppendEntries, RejectAppendEntries, AcceptAppendEntries, Reply
  <2> QED
    BY <2>1, OthersAreNotVotes
<1>4. UNCHANGED elected
  BY DEF OnAppendEntries, RejectAppendEntries, AcceptAppendEntries
<1>5. CASE UNCHANGED <<electionVars, leaderVars, disk>>
  BY <1>3, <1>4, <1>5, Quiet DEF VoteInv, electionVars
<1>6. CASE ~ UNCHANGED <<electionVars, leaderVars, disk>>
  <2>1. ObserveLeader(n, m.term)
    BY <1>6 DEF OnAppendEntries, RejectAppendEntries, AcceptAppendEntries
  <2>2. \/ disk' = [disk EXCEPT ![n] = ObservedDisk(n, m.term)]
        \/ \E from, entries :
             disk' = [disk EXCEPT ![n] = PersistLog(ObservedDisk(n, m.term), from, entries)]
    BY <1>6 DEF OnAppendEntries, RejectAppendEntries, AcceptAppendEntries
  <2>3. /\ disk'[n].term = ObservedDisk(n, m.term).term
        /\ disk'[n].votedFor = ObservedDisk(n, m.term).votedFor
        /\ \A c \in Node \ {n} : disk'[c] = disk[c]
    <3>1. CASE disk' = [disk EXCEPT ![n] = ObservedDisk(n, m.term)]
      BY <1>1, <3>1 DEF TypeInv, TypeOK
    <3>2. ASSUME NEW from, NEW entries,
                 disk' = [disk EXCEPT ![n] =
                            PersistLog(ObservedDisk(n, m.term), from, entries)]
          PROVE  /\ disk'[n].term = ObservedDisk(n, m.term).term
                 /\ disk'[n].votedFor = ObservedDisk(n, m.term).votedFor
                 /\ \A c \in Node \ {n} : disk'[c] = disk[c]
      BY <1>1, <1>2, <3>2, PersistKeepsHardState DEF TypeInv, TypeOK
    <3> QED
      BY <2>2, <3>1, <3>2
  <2> QED
    BY <1>1, <1>3, <1>4, <2>1, <2>3, ObserveLeaderVotes DEF VoteInv
<1> QED
  BY <1>5, <1>6

\* A leader's snapshot.
LEMMA OnInstallSnapshotVotes ==
    ASSUME TypeInv, VoteInv, NEW m \in msgs, OnInstallSnapshot(m)
    PROVE  VoteStep
<1> DEFINE n == m.to
<1>1. n \in Node /\ m.term \in Nat
  BY MessageFields DEF TypeInv, TypeOK
<1>2. ObservedDisk(n, m.term) \in Durable
  BY <1>1, ObservedDiskType DEF TypeInv
<1>3. \A x \in msgs' : Granted(x) => x \in msgs
  BY OthersAreNotVotes DEF OnInstallSnapshot, RefuseSnapshot, AcceptSnapshot, Reply
<1>4. UNCHANGED elected
  BY DEF OnInstallSnapshot, RefuseSnapshot, AcceptSnapshot
<1>5. CASE RefuseSnapshot(m)
  BY <1>3, <1>4, <1>5, Quiet DEF RefuseSnapshot, VoteInv, electionVars
<1>6. CASE AcceptSnapshot(m)
  <2>1. ObserveLeader(n, m.term)
    BY <1>6 DEF AcceptSnapshot
  <2>2. /\ disk'[n].term = ObservedDisk(n, m.term).term
        /\ disk'[n].votedFor = ObservedDisk(n, m.term).votedFor
        /\ \A c \in Node \ {n} : disk'[c] = disk[c]
    <3>1. CASE KeepLog(m)
      BY <1>1, <3>1 DEF KeepLog, TypeInv, TypeOK
    <3>2. CASE ReplaceLog(m)
      <4> DEFINE od == ObservedDisk(n, m.term)
                 d == PersistLog(PersistSnapshot(od, m.snapshot),
                                 m.snapshot.index + 1, <<>>)
      <4>1. disk' = [disk EXCEPT ![n] = d]
        BY <3>2 DEF ReplaceLog
      <4>2. d.term = od.term /\ d.votedFor = od.votedFor
        <5> HIDE DEF od
        <5> QED
          BY <1>2 DEF PersistLog, PersistSnapshot, Durable, od
      <4> HIDE DEF d
      <4> QED
        BY <1>1, <4>1, <4>2 DEF TypeInv, TypeOK
    <3> QED
      BY <1>6, <3>1, <3>2 DEF AcceptSnapshot
  <2> QED
    BY <1>1, <1>3, <1>4, <2>1, <2>2, ObserveLeaderVotes DEF VoteInv
<1> QED
  BY <1>5, <1>6 DEF OnInstallSnapshot

-----------------------------------------------------------------------------
(* The theorems *)

\* Every action is a VoteStep.
LEMMA NextVotes ==
    ASSUME TypeInv, VoteInv, Next
    PROVE  VoteStep
<1>1. ASSUME NEW n \in Node, StartElection(n) PROVE VoteStep
  BY <1>1, StartElectionVotes
<1>2. ASSUME NEW n \in Node, Heartbeat(n) PROVE VoteStep
  BY <1>2, HeartbeatVotes
<1>3. ASSUME NEW n \in Crashable, Restart(n) PROVE VoteStep
  BY <1>3, RestartVotes, InputAssumption
<1>4. ASSUME NEW n \in Node, NEW c \in Command, Propose(n, c) PROVE VoteStep
  BY <1>4, OwnerVotes
<1>5. ASSUME NEW n \in Node, NEW id \in Node, AddLearner(n, id) \/ RemoveLearner(n, id)
      PROVE  VoteStep
  BY <1>5, OwnerVotes
<1>6. ASSUME NEW n \in Node, NEW i \in CompactPoints, NEW d \in SnapshotData,
             Compact(n, i, d)
      PROVE  VoteStep
  BY <1>6, OwnerVotes
<1>7. ASSUME NEW m \in msgs, Lose(m) PROVE VoteStep
  BY <1>7, HeartbeatVotes
<1>8. ASSUME NEW m \in msgs, OnRequestVote(m) PROVE VoteStep
  BY <1>8, HeartbeatVotes, AnswerRequestVoteVotes DEF OnRequestVote
<1>9. ASSUME NEW m \in msgs, OnRequestVoteResponse(m) PROVE VoteStep
  BY <1>9, AdoptTermVotes, CountVoteVotes DEF OnRequestVoteResponse
<1>10. ASSUME NEW m \in msgs, OnAppendEntries(m) PROVE VoteStep
  BY <1>10, OnAppendEntriesVotes
<1>11. ASSUME NEW m \in msgs, OnAppendEntriesResponse(m) PROVE VoteStep
  BY <1>11, AdoptTermVotes, RecordMatchVotes, HeartbeatVotes DEF OnAppendEntriesResponse
<1>12. ASSUME NEW m \in msgs, OnInstallSnapshot(m) PROVE VoteStep
  BY <1>12, OnInstallSnapshotVotes
<1>13. ASSUME NEW m \in msgs, OnInstallSnapshotResponse(m) PROVE VoteStep
  BY <1>13, AdoptTermVotes, RecordMatchVotes DEF OnInstallSnapshotResponse
<1>14. ASSUME NEW n \in Node, NEW S \in VoterSets, ProposeConfigChange(n, S) PROVE VoteStep
  BY <1>14, OwnerVotes
<1> QED
  BY <1>1, <1>2, <1>3, <1>4, <1>5, <1>6, <1>7, <1>8, <1>9, <1>10, <1>11, <1>12,
     <1>13, <1>14 DEF Next, Step

\* A step from a state with one vote per node and term leads to another: an
\* old vote of the voter's current term is the one it remembers, and so is a
\* new one.
LEMMA VoteStepPreserves ==
    ASSUME TypeInv, TypeInv', VoteInv, VoteStep
    PROVE  VoteInv'
<1>1. \A v \in Node : currentTerm[v] \in Nat /\ currentTerm'[v] \in Nat
  BY DEF TypeInv, TypeOK
<1>2. VoteRemembered'
  <2> SUFFICES ASSUME NEW v \in Node, NEW c \in Node, NEW t \in Nat, Voted(v, c, t)'
               PROVE  \/ t < currentTerm'[v]
                      \/ t = currentTerm'[v] /\ votedFor'[v] = c
    BY DEF VoteRemembered
  <2>1. CASE t = currentTerm'[v] /\ votedFor'[v] = c
    BY <2>1
  <2>2. CASE Voted(v, c, t)
    <3>1. \/ t < currentTerm[v]
          \/ t = currentTerm[v] /\ votedFor[v] = c
      BY <2>2 DEF VoteInv, VoteRemembered
    <3>2. \/ currentTerm'[v] > currentTerm[v]
          \/ currentTerm'[v] = currentTerm[v] /\ votedFor[v] \in {Nil, votedFor'[v]}
      BY DEF VoteStep, HardStateStep
    <3> QED
      BY <1>1, <3>1, <3>2, NodeAssumption
  <2> QED
    BY <2>1, <2>2 DEF VoteStep, VotesAreOld
<1>3. VotesAgree'
  <2> SUFFICES ASSUME NEW v \in Node, NEW c \in Node, NEW d \in Node, NEW t \in Nat,
                      Voted(v, c, t)', Voted(v, d, t)'
               PROVE  c = d
    BY DEF VotesAgree
  <2>1. CASE t = currentTerm'[v]
    BY <1>1, <1>2, <2>1 DEF VoteRemembered
  <2>2. CASE t # currentTerm'[v]
    <3>1. Voted(v, c, t) /\ Voted(v, d, t)
      BY <2>2 DEF VoteStep, VotesAreOld
    <3> QED
      BY <3>1 DEF VoteInv, VotesAgree
  <2> QED
    BY <2>1, <2>2
<1> QED
  BY <1>2, <1>3 DEF VoteInv, VoteStep

\* The two invariants together are inductive.
LEMMA VoteInductive ==
    TypeInv /\ VoteInv /\ [Next]_vars => VoteInv' /\ [HardStateStep]_vars
<1> SUFFICES ASSUME TypeInv, VoteInv, [Next]_vars
             PROVE  VoteInv' /\ [HardStateStep]_vars
  OBVIOUS
<1>1. CASE Next
  <2>1. TypeInv'
    BY <1>1, NextType
  <2>2. VoteStep
    BY <1>1, NextVotes
  <2> QED
    BY <2>1, <2>2, VoteStepPreserves DEF VoteStep
<1>2. CASE UNCHANGED vars
  <2>1. UNCHANGED <<currentTerm, votedFor, votesGranted, elected, disk, msgs>>
    BY <1>2 DEF vars, electionVars
  <2>2. \A v, c, t : Voted(v, c, t)' <=> Voted(v, c, t)
    BY <2>1 DEF Voted
  <2>3. VoteInv'
    BY <2>1, <2>2 DEF VoteInv, HardStateDurable, VoteRemembered, VotesAgree
  <2> QED
    BY <1>2, <2>3
<1> QED
  BY <1>1, <1>2

\* No node votes for two candidates in one term, whatever is lost, delayed or
\* repeated and however often it crashes.
THEOREM OneVotePerTerm == Spec => []VoteOnce
<1>1. VoteInv => VoteOnce
  <2>1. 1 .. MaxTerm \subseteq Nat
    BY BoundAssumption
  <2> QED
    BY <2>1 DEF VoteInv, VotesAgree, VoteOnce
<1> QED
  BY <1>1, InitType, NextType, InitVotes, VoteInductive, PTL DEF Spec

\* Terms never go back, and a vote is never changed or forgotten within one.
THEOREM VotesAreFinal == Spec => VoteIsFinal
  BY InitType, NextType, InitVotes, VoteInductive, PTL DEF Spec, VoteIsFinal

-----------------------------------------------------------------------------
(* The log, the snapshot and the configuration *)

\* The part of DurableMatchesMemory that is not the hard state.
Mirrored(n) ==
    /\ disk[n].log = log[n]
    /\ disk[n].learners = learners[n]
    /\ disk[n].snapshot.index = snapshot[n].index
    /\ disk[n].snapshot.term = snapshot[n].term
    /\ disk[n].snapshot.data = snapshot[n].data
    /\ snapshot[n].index > 0 => disk[n].snapshot.config = snapshot[n].config

\* ConfigLockstep, for one node.
Cached(n) ==
    [config |-> currentConfig[n], index |-> currentConfigIndex[n]]
        = LatestConfiguration(log[n], snapshot[n])

LockInv == \A n \in Node : Mirrored(n) /\ Cached(n)

\* The step changes neither what node n logs nor what it derives from it.
Untouched(n) ==
    /\ log'[n] = log[n] /\ snapshot'[n] = snapshot[n] /\ learners'[n] = learners[n]
    /\ currentConfig'[n] = currentConfig[n]
    /\ currentConfigIndex'[n] = currentConfigIndex[n]
    /\ disk'[n].log = disk[n].log /\ disk'[n].snapshot = disk[n].snapshot
    /\ disk'[n].learners = disk[n].learners

\* What a single action has to show.
LockStep == \A n \in Node : Untouched(n) \/ (Mirrored(n)' /\ Cached(n)')

-----------------------------------------------------------------------------
(* What the actions are built from *)

\* Persisting one part of the state leaves the others alone.
LEMMA PersistKeepsRest ==
    ASSUME NEW d \in Durable
    PROVE  /\ \A t, v : /\ PersistHardState(d, t, v).log = d.log
                        /\ PersistHardState(d, t, v).snapshot = d.snapshot
                        /\ PersistHardState(d, t, v).learners = d.learners
           /\ \A snap : /\ PersistSnapshot(d, snap).log = d.log
                        /\ PersistSnapshot(d, snap).snapshot = snap
                        /\ PersistSnapshot(d, snap).learners = d.learners
           /\ \A S : /\ PersistLearners(d, S).log = d.log
                     /\ PersistLearners(d, S).snapshot = d.snapshot
                     /\ PersistLearners(d, S).learners = S
           /\ \A from, entries : /\ PersistLog(d, from, entries).snapshot = d.snapshot
                                 /\ PersistLog(d, from, entries).learners = d.learners
  BY DEF PersistSnapshot, PersistLearners, PersistLog, PersistHardState, Durable

\* A log is what it shares with another one up to a cut, and the rest.
LEMMA CutAndRest ==
    ASSUME NEW S, NEW old \in Seq(S), NEW new \in Seq(S), NEW cut \in Nat,
           cut <= Len(old), cut <= Len(new), \A i \in 1 .. cut : new[i] = old[i]
    PROVE  SubSeq(old, 1, cut) \o SubSeq(new, cut + 1, Len(new)) = new
<1> DEFINE a == SubSeq(old, 1, cut)
           b == SubSeq(new, cut + 1, Len(new))
<1>1. /\ a \in Seq(S) /\ Len(a) = cut /\ \A i \in 1 .. cut : a[i] = old[i]
  <2>1. \A i \in 1 .. cut : old[i] \in S
    OBVIOUS
  <2>2. /\ SubSeq(old, 1, cut) \in Seq(S)
        /\ Len(SubSeq(old, 1, cut)) = IF 1 <= cut THEN cut - 1 + 1 ELSE 0
        /\ \A i \in 1 .. cut - 1 + 1 : SubSeq(old, 1, cut)[i] = old[1 + i - 1]
    BY <2>1, SubSeqProperties
  <2>3. \A i \in 1 .. cut : 1 + i - 1 = i /\ i \in 1 .. cut - 1 + 1
    OBVIOUS
  <2>4. \A i \in 1 .. cut : SubSeq(old, 1, cut)[i] = old[i]
    BY <2>2, <2>3
  <2> QED
    BY <2>2, <2>4
<1>2. /\ b \in Seq(S) /\ Len(b) = Len(new) - cut
      /\ \A i \in 1 .. Len(new) - cut : b[i] = new[cut + i]
  <2>1. \A i \in cut + 1 .. Len(new) : new[i] \in S
    OBVIOUS
  <2>2. /\ SubSeq(new, cut + 1, Len(new)) \in Seq(S)
        /\ Len(SubSeq(new, cut + 1, Len(new)))
             = IF cut + 1 <= Len(new) THEN Len(new) - (cut + 1) + 1 ELSE 0
        /\ \A i \in 1 .. Len(new) - (cut + 1) + 1 :
              SubSeq(new, cut + 1, Len(new))[i] = new[cut + 1 + i - 1]
    BY <2>1, SubSeqProperties
  <2>3. \A i \in 1 .. Len(new) - cut :
            cut + 1 + i - 1 = cut + i /\ i \in 1 .. Len(new) - (cut + 1) + 1
    OBVIOUS
  <2>4. \A i \in 1 .. Len(new) - cut : SubSeq(new, cut + 1, Len(new))[i] = new[cut + i]
    BY <2>2, <2>3
  <2> QED
    BY <2>2, <2>4
<1> HIDE DEF a, b
<1>3. /\ a \o b \in Seq(S) /\ Len(a \o b) = Len(new)
      /\ \A i \in 1 .. Len(new) : (a \o b)[i] = IF i <= cut THEN a[i] ELSE b[i - cut]
  BY <1>1, <1>2, ConcatProperties
<1>4. \A i \in 1 .. Len(new) : (a \o b)[i] = new[i]
  <2> SUFFICES ASSUME NEW i \in 1 .. Len(new) PROVE (a \o b)[i] = new[i]
    OBVIOUS
  <2>1. CASE i <= cut
    BY <1>1, <1>3, <2>1
  <2>2. CASE ~ (i <= cut)
    <3>1. i - cut \in 1 .. Len(new) - cut /\ cut + (i - cut) = i
      BY <2>2
    <3>2. (a \o b)[i] = b[i - cut]
      BY <1>3, <2>2
    <3>3. b[i - cut] = new[cut + (i - cut)]
      BY <1>2, <3>1
    <3> QED
      BY <3>1, <3>2, <3>3
  <2> QED
    BY <2>1, <2>2
<1> QED
  BY <1>3, <1>4, SeqEqual DEF a, b

\* A PersistLog effect whose splice point is one past a cut that both the log
\* on disk and the new log contain leaves the new log on disk.
LEMMA SplicedLog ==
    ASSUME NEW d \in Durable, NEW lg \in Seq(Entry), NEW cut \in Nat,
           cut <= Len(d.log), cut <= Len(lg), \A i \in 1 .. cut : lg[i] = d.log[i]
    PROVE  PersistLog(d, d.snapshot.index + cut + 1, SubSeq(lg, cut + 1, Len(lg))).log = lg
<1> DEFINE from == d.snapshot.index + cut + 1
           entries == SubSeq(lg, cut + 1, Len(lg))
           keep == from - d.snapshot.index - 1
           kept == IF keep < Len(d.log) THEN SubSeq(d.log, 1, keep) ELSE d.log
<1>1. d.log \in Seq(Entry) /\ d.snapshot.index \in Nat
  BY DEF Durable, Snapshot
<1>2. keep = cut
  BY <1>1
<1>3. kept = SubSeq(d.log, 1, cut)
  <2>1. CASE cut < Len(d.log)
    BY <1>2, <2>1
  <2>2. CASE cut = Len(d.log)
    BY <1>1, <1>2, <2>2, SubSeqFull
  <2> QED
    BY <1>1, <2>1, <2>2
<1>4. kept \o entries = lg
  <2>1. PICK old \in Seq(Entry) : old = d.log
    BY <1>1
  <2>2. cut <= Len(old) /\ \A i \in 1 .. cut : lg[i] = old[i]
    BY <2>1
  <2> HIDE DEF kept
  <2>3. SubSeq(old, 1, cut) \o SubSeq(lg, cut + 1, Len(lg)) = lg
    BY <2>2, CutAndRest
  <2> QED
    BY <1>3, <2>1, <2>3
<1>5. PersistLog(d, from, entries).log = kept \o entries
  <2>1. PersistLog(d, from, entries) = [d EXCEPT !.log = kept \o entries]
    BY DEF PersistLog
  <2> HIDE DEF kept, entries
  <2> QED
    BY <2>1 DEF Durable
<1> QED
  BY <1>4, <1>5

\* With nothing kept, a PersistLog effect just above the boundary on disk
\* leaves exactly its entries.
LEMMA ReplacedLog ==
    ASSUME NEW d \in Durable, NEW lg \in Seq(Entry)
    PROVE  PersistLog(d, d.snapshot.index + 1, lg).log = lg
<1>1. Len(lg) \in Nat /\ SubSeq(lg, 0 + 1, Len(lg)) = lg
  BY SubSeqFull
<1>2. d.log \in Seq(Entry) /\ d.snapshot.index \in Nat
  BY DEF Durable, Snapshot
<1>3. d.snapshot.index + 1 = d.snapshot.index + 0 + 1
  BY <1>2
<1>4. PersistLog(d, d.snapshot.index + 0 + 1, SubSeq(lg, 0 + 1, Len(lg))).log = lg
  BY <1>1, <1>2, SplicedLog
<1> QED
  BY <1>1, <1>3, <1>4

\* A step that keeps every log, configuration and learner, and of the disks
\* changes at most the hard states.
LEMMA NothingTouched ==
    ASSUME UNCHANGED <<log, snapshot, learners, currentConfig, currentConfigIndex>>,
           \A n \in Node : /\ disk'[n].log = disk[n].log
                           /\ disk'[n].snapshot = disk[n].snapshot
                           /\ disk'[n].learners = disk[n].learners
    PROVE  LockStep
  BY DEF LockStep, Untouched

\* A configuration that is the latest of node n's log, were that lg.
IsLatest(n, lg, active) == active = LatestConfiguration(lg, snapshot[n])

\* The scan of a log yields a configuration and an index, and nothing else.
LEMMA LatestIsPair ==
    ASSUME NEW lg, NEW snap
    PROVE  LatestConfiguration(lg, snap)
             = [config |-> LatestConfiguration(lg, snap).config,
                index |-> LatestConfiguration(lg, snap).index]
  BY DEF LatestConfiguration

\* recompute_config is the scan.
LEMMA RecomputeCaches ==
    ASSUME TypeInv, NEW n \in Node, RecomputeConfig(n, log'[n], snapshot'[n])
    PROVE  Cached(n)'
<1> DEFINE latest == LatestConfiguration(log'[n], snapshot'[n])
<1>1. latest = [config |-> latest.config, index |-> latest.index]
  BY LatestIsPair
<1>2. currentConfig'[n] = latest.config /\ currentConfigIndex'[n] = latest.index
  BY DEF RecomputeConfig, TypeInv, TypeOK
<1> HIDE DEF latest
<1> QED
  BY <1>1, <1>2 DEF Cached, latest

\* Observing a leader changes at most the hard state on disk.
LEMMA ObservedKeepsRest ==
    ASSUME TypeInv, NEW n \in Node, NEW t
    PROVE  /\ ObservedDisk(n, t).log = disk[n].log
           /\ ObservedDisk(n, t).snapshot = disk[n].snapshot
           /\ ObservedDisk(n, t).learners = disk[n].learners
<1>1. disk[n] \in Durable
  BY DEF TypeInv, TypeOK
<1> QED
  BY <1>1, PersistKeepsRest DEF ObservedDisk

\* advance_commit_index keeps the log or appends one entry, and hands on a
\* configuration that is still the latest.
LEMMA AdvanceLog ==
    ASSUME NEW n \in Node, NEW lg \in Seq(Entry), NEW active, NEW match,
           currentTerm[n] \in Nat, active.config \in Config, IsLatest(n, lg, active)
    PROVE  /\ IsLatest(n, AdvanceCommitIndex(n, lg, active, match).log,
                       AdvanceCommitIndex(n, lg, active, match).active)
           /\ \/ AdvanceCommitIndex(n, lg, active, match).log = lg
              \/ \E e \in Entry :
                    AdvanceCommitIndex(n, lg, active, match).log = Append(lg, e)
<1> DEFINE commit1 == CommitPass(n, lg, active.config, match, commitIndex[n])
           finish == IsJoint(active.config) /\ commit1 >= active.index
           next == [term |-> currentTerm[n],
                    payload |-> ConfigurationPayload(Stable(active.config.voters))]
           lg2 == IF finish THEN Append(lg, next) ELSE lg
           active2 == IF finish THEN LatestConfiguration(lg2, snapshot[n]) ELSE active
           adv == AdvanceCommitIndex(n, lg, active, match)
<1>1. next \in Entry
  BY DEF Entry, Payload, ConfigurationPayload, Stable, Config
<1>2. adv.log = lg2 /\ adv.active = active2
  BY DEF AdvanceCommitIndex
<1> HIDE DEF next, finish, adv
<1>3. CASE finish
  BY <1>1, <1>2, <1>3 DEF adv, IsLatest
<1>4. CASE ~ finish
  BY <1>2, <1>4 DEF adv, IsLatest
<1> QED
  BY <1>3, <1>4

\* A leader that continues with its own log, or that log and one more entry,
\* and with the latest configuration of it.
LEMMA LeaderAdvanceLocked ==
    ASSUME TypeInv, LockInv, NEW n \in Node, NEW lg \in Seq(Entry),
           lg = log[n] \/ \E e \in Entry : lg = Append(log[n], e),
           NEW active, active.config \in Config,
           IsLatest(n, lg, active), NEW next, NEW match, NEW d \in Durable,
           d.log = disk[n].log, d.snapshot = disk[n].snapshot,
           LeaderAdvance(n, lg, active, next, match, d),
           learners'[n] = d.learners,
           \A c \in Node \ {n} : learners'[c] = learners[c]
    PROVE  LockStep
<1> DEFINE adv == AdvanceCommitIndex(n, lg, active, match)
           fresh == SubSeq(adv.log, Len(log[n]) + 1, Len(adv.log))
           d2 == IF fresh = <<>> THEN d ELSE PersistLog(d, LastLogIndex(n) + 1, fresh)
<1>1. /\ log[n] \in Seq(Entry) /\ Len(log[n]) \in Nat /\ currentTerm[n] \in Nat
      /\ snapshot[n] \in Snapshot /\ snapshot[n].index \in Nat
  BY DEF TypeInv, TypeOK, Snapshot
<1>2. /\ IsLatest(n, adv.log, adv.active)
      /\ adv.log = lg \/ \E e \in Entry : adv.log = Append(lg, e)
  BY <1>1, AdvanceLog
<1>3. /\ log' = [log EXCEPT ![n] = adv.log]
      /\ currentConfig' = [currentConfig EXCEPT ![n] = adv.active.config]
      /\ currentConfigIndex' = [currentConfigIndex EXCEPT ![n] = adv.active.index]
      /\ disk' = [disk EXCEPT ![n] = d2]
      /\ snapshot' = snapshot
  BY DEF LeaderAdvance
<1> HIDE DEF adv
<1>4. /\ adv.log \in Seq(Entry) /\ Len(adv.log) >= Len(log[n])
      /\ \A i \in 1 .. Len(log[n]) : adv.log[i] = log[n][i]
  <2>1. /\ Len(lg) \in Nat /\ Len(lg) >= Len(log[n])
        /\ \A i \in 1 .. Len(log[n]) : lg[i] = log[n][i]
    <3>1. CASE lg = log[n]
      BY <1>1, <3>1
    <3>2. ASSUME NEW e \in Entry, lg = Append(log[n], e)
          PROVE  /\ Len(lg) \in Nat /\ Len(lg) >= Len(log[n])
                 /\ \A i \in 1 .. Len(log[n]) : lg[i] = log[n][i]
      BY <1>1, <3>2, AppendProperties
    <3> QED
      BY <3>1, <3>2
  <2>2. CASE adv.log = lg
    BY <2>1, <2>2
  <2>3. ASSUME NEW e \in Entry, adv.log = Append(lg, e)
        PROVE  /\ adv.log \in Seq(Entry) /\ Len(adv.log) >= Len(log[n])
               /\ \A i \in 1 .. Len(log[n]) : adv.log[i] = log[n][i]
    <3>1. /\ adv.log \in Seq(Entry) /\ Len(adv.log) = Len(lg) + 1
          /\ \A i \in 1 .. Len(lg) : adv.log[i] = lg[i]
      BY <2>3, AppendProperties
    <3>2. \A i \in 1 .. Len(log[n]) : i \in 1 .. Len(lg)
      BY <1>1, <2>1
    <3> QED
      BY <1>1, <2>1, <3>1, <3>2
  <2> QED
    BY <1>2, <2>2, <2>3
<1>5. Mirrored(n)
  BY DEF LockInv
<1>6. /\ d2.log = adv.log /\ d2.snapshot = disk[n].snapshot
      /\ d2.learners = d.learners
  <2>1. CASE fresh = <<>>
    <3>1. Len(adv.log) = Len(log[n])
      <4>1. Len(fresh) = 0
        BY <2>1, EmptySeq
      <4>2. Len(fresh) = IF Len(log[n]) + 1 <= Len(adv.log)
                         THEN Len(adv.log) - (Len(log[n]) + 1) + 1 ELSE 0
        <5> DEFINE k == Len(log[n]) + 1
        <5>1. k \in Int /\ k >= 1
          BY <1>1
        <5> HIDE DEF k
        <5>2. Len(SubSeq(adv.log, k, Len(adv.log)))
                = IF k <= Len(adv.log) THEN Len(adv.log) - k + 1 ELSE 0
          BY <1>4, <5>1, SuffixType
        <5> QED
          BY <5>2 DEF k
      <4> HIDE DEF fresh
      <4> QED
        BY <1>1, <1>4, <4>1, <4>2
    <3>2. adv.log = log[n]
      BY <1>1, <1>4, <3>1, SeqEqual
    <3> QED
      BY <1>5, <2>1, <3>2 DEF Mirrored
  <2>2. CASE fresh # <<>>
    <3>1. d2 = PersistLog(d, LastLogIndex(n) + 1, fresh)
      BY <2>2
    <3>2. d.log = log[n] /\ LastLogIndex(n) + 1 = d.snapshot.index + Len(log[n]) + 1
      BY <1>1, <1>5 DEF Mirrored, LastLogIndex
    <3>3. PersistLog(d, LastLogIndex(n) + 1, fresh).log = adv.log
      <4> DEFINE cut == Len(log[n])
                 from == LastLogIndex(n) + 1
      <4>1. /\ cut \in Nat /\ cut <= Len(d.log) /\ cut <= Len(adv.log)
            /\ \A i \in 1 .. cut : adv.log[i] = d.log[i]
            /\ from = d.snapshot.index + cut + 1
        BY <1>1, <1>4, <3>2
      <4> HIDE DEF cut, from
      <4>2. PersistLog(d, d.snapshot.index + cut + 1,
                       SubSeq(adv.log, cut + 1, Len(adv.log))).log = adv.log
        BY <1>4, <4>1, SplicedLog
      <4> QED
        BY <4>1, <4>2 DEF cut, from
    <3> HIDE DEF fresh, d2
    <3> QED
      BY <3>1, <3>3, PersistKeepsRest
  <2> QED
    BY <2>1, <2>2
<1> HIDE DEF d2
<1>7. Mirrored(n)'
  BY <1>3, <1>5, <1>6 DEF Mirrored, TypeInv, TypeOK
<1>8. Cached(n)'
  <2>1. adv.active = [config |-> adv.active.config, index |-> adv.active.index]
    BY <1>2, LatestIsPair DEF IsLatest
  <2>2. /\ log'[n] = adv.log /\ currentConfig'[n] = adv.active.config
        /\ currentConfigIndex'[n] = adv.active.index /\ snapshot'[n] = snapshot[n]
    BY <1>3 DEF TypeInv, TypeOK
  <2> QED
    BY <1>2, <2>1, <2>2 DEF Cached, IsLatest
<1>9. \A c \in Node \ {n} : Untouched(c)
  BY <1>3 DEF Untouched, TypeInv, TypeOK
<1> QED
  BY <1>7, <1>8, <1>9 DEF LockStep

-----------------------------------------------------------------------------
(* The actions *)

\* Nodes start with nothing on disk and their genesis configuration cached.
LEMMA InitLocked == Init => LockInv
<1> SUFFICES ASSUME Init, NEW n \in Node PROVE Mirrored(n) /\ Cached(n)
  BY DEF LockInv
<1> DEFINE c == IF n \in Bootstrap THEN Stable(Bootstrap) ELSE EmptyConfig
<1>1. /\ log[n] = <<>> /\ learners[n] = {} /\ disk[n] = FreshDisk
      /\ snapshot[n] = NoSnapshot(c)
      /\ currentConfig[n] = c /\ currentConfigIndex[n] = 0
  BY DEF Init
<1>2. Mirrored(n)
  BY <1>1 DEF Mirrored, FreshDisk, NoSnapshot
<1>3. {i \in DOMAIN log[n] : log[n][i].payload.type = "Configuration"} = {}
  BY <1>1
<1>4. LatestConfiguration(log[n], snapshot[n])
        = [config |-> snapshot[n].config, index |-> snapshot[n].index]
  BY <1>3 DEF LatestConfiguration
<1> HIDE DEF c
<1> QED
  BY <1>1, <1>2, <1>4 DEF Cached, NoSnapshot

\* The steps that leave every log alone.
LEMMA QuietLocked ==
    ASSUME TypeInv, LockInv
    PROVE  /\ \A n \in Node : StartElection(n) => LockStep
           /\ \A n \in Node : Heartbeat(n) => LockStep
           /\ \A m \in msgs : Lose(m) => LockStep
           /\ \A m \in msgs : AdoptTerm(m) => LockStep
           /\ \A m \in msgs : OnRequestVote(m) => LockStep
           /\ \A m \in msgs : CountVote(m) => LockStep
           /\ \A m \in msgs : RejectAppendEntries(m) => LockStep
           /\ \A m \in msgs : BackOff(m) => LockStep
           /\ \A m \in msgs : RefuseSnapshot(m) => LockStep
<1>0. disk \in [Node -> Durable] /\ \A m \in msgs : m.to \in Node
  BY MessageFields DEF TypeInv, TypeOK
<1>h. \A n \in Node : \A t, v :
         /\ PersistHardState(disk[n], t, v).log = disk[n].log
         /\ PersistHardState(disk[n], t, v).snapshot = disk[n].snapshot
         /\ PersistHardState(disk[n], t, v).learners = disk[n].learners
  BY <1>0, PersistKeepsRest
<1>1. ASSUME NEW n \in Node, StartElection(n) PROVE LockStep
  <2>1. /\ disk' = [disk EXCEPT ![n] = PersistHardState(@, currentTerm[n] + 1, n)]
        /\ UNCHANGED <<log, snapshot, learners, currentConfig, currentConfigIndex>>
    BY <1>1 DEF StartElection, configVars
  <2> QED
    BY <1>0, <1>h, <2>1, NothingTouched
<1>2. ASSUME NEW n \in Node, Heartbeat(n) PROVE LockStep
  BY <1>2, NothingTouched DEF Heartbeat, configVars
<1>3. ASSUME NEW m \in msgs, Lose(m) PROVE LockStep
  BY <1>3, NothingTouched DEF Lose, configVars
<1>4. ASSUME NEW m \in msgs, AdoptTerm(m) PROVE LockStep
  <2>1. /\ disk' = [disk EXCEPT ![m.to] = PersistHardState(@, m.term, Nil)]
        /\ UNCHANGED <<log, snapshot, learners, currentConfig, currentConfigIndex>>
    BY <1>4 DEF AdoptTerm, configVars
  <2> QED
    BY <1>0, <1>h, <2>1, NothingTouched
<1>5. ASSUME NEW m \in msgs, OnRequestVote(m) PROVE LockStep
  <2>1. CASE DisregardRequestVote(m)
    BY <2>1, NothingTouched DEF DisregardRequestVote, configVars
  <2>2. CASE AnswerRequestVote(m)
    <3>1. PICK save, vote :
             disk' = [disk EXCEPT ![m.to] = IF save THEN PersistHardState(@, m.term, vote)
                                                    ELSE @]
      BY <2>2 DEF AnswerRequestVote
    <3>2. UNCHANGED <<log, snapshot, learners, currentConfig, currentConfigIndex>>
      BY <2>2 DEF AnswerRequestVote, configVars
    <3> QED
      BY <1>0, <1>h, <3>1, <3>2, NothingTouched
  <2> QED
    BY <1>5, <2>1, <2>2 DEF OnRequestVote
<1>6. ASSUME NEW m \in msgs, CountVote(m) PROVE LockStep
  BY <1>6, NothingTouched DEF CountVote, configVars
<1>7. ASSUME NEW m \in msgs, RejectAppendEntries(m) PROVE LockStep
  <2>1. UNCHANGED <<log, snapshot, learners, currentConfig, currentConfigIndex>>
    BY <1>7 DEF RejectAppendEntries, configVars
  <2>2. \/ disk' = disk
        \/ disk' = [disk EXCEPT ![m.to] = ObservedDisk(m.to, m.term)]
    BY <1>7 DEF RejectAppendEntries
  <2> QED
    BY <1>0, <2>1, <2>2, ObservedKeepsRest, NothingTouched
<1>8. ASSUME NEW m \in msgs, BackOff(m) PROVE LockStep
  BY <1>8, NothingTouched DEF BackOff, configVars
<1>9. ASSUME NEW m \in msgs, RefuseSnapshot(m) PROVE LockStep
  BY <1>9, NothingTouched DEF RefuseSnapshot, configVars
<1> QED
  BY <1>1, <1>2, <1>3, <1>4, <1>5, <1>6, <1>7, <1>8, <1>9

\* recover starts from the disk.  A snapshot on disk brings its configuration;
\* only without one is the configuration taken from elsewhere.
LEMMA RestartLocked ==
    ASSUME TypeInv, LockInv, NEW n \in Node, Restart(n)
    PROVE  LockStep
<1> DEFINE snap == [disk[n].snapshot EXCEPT !.config = RecoveredConfig(n)]
<1>1. /\ log' = [log EXCEPT ![n] = disk[n].log]
      /\ snapshot' = [snapshot EXCEPT ![n] = snap]
      /\ RecomputeConfig(n, disk[n].log, snap)
      /\ learners' = [learners EXCEPT ![n] = disk[n].learners]
      /\ disk' = disk
  BY DEF Restart
<1>2. /\ snap.index = disk[n].snapshot.index /\ snap.term = disk[n].snapshot.term
      /\ snap.data = disk[n].snapshot.data
      /\ snap.index > 0 => snap.config = disk[n].snapshot.config
  <2>1. disk[n].snapshot \in Snapshot
    BY DEF TypeInv, TypeOK, Durable
  <2>2. disk[n].snapshot.index > 0 => RecoveredConfig(n) = disk[n].snapshot.config
    BY DEF RecoveredConfig
  <2> QED
    BY <2>1, <2>2 DEF Snapshot
<1> HIDE DEF snap
<1>3. log'[n] = disk[n].log /\ snapshot'[n] = snap /\ learners'[n] = disk[n].learners
  BY <1>1 DEF TypeInv, TypeOK
<1>4. Mirrored(n)'
  BY <1>1, <1>2, <1>3 DEF Mirrored
<1>5. Cached(n)'
  BY <1>1, <1>3, RecomputeCaches
<1>6. \A c \in Node \ {n} : Untouched(c)
  BY <1>1 DEF Untouched, RecomputeConfig, TypeInv, TypeOK
<1> QED
  BY <1>4, <1>5, <1>6 DEF LockStep

\* A learner is recorded in memory and on disk alike.
LEMMA LearnerLocked ==
    ASSUME TypeInv, LockInv, NEW n \in Node, NEW S, SetLearners(n, S)
    PROVE  LockStep
<1>1. /\ learners' = [learners EXCEPT ![n] = S]
      /\ disk' = [disk EXCEPT ![n] = PersistLearners(@, S)]
      /\ UNCHANGED <<log, snapshot, currentConfig, currentConfigIndex>>
  BY DEF SetLearners, configVars
<1>2. /\ disk[n] \in Durable /\ learners'[n] = S
      /\ disk'[n] = PersistLearners(disk[n], S)
  BY <1>1 DEF TypeInv, TypeOK
<1>3. /\ disk'[n].log = disk[n].log /\ disk'[n].snapshot = disk[n].snapshot
      /\ disk'[n].learners = S
  BY <1>2, PersistKeepsRest
<1>4. Mirrored(n)'
  BY <1>1, <1>2, <1>3 DEF LockInv, Mirrored
<1>5. Cached(n)'
  BY <1>1 DEF LockInv, Cached
<1>6. \A c \in Node \ {n} : Untouched(c)
  BY <1>1 DEF Untouched, TypeInv, TypeOK
<1> QED
  BY <1>4, <1>5, <1>6 DEF LockStep

\* propose's and propose_config_change's own append.
LEMMA AppendLocked ==
    ASSUME TypeInv, LockInv, NEW n \in Node, NEW payload \in Payload, NEW d \in Durable,
           d.log = disk[n].log, d.snapshot = disk[n].snapshot,
           AppendAndAdvance(n, payload, d), learners'[n] = d.learners,
           \A c \in Node \ {n} : learners'[c] = learners[c]
    PROVE  LockStep
<1> DEFINE e == [term |-> currentTerm[n], payload |-> payload]
           lg == Append(log[n], e)
           active == LatestConfiguration(lg, snapshot[n])
<1>1. log[n] \in Seq(Entry) /\ snapshot[n] \in Snapshot /\ e \in Entry
  BY DEF TypeInv, TypeOK, Entry
<1>2. LeaderAdvance(n, lg, active, nextIndex[n], matchIndex[n], d)
  BY DEF AppendAndAdvance
<1> HIDE DEF e
<1>3. lg \in Seq(Entry)
  BY <1>1, AppendProperties
<1>4. active.config \in Config /\ IsLatest(n, lg, active)
  BY <1>1, <1>3, LatestConfigurationType DEF IsLatest
<1>5. \E x \in Entry : lg = Append(log[n], x)
  BY <1>1
<1> HIDE DEF lg, active
<1> QED
  BY <1>2, <1>3, <1>4, <1>5, LeaderAdvanceLocked

\* The calls of a leader's owner that append.
LEMMA ProposeLocked ==
    ASSUME TypeInv, LockInv, NEW n \in Node
    PROVE  /\ \A c \in Command : Propose(n, c) => LockStep
           /\ \A S \in VoterSets : ProposeConfigChange(n, S) => LockStep
<1>0. disk[n] \in Durable /\ disk[n].learners = learners[n] /\ learners[n] \in SUBSET Node
  BY DEF TypeInv, TypeOK, LockInv, Mirrored
<1>1. ASSUME NEW c \in Command, Propose(n, c) PROVE LockStep
  <2>1. CommandPayload(c) \in Payload
    BY DEF CommandPayload, Payload
  <2>2. AppendAndAdvance(n, CommandPayload(c), disk[n]) /\ learners' = learners
    BY <1>1 DEF Propose
  <2> QED
    BY <1>0, <2>1, <2>2, AppendLocked
<1>2. ASSUME NEW S \in VoterSets, ProposeConfigChange(n, S) PROVE LockStep
  <2> DEFINE remaining == learners[n] \ S
             joint == [voters |-> S, oldVoters |-> currentConfig[n].voters]
             d == IF remaining # learners[n] THEN PersistLearners(disk[n], remaining)
                                             ELSE disk[n]
  <2>1. ConfigurationPayload(joint) \in Payload
    <3>1. S \in SUBSET Node /\ currentConfig[n].voters \in SUBSET Node
      BY InputAssumption DEF TypeInv, TypeOK, Config
    <3> QED
      BY <3>1 DEF ConfigurationPayload, Payload, Config
  <2>2. /\ d \in Durable /\ d.log = disk[n].log /\ d.snapshot = disk[n].snapshot
        /\ d.learners = remaining
    BY <1>0, PersistTypes, PersistKeepsRest
  <2>3. /\ AppendAndAdvance(n, ConfigurationPayload(joint), d)
        /\ learners' = [learners EXCEPT ![n] = remaining]
    BY <1>2 DEF ProposeConfigChange
  <2> HIDE DEF remaining, joint, d
  <2>4. learners'[n] = d.learners /\ \A c \in Node \ {n} : learners'[c] = learners[c]
    BY <2>2, <2>3 DEF TypeInv, TypeOK
  <2> QED
    BY <2>1, <2>2, <2>3, <2>4, AppendLocked
<1> QED
  BY <1>1, <1>2

\* compact keeps the tail of the log, in memory and on disk.
LEMMA CompactLocked ==
    ASSUME TypeInv, TypeInv', LockInv, NEW n \in Node, NEW i \in Nat, NEW data,
           Compact(n, i, data)
    PROVE  LockStep
<1> DEFINE rest == SubSeq(log[n], i - snapshot[n].index + 1, Len(log[n]))
           snap == [index |-> i, term |-> TermAt(n, i), data |-> data,
                    config |-> ConfigAtBoundary(n, i)]
           d == PersistSnapshot(disk[n], snap)
<1>1. /\ log' = [log EXCEPT ![n] = rest]
      /\ snapshot' = [snapshot EXCEPT ![n] = snap]
      /\ RecomputeConfig(n, rest, snap)
      /\ disk' = [disk EXCEPT ![n] = PersistLog(PersistSnapshot(@, snap), i + 1, rest)]
      /\ learners' = learners
  BY DEF Compact
<1>2. snap.index = i
  OBVIOUS
<1> HIDE DEF rest, snap
<1>3. /\ log'[n] = rest /\ snapshot'[n] = snap
      /\ disk'[n] = PersistLog(d, i + 1, rest) /\ disk[n] \in Durable
  BY <1>1 DEF TypeInv, TypeOK
<1>4. rest \in Seq(Entry) /\ snap \in Snapshot
  BY <1>3 DEF TypeInv, TypeOK
<1>5. /\ d \in Durable /\ d.snapshot = snap /\ d.learners = disk[n].learners
  BY <1>3, <1>4, PersistTypes, PersistKeepsRest
<1> HIDE DEF d
<1>6. /\ disk'[n].log = rest /\ disk'[n].snapshot = snap
      /\ disk'[n].learners = disk[n].learners
  <2>1. PersistLog(d, d.snapshot.index + 1, rest).log = rest
    BY <1>4, <1>5, ReplacedLog
  <2> QED
    BY <1>2, <1>3, <1>5, <2>1, PersistKeepsRest
<1>7. Mirrored(n)'
  BY <1>1, <1>3, <1>6 DEF LockInv, Mirrored
<1>8. Cached(n)'
  BY <1>1, <1>3, RecomputeCaches
<1>9. \A c \in Node \ {n} : Untouched(c)
  BY <1>1 DEF Untouched, RecomputeConfig, TypeInv, TypeOK
<1> QED
  BY <1>7, <1>8, <1>9 DEF LockStep

\* An acknowledgement changes the log only by the successor of a joint
\* configuration it lets commit.
LEMMA RecordMatchLocked ==
    ASSUME TypeInv, LockInv, NEW m \in msgs, NEW i, RecordMatch(m, i)
    PROVE  LockStep
<1> DEFINE n == m.to
           active == [config |-> currentConfig[n], index |-> currentConfigIndex[n]]
<1>1. /\ n \in Node /\ log[n] \in Seq(Entry) /\ disk[n] \in Durable
      /\ active.config \in Config
  BY MessageFields DEF TypeInv, TypeOK
<1>2. IsLatest(n, log[n], active) /\ disk[n].learners = learners[n]
  BY <1>1 DEF LockInv, Cached, Mirrored, IsLatest
<1>3. PICK next, match : LeaderAdvance(n, log[n], active, next, match, disk[n])
  BY DEF RecordMatch
<1>4. learners' = learners
  BY DEF RecordMatch
<1> HIDE DEF n, active
<1> QED
  BY <1>1, <1>2, <1>3, <1>4, LeaderAdvanceLocked

\* How many of its own entries a follower keeps when it merges the request m.
MergeCut(n, m) == m.prevLogIndex + Min(Missing(n, m)) - 1 - snapshot[n].index

\* The log after the merge starts with the log before it, up to the entry
\* before the first missing one, where the PersistLog effect cuts the disk.
LEMMA MergedLogPrefix ==
    ASSUME NEW n \in Node, snapshot[n] \in Snapshot, log[n] \in Seq(Entry),
           NEW m, m.prevLogIndex \in Nat, m.prevLogTerm \in Nat,
           m.entries \in Seq(Entry), PrevLogSatisfied(n, m), Missing(n, m) # {}
    PROVE  /\ MergeCut(n, m) \in Nat /\ MergeCut(n, m) <= Len(log[n])
           /\ MergeCut(n, m) <= Len(MergedLog(n, m))
           /\ \A i \in 1 .. MergeCut(n, m) : MergedLog(n, m)[i] = log[n][i]
<1> DEFINE k == Min(Missing(n, m))
           cut == MergeCut(n, m)
           a == SubSeq(log[n], 1, cut)
           b == SubSeq(m.entries, k, Len(m.entries))
<1>1. /\ k \in DOMAIN m.entries /\ m.prevLogIndex + k > snapshot[n].index
      /\ m.prevLogIndex + k <= LastLogIndex(n) + 1
  BY MergedLogType
<1>2. snapshot[n].index \in Nat /\ Len(log[n]) \in Nat /\ k \in Nat /\ k >= 1
  BY <1>1 DEF Snapshot
<1>3. cut \in Nat /\ cut <= Len(log[n])
  <2> DEFINE p == m.prevLogIndex
             x == snapshot[n].index
             l == Len(log[n])
  <2>1. cut = p + k - 1 - x
    BY DEF MergeCut
  <2>2. /\ p \in Nat /\ x \in Nat /\ l \in Nat /\ k \in Nat
        /\ p + k > x /\ p + k <= x + l + 1
    BY <1>1, <1>2 DEF LastLogIndex
  <2> HIDE DEF k, cut, p, x, l
  <2>3. cut \in Nat /\ cut <= l
    BY <2>1, <2>2
  <2> QED
    BY <2>3 DEF l
<1>4. MergedLog(n, m) = a \o b
  BY DEF MergedLog, MergeCut
<1> HIDE DEF k, cut
<1>5. a \in Seq(Entry) /\ Len(a) = cut /\ \A i \in 1 .. cut : a[i] = log[n][i]
  <2>1. \A i \in 1 .. cut : log[n][i] \in Entry
    BY <1>2, <1>3
  <2>2. /\ SubSeq(log[n], 1, cut) \in Seq(Entry)
        /\ Len(SubSeq(log[n], 1, cut)) = IF 1 <= cut THEN cut - 1 + 1 ELSE 0
        /\ \A i \in 1 .. cut - 1 + 1 : SubSeq(log[n], 1, cut)[i] = log[n][1 + i - 1]
    BY <1>3, <2>1, SubSeqProperties
  <2>3. \A i \in 1 .. cut : 1 + i - 1 = i /\ i \in 1 .. cut - 1 + 1
    BY <1>3
  <2>4. \A i \in 1 .. cut : SubSeq(log[n], 1, cut)[i] = log[n][i]
    BY <2>2, <2>3
  <2> QED
    BY <1>3, <2>2, <2>4
<1>6. b \in Seq(Entry)
  BY <1>2, SuffixType
<1> HIDE DEF a, b
<1>7. /\ Len(a \o b) = Len(a) + Len(b) /\ Len(b) \in Nat
      /\ \A i \in 1 .. Len(a) + Len(b) :
            (a \o b)[i] = IF i <= Len(a) THEN a[i] ELSE b[i - Len(a)]
  <2>1. a \in Seq(Entry) /\ b \in Seq(Entry)
    BY <1>5, <1>6
  <2> QED
    BY <2>1, ConcatProperties
<1>8. \A i \in 1 .. cut : i \in 1 .. Len(a) + Len(b) /\ i <= Len(a)
  BY <1>3, <1>5, <1>7
<1>9. /\ cut \in Nat /\ cut <= Len(log[n]) /\ cut <= Len(MergedLog(n, m))
      /\ \A i \in 1 .. cut : MergedLog(n, m)[i] = log[n][i]
  BY <1>3, <1>4, <1>5, <1>7, <1>8
<1> QED
  BY <1>9 DEF cut

\* on_append_entries: the disk is cut where the log was.
LEMMA AcceptLocked ==
    ASSUME TypeInv, LockInv, NEW m \in msgs, m.type = "AppendEntries",
           AcceptAppendEntries(m)
    PROVE  LockStep
<1> DEFINE n == m.to
           lg == MergedLog(n, m)
           from == m.prevLogIndex + Min(Missing(n, m))
           b == snapshot[n].index
           od == ObservedDisk(n, m.term)
           entries == SubSeq(lg, from - b, Len(lg))
<1>1. /\ n \in Node /\ m.term \in Nat /\ m.prevLogIndex \in Nat /\ m.prevLogTerm \in Nat
      /\ m.entries \in Seq(Entry)
  BY MessageFields DEF TypeInv, TypeOK
<1>2. /\ snapshot[n] \in Snapshot /\ log[n] \in Seq(Entry) /\ disk[n] \in Durable
      /\ b \in Nat
  BY <1>1 DEF TypeInv, TypeOK, Snapshot
<1>3. od.log = disk[n].log /\ od.snapshot = disk[n].snapshot /\ od.learners = disk[n].learners
  BY <1>1, ObservedKeepsRest
<1>4. od \in Durable
  BY <1>1, ObservedDiskType DEF TypeInv
<1>5. Mirrored(n) /\ Cached(n)
  BY <1>1 DEF LockInv
<1>6. /\ PrevLogSatisfied(n, m) /\ log' = [log EXCEPT ![n] = lg]
      /\ snapshot' = snapshot /\ learners' = learners
  BY DEF AcceptAppendEntries
<1>7. CASE Missing(n, m) = {}
  <2>1. /\ UNCHANGED <<currentConfig, currentConfigIndex>>
        /\ disk' = [disk EXCEPT ![n] = od]
    BY <1>7 DEF AcceptAppendEntries, configVars
  <2>2. lg = log[n]
    BY <1>7 DEF MergedLog
  <2> HIDE DEF n, lg, od
  <2>3. log' = log
    BY <1>1, <1>6, <2>2 DEF TypeInv, TypeOK
  <2>4. \A c \in Node : /\ disk'[c].log = disk[c].log
                        /\ disk'[c].snapshot = disk[c].snapshot
                        /\ disk'[c].learners = disk[c].learners
    BY <1>1, <1>3, <2>1 DEF TypeInv, TypeOK
  <2> QED
    BY <1>6, <2>1, <2>3, <2>4, NothingTouched
<1>8. CASE Missing(n, m) # {}
  <2>1. /\ RecomputeConfig(n, lg, snapshot[n])
        /\ disk' = [disk EXCEPT ![n] = PersistLog(od, from, entries)]
    BY <1>8 DEF AcceptAppendEntries
  <2>2. lg \in Seq(Entry) /\ from \in Nat
    <3>1. lg \in Seq(Entry) /\ Min(Missing(n, m)) \in DOMAIN m.entries
      BY <1>1, <1>2, <1>6, <1>8, MergedLogType
    <3> QED
      BY <1>1, <3>1
  <2> DEFINE cut == MergeCut(n, m)
  <2>3. /\ cut \in Nat /\ cut <= Len(log[n]) /\ cut <= Len(lg)
        /\ \A i \in 1 .. cut : lg[i] = log[n][i]
    <3> HIDE DEF n
    <3> QED
      BY <1>1, <1>2, <1>6, <1>8, MergedLogPrefix
  <2>4. cut = from - 1 - b
    <3> DEFINE k == Min(Missing(n, m))
    <3>1. k \in Nat
      <4>1. k \in DOMAIN m.entries
        BY <1>1, <1>2, <1>6, <1>8, MergedLogType
      <4> QED
        BY <1>1, <4>1
    <3>2. cut = m.prevLogIndex + k - 1 - b /\ from = m.prevLogIndex + k
      BY DEF MergeCut
    <3> HIDE DEF k, cut, from, b
    <3> QED
      BY <1>1, <1>2, <3>1, <3>2
  <2>5. from - b = cut + 1 /\ from = b + cut + 1
    <3>1. b \in Nat /\ from \in Nat /\ cut \in Nat
      BY <1>2, <2>2, <2>3
    <3> HIDE DEF cut, from, b
    <3> QED
      BY <2>4, <3>1
  <2> HIDE DEF cut, from, lg, od, n
  <2>6. PersistLog(od, from, entries).log = lg
    <3>1. /\ cut <= Len(od.log) /\ \A i \in 1 .. cut : lg[i] = od.log[i]
          /\ od.snapshot.index = b
      BY <1>3, <1>5, <2>3 DEF Mirrored
    <3>2. PersistLog(od, od.snapshot.index + cut + 1,
                     SubSeq(lg, cut + 1, Len(lg))).log = lg
      BY <1>4, <2>2, <2>3, <3>1, SplicedLog
    <3> QED
      BY <2>5, <3>1, <3>2
  <2>7. /\ PersistLog(od, from, entries).snapshot = disk[n].snapshot
        /\ PersistLog(od, from, entries).learners = disk[n].learners
    BY <1>3, <1>4, PersistKeepsRest
  <2> HIDE DEF entries
  <2>8. log'[n] = lg /\ disk'[n] = PersistLog(od, from, entries)
    BY <1>1, <1>6, <2>1 DEF TypeInv, TypeOK
  <2>9. Mirrored(n)'
    BY <1>5, <1>6, <2>6, <2>7, <2>8 DEF Mirrored
  <2>10. Cached(n)'
    BY <1>1, <1>6, <2>1, <2>8, RecomputeCaches
  <2>11. \A c \in Node \ {n} : Untouched(c)
    BY <1>6, <2>1 DEF Untouched, RecomputeConfig, TypeInv, TypeOK
  <2> QED
    BY <2>9, <2>10, <2>11 DEF LockStep
<1> QED
  BY <1>7, <1>8

\* on_install_snapshot: the log is kept or dropped, in memory and on disk.
LEMMA AcceptSnapshotLocked ==
    ASSUME TypeInv, LockInv, NEW m \in msgs, m.type = "InstallSnapshot", AcceptSnapshot(m)
    PROVE  LockStep
<1> DEFINE n == m.to
           snap == m.snapshot
           od == ObservedDisk(n, m.term)
           d == PersistSnapshot(od, snap)
<1>1. n \in Node /\ m.term \in Nat /\ snap \in Snapshot
  BY MessageFields DEF TypeInv, TypeOK
<1>2. od.log = disk[n].log /\ od.snapshot = disk[n].snapshot /\ od.learners = disk[n].learners
  BY <1>1, ObservedKeepsRest
<1>3. od \in Durable
  BY <1>1, ObservedDiskType DEF TypeInv
<1>4. learners' = learners /\ (KeepLog(m) \/ ReplaceLog(m))
  BY DEF AcceptSnapshot
<1>5. CASE KeepLog(m)
  <2>1. /\ disk' = [disk EXCEPT ![n] = od]
        /\ UNCHANGED <<log, snapshot, currentConfig, currentConfigIndex>>
    BY <1>5 DEF KeepLog, configVars
  <2> HIDE DEF n, od
  <2>2. \A c \in Node : /\ disk'[c].log = disk[c].log
                        /\ disk'[c].snapshot = disk[c].snapshot
                        /\ disk'[c].learners = disk[c].learners
    BY <1>1, <1>2, <2>1 DEF TypeInv, TypeOK
  <2> QED
    BY <1>4, <2>1, <2>2, NothingTouched
<1>6. CASE ReplaceLog(m)
  <2>1. /\ log' = [log EXCEPT ![n] = <<>>]
        /\ snapshot' = [snapshot EXCEPT ![n] = snap]
        /\ RecomputeConfig(n, <<>>, snap)
        /\ disk' = [disk EXCEPT ![n] = PersistLog(d, snap.index + 1, <<>>)]
    BY <1>6 DEF ReplaceLog
  <2>2. d \in Durable /\ d.snapshot = snap /\ d.learners = disk[n].learners
    BY <1>1, <1>2, <1>3, PersistTypes, PersistKeepsRest
  <2> HIDE DEF d, od, n, snap
  <2>3. log'[n] = <<>> /\ snapshot'[n] = snap /\ disk'[n] = PersistLog(d, snap.index + 1, <<>>)
    BY <1>1, <2>1 DEF TypeInv, TypeOK
  <2>4. /\ disk'[n].log = <<>> /\ disk'[n].snapshot = snap
        /\ disk'[n].learners = disk[n].learners
    <3>1. <<>> \in Seq(Entry)
      BY EmptySeq
    <3>2. PersistLog(d, d.snapshot.index + 1, <<>>).log = <<>>
      BY <2>2, <3>1, ReplacedLog
    <3> QED
      BY <2>2, <2>3, <3>2, PersistKeepsRest
  <2>5. Mirrored(n)'
    BY <1>1, <1>4, <2>3, <2>4 DEF LockInv, Mirrored
  <2>6. Cached(n)'
    BY <1>1, <2>1, <2>3, RecomputeCaches
  <2>7. \A c \in Node \ {n} : Untouched(c)
    BY <1>4, <2>1 DEF Untouched, RecomputeConfig, TypeInv, TypeOK
  <2> QED
    BY <2>5, <2>6, <2>7 DEF LockStep
<1> QED
  BY <1>4, <1>5, <1>6

-----------------------------------------------------------------------------
(* The theorems *)

\* Every action keeps the disk and the cache in step with the log.
LEMMA NextLocked ==
    ASSUME TypeInv, TypeInv', LockInv, Next
    PROVE  LockStep
<1>1. ASSUME NEW n \in Node, StartElection(n) \/ Heartbeat(n) PROVE LockStep
  BY <1>1, QuietLocked
<1>2. ASSUME NEW n \in Crashable, Restart(n) PROVE LockStep
  BY <1>2, RestartLocked, InputAssumption
<1>3. ASSUME NEW n \in Node, NEW c \in Command, Propose(n, c) PROVE LockStep
  BY <1>3, ProposeLocked
<1>4. ASSUME NEW n \in Node, NEW id \in Node, AddLearner(n, id) \/ RemoveLearner(n, id)
      PROVE  LockStep
  <2>1. PICK S : SetLearners(n, S)
    BY <1>4 DEF AddLearner, RemoveLearner
  <2> QED
    BY <2>1, LearnerLocked
<1>5. ASSUME NEW n \in Node, NEW i \in CompactPoints, NEW d \in SnapshotData,
             Compact(n, i, d)
      PROVE  LockStep
  BY <1>5, CompactLocked, InputAssumption
<1>6. ASSUME NEW m \in msgs, Lose(m) PROVE LockStep
  BY <1>6, QuietLocked
<1>7. ASSUME NEW m \in msgs, OnRequestVote(m) PROVE LockStep
  BY <1>7, QuietLocked
<1>8. ASSUME NEW m \in msgs, OnRequestVoteResponse(m) PROVE LockStep
  BY <1>8, QuietLocked DEF OnRequestVoteResponse
<1>9. ASSUME NEW m \in msgs, OnAppendEntries(m) PROVE LockStep
  BY <1>9, QuietLocked, AcceptLocked DEF OnAppendEntries
<1>10. ASSUME NEW m \in msgs, OnAppendEntriesResponse(m) PROVE LockStep
  BY <1>10, QuietLocked, RecordMatchLocked DEF OnAppendEntriesResponse
<1>11. ASSUME NEW m \in msgs, OnInstallSnapshot(m) PROVE LockStep
  BY <1>11, QuietLocked, AcceptSnapshotLocked DEF OnInstallSnapshot
<1>12. ASSUME NEW m \in msgs, OnInstallSnapshotResponse(m) PROVE LockStep
  BY <1>12, QuietLocked, RecordMatchLocked DEF OnInstallSnapshotResponse
<1>13. ASSUME NEW n \in Node, NEW S \in VoterSets, ProposeConfigChange(n, S) PROVE LockStep
  BY <1>13, ProposeLocked
<1> QED
  BY <1>1, <1>2, <1>3, <1>4, <1>5, <1>6, <1>7, <1>8, <1>9, <1>10, <1>11, <1>12, <1>13
     DEF Next, Step

\* The two are inductive, given the types.
LEMMA LockInductive == TypeInv /\ LockInv /\ [Next]_vars => LockInv'
<1> SUFFICES ASSUME TypeInv, LockInv, [Next]_vars, NEW n \in Node
             PROVE  Mirrored(n)' /\ Cached(n)'
  BY DEF LockInv
<1>1. Mirrored(n) /\ Cached(n)
  BY DEF LockInv
<1>2. Untouched(n) => Mirrored(n)' /\ Cached(n)'
  BY <1>1 DEF Untouched, Mirrored, Cached
<1>3. CASE Next
  BY <1>2, <1>3, NextType, NextLocked DEF LockStep
<1>4. CASE UNCHANGED vars
  BY <1>2, <1>4 DEF Untouched, vars, configVars
<1> QED
  BY <1>3, <1>4

\* What a crash leaves on disk is exactly the node that crashed, after any
\* sequence of elections, merges, truncations, compactions, snapshot installs,
\* membership changes and earlier crashes.
THEOREM DiskIsMemory == Spec => []DurableMatchesMemory
<1>1. VoteInv /\ LockInv => DurableMatchesMemory
  BY DEF VoteInv, HardStateDurable, LockInv, Mirrored, DurableMatchesMemory
<1> QED
  BY <1>1, InitType, NextType, InitVotes, VoteInductive, InitLocked, LockInductive, PTL
     DEF Spec

\* The configuration a node acts on is always the latest one in its log.
THEOREM CacheIsLatest == Spec => []ConfigLockstep
<1>1. LockInv => ConfigLockstep
  BY DEF LockInv, Cached, ConfigLockstep
<1> QED
  BY <1>1, InitType, NextType, InitLocked, LockInductive, PTL DEF Spec

-----------------------------------------------------------------------------
(* Elections in a cluster whose voters are never changed: no operator calls
   propose_config_change, and the servers that crash and recover are genesis
   voters (a joiner that recovers without a snapshot takes itself for a voter,
   see RecoveredConfig).  Learners come and go, logs are compacted and snapshots
   installed. *)

Static == VoterSets = {} /\ Crashable \subseteq Bootstrap

Genesis == Stable(Bootstrap)

\* The configurations there are: the genesis one, and none for a joiner that
\* has not been sent a snapshot.
Known(n, c) == c = Genesis \/ (n \notin Bootstrap /\ c = EmptyConfig)

NoConfigurations(lg) == \A i \in DOMAIN lg : lg[i].payload.type # "Configuration"

\* Node n derives its configuration from a known one, campaigns and leads only
\* as a genesis voter, with the votes of genesis voters, and as a leader tracks
\* every peer it replicates to.
StaticNode(n) ==
    /\ Known(n, snapshot[n].config)
    /\ NoConfigurations(log[n])
    /\ role[n] # Follower => n \in Bootstrap
    /\ votesGranted[n] \subseteq Bootstrap
    /\ role[n] = Leader => (Bootstrap \cup learners[n]) \ {n} \subseteq Tracked(n)

\* Votes are asked of genesis voters and granted by them, and what is
\* replicated brings no other configuration.
StaticMsg(m) ==
    /\ m.type = "RequestVote" => m.to \in Bootstrap
    /\ Granted(m) => m.from \in Bootstrap
    /\ m.type = "AppendEntries" => NoConfigurations(m.entries)
    /\ m.type = "InstallSnapshot" => m.snapshot.config = Genesis

StaticWin(e) ==
    e.config = Genesis /\ e.votes \subseteq Bootstrap /\ HasQuorum(Genesis, e.votes)

StaticInv ==
    /\ \A n \in Node : StaticNode(n)
    /\ \A m \in msgs : StaticMsg(m)
    /\ \A e \in elected : StaticWin(e)

-----------------------------------------------------------------------------
(* What the actions are built from *)

\* Without configuration entries a log determines the snapshot's configuration.
LEMMA LatestOfPlain ==
    ASSUME NEW lg, NEW snap, NoConfigurations(lg)
    PROVE  LatestConfiguration(lg, snap) = [config |-> snap.config, index |-> snap.index]
<1>1. {i \in DOMAIN lg : lg[i].payload.type = "Configuration"} = {}
  BY DEF NoConfigurations
<1> QED
  BY <1>1 DEF LatestConfiguration

\* So the configuration a node acts on is a known one, and never joint.
LEMMA ConfigIsKnown ==
    ASSUME LockInv, StaticInv, NEW n \in Node
    PROVE  /\ currentConfig[n] = snapshot[n].config
           /\ Known(n, currentConfig[n])
           /\ n \in Bootstrap => currentConfig[n] = Genesis
           /\ currentConfig[n].oldVoters = {}
           /\ currentConfig[n].voters \subseteq Bootstrap
<1>1. Cached(n) /\ StaticNode(n)
  BY DEF LockInv, StaticInv
<1>2. LatestConfiguration(log[n], snapshot[n])
        = [config |-> snapshot[n].config, index |-> snapshot[n].index]
  BY <1>1, LatestOfPlain DEF StaticNode
<1>3. currentConfig[n] = snapshot[n].config
  BY <1>1, <1>2 DEF Cached
<1> QED
  BY <1>1, <1>3 DEF StaticNode, Known, Genesis, Stable, EmptyConfig

\* Parts of a log without configuration entries have none.
LEMMA PlainParts ==
    ASSUME NEW lg \in Seq(Entry), NoConfigurations(lg), NEW a \in Int, NEW b \in Int,
           a >= 1, b <= Len(lg)
    PROVE  NoConfigurations(SubSeq(lg, a, b))
<1>1. \A i \in a .. b : lg[i] \in Entry
  OBVIOUS
<1>2. /\ SubSeq(lg, a, b) \in Seq(Entry)
      /\ Len(SubSeq(lg, a, b)) = IF a <= b THEN b - a + 1 ELSE 0
      /\ \A i \in 1 .. b - a + 1 : SubSeq(lg, a, b)[i] = lg[a + i - 1]
  BY <1>1, SubSeqProperties
<1>3. DOMAIN SubSeq(lg, a, b) = 1 .. Len(SubSeq(lg, a, b))
  BY <1>2
<1> SUFFICES ASSUME NEW i \in DOMAIN SubSeq(lg, a, b)
             PROVE  SubSeq(lg, a, b)[i].payload.type # "Configuration"
  BY DEF NoConfigurations
<1>4. i \in 1 .. b - a + 1 /\ a + i - 1 \in DOMAIN lg
  BY <1>2, <1>3
<1>5. SubSeq(lg, a, b)[i] = lg[a + i - 1]
  BY <1>2, <1>4
<1> QED
  BY <1>4, <1>5 DEF NoConfigurations

\* Nor do two such logs put together.
LEMMA PlainConcat ==
    ASSUME NEW s \in Seq(Entry), NEW t \in Seq(Entry),
           NoConfigurations(s), NoConfigurations(t)
    PROVE  NoConfigurations(s \o t)
<1>1. /\ s \o t \in Seq(Entry) /\ Len(s \o t) = Len(s) + Len(t)
      /\ \A i \in 1 .. Len(s) + Len(t) :
            (s \o t)[i] = IF i <= Len(s) THEN s[i] ELSE t[i - Len(s)]
  BY ConcatProperties
<1> SUFFICES ASSUME NEW i \in DOMAIN (s \o t)
             PROVE  (s \o t)[i].payload.type # "Configuration"
  BY DEF NoConfigurations
<1>2. i \in 1 .. Len(s) + Len(t) /\ Len(s) \in Nat /\ Len(t) \in Nat
  BY <1>1
<1>3. CASE i <= Len(s)
  <2>1. i \in DOMAIN s /\ (s \o t)[i] = s[i]
    BY <1>1, <1>2, <1>3
  <2> QED
    BY <2>1 DEF NoConfigurations
<1>4. CASE ~ (i <= Len(s))
  <2>1. i - Len(s) \in DOMAIN t /\ (s \o t)[i] = t[i - Len(s)]
    BY <1>1, <1>2, <1>4
  <2> QED
    BY <2>1 DEF NoConfigurations
<1> QED
  BY <1>3, <1>4

\* What replicate_to builds from such a log and a genesis snapshot.
LEMMA StaticReplication ==
    ASSUME NEW n, NEW p, NEW t, NEW lg \in Seq(Entry), NEW snap \in Snapshot,
           NEW next \in Nat, NEW commit, NoConfigurations(lg), snap.config = Genesis
    PROVE  StaticMsg(Replication(n, p, t, lg, snap, next, commit))
<1>1. snap.index \in Nat
  BY DEF Snapshot
<1>2. CASE next <= snap.index
  BY <1>2 DEF Replication, StaticMsg, Granted
<1>3. CASE ~ (next <= snap.index)
  <2> DEFINE k == next - snap.index
  <2>1. k \in Int /\ k >= 1 /\ Len(lg) \in Int
    BY <1>1, <1>3
  <2> HIDE DEF k
  <2>2. NoConfigurations(SubSeq(lg, k, Len(lg)))
    BY <2>1, PlainParts
  <2>3. NoConfigurations(SubSeq(lg, next - snap.index, Len(lg)))
    BY <2>2 DEF k
  <2> QED
    BY <1>3, <2>3 DEF Replication, StaticMsg, Granted
<1> QED
  BY <1>2, <1>3

\* Replicating, as a leader does after a step, sends nothing else.
LEMMA StaticReplicate ==
    ASSUME TypeInv', NEW n \in Node, n \in Bootstrap, StaticNode(n)'
    PROVE  \A p \in Node : StaticMsg(ReplicateTo(n, p)')
<1> SUFFICES ASSUME NEW p \in Node PROVE StaticMsg(ReplicateTo(n, p)')
  OBVIOUS
<1>1. /\ log'[n] \in Seq(Entry) /\ snapshot'[n] \in Snapshot /\ nextIndex'[n][p] \in Nat
      /\ NoConfigurations(log'[n]) /\ snapshot'[n].config = Genesis
  BY DEF TypeInv, TypeOK, StaticNode, Known
<1> QED
  BY <1>1, StaticReplication DEF ReplicateTo

\* The other messages.
LEMMA StaticOthers ==
    ASSUME NEW n, NEW p
    PROVE  /\ p \in Bootstrap => StaticMsg(RequestVote(n, p)')
           /\ \A t : StaticMsg(RequestVoteResponse(n, p, t, FALSE))
           /\ \A t, g : n \in Bootstrap => StaticMsg(RequestVoteResponse(n, p, t, g))
           /\ \A t, s, i : StaticMsg(AppendEntriesResponse(n, p, t, s, i))
           /\ \A t, i : StaticMsg(InstallSnapshotResponse(n, p, t, i))
  BY DEF StaticMsg, Granted, RequestVote, RequestVoteResponse, AppendEntriesResponse,
         InstallSnapshotResponse

\* A node none of whose relevant state changes, but for leaving an office.
Idle(c) ==
    /\ snapshot'[c] = snapshot[c] /\ log'[c] = log[c] /\ learners'[c] = learners[c]
    /\ role'[c] \in {role[c], Follower}
    /\ votesGranted'[c] \in {votesGranted[c], {}}
    /\ role'[c] = Leader => nextIndex'[c] = nextIndex[c]

\* What is left to show of a step.
LEMMA StaticFrame ==
    ASSUME StaticInv,
           \A c \in Node : Idle(c) \/ StaticNode(c)',
           \A m \in msgs' : m \in msgs \/ StaticMsg(m),
           \A e \in elected' : e \in elected \/ StaticWin(e)
    PROVE  StaticInv'
<1>1. ASSUME NEW c \in Node, Idle(c) PROVE StaticNode(c)'
  BY <1>1 DEF StaticInv, StaticNode, Idle, Tracked, Follower, Leader
<1>2. \A m \in msgs : StaticMsg(m)
  BY DEF StaticInv
<1>3. \A e \in elected : StaticWin(e)
  BY DEF StaticInv
<1>4. \A m \in msgs' : StaticMsg(m)
  BY <1>2
<1>5. \A e \in elected' : StaticWin(e)
  BY <1>3
<1>6. StaticInv' <=> /\ \A c \in Node : StaticNode(c)'
                     /\ \A m \in msgs' : StaticMsg(m)
                     /\ \A e \in elected' : StaticWin(e)
  BY DEF StaticInv, StaticMsg, StaticWin, Granted
<1> QED
  BY <1>1, <1>4, <1>5, <1>6

\* A step that changes nobody's log, snapshot, learners or progress as a
\* leader, makes nobody a candidate or leader, and adds no votes.
LEMMA StaticQuiet ==
    ASSUME StaticInv, UNCHANGED <<snapshot, log, learners, elected>>,
           \A c \in Node : /\ role'[c] \in {role[c], Follower}
                           /\ votesGranted'[c] \in {votesGranted[c], {}}
                           /\ role'[c] = Leader => nextIndex'[c] = nextIndex[c],
           \A m \in msgs' : m \in msgs \/ StaticMsg(m)
    PROVE  StaticInv'
<1>1. \A c \in Node : Idle(c)
  BY DEF Idle
<1> QED
  BY <1>1, StaticFrame

\* A candidate that wins is a genesis voter with a majority of the genesis
\* voters, and starts to track everyone it will replicate to.
LEMMA StaticWinWith ==
    ASSUME TypeInv, LockInv, StaticInv, NEW n \in Node, n \in Bootstrap, NEW t,
           NEW votes \in SUBSET Bootstrap, WinWith(n, t, votes),
           UNCHANGED <<snapshot, log, learners>>, votesGranted'[n] = votes,
           role'[n] = Leader => role[n] = Leader \/ HasQuorum(currentConfig[n], votes),
           \A c \in Node \ {n} : role'[c] = role[c] /\ votesGranted'[c] = votesGranted[c]
    PROVE  /\ StaticNode(n)' /\ \A c \in Node \ {n} : Idle(c)
           /\ \A e \in elected' : e \in elected \/ StaticWin(e)
<1>1. currentConfig[n] = Genesis
  BY ConfigIsKnown
<1>2. CASE HasQuorum(currentConfig[n], votes)
  <2> DEFINE Seed(v) == [p \in Node |-> IF p \in ReplicationTargets(n) THEN v ELSE 0]
  <2>1. /\ nextIndex' = [nextIndex EXCEPT ![n] = Seed(LastLogIndex(n) + 1)]
        /\ elected' = elected \cup {[term |-> t, leader |-> n, votes |-> votes,
                                     config |-> currentConfig[n]]}
    BY <1>2 DEF WinWith
  <2>2. LastLogIndex(n) + 1 # 0
    <3>1. snapshot[n].index \in Nat /\ Len(log[n]) \in Nat
      BY DEF TypeInv, TypeOK, Snapshot
    <3> QED
      BY <3>1 DEF LastLogIndex
  <2>3. /\ nextIndex'[n] = Seed(LastLogIndex(n) + 1)
        /\ \A c \in Node \ {n} : nextIndex'[c] = nextIndex[c]
    BY <2>1 DEF TypeInv, TypeOK
  <2>4. \A p \in ReplicationTargets(n) \cap Node : nextIndex'[n][p] # 0
    BY <2>2, <2>3
  <2>5. (Bootstrap \cup learners[n]) \ {n} \subseteq ReplicationTargets(n) \cap Node
    BY <1>1, BootstrapAssumption DEF ReplicationTargets, Genesis, Stable, TypeInv, TypeOK
  <2>6. (Bootstrap \cup learners'[n]) \ {n} \subseteq Tracked(n)'
    BY <2>4, <2>5 DEF Tracked
  <2>7. StaticNode(n)'
    BY <2>6 DEF StaticInv, StaticNode
  <2>8. StaticWin([term |-> t, leader |-> n, votes |-> votes, config |-> currentConfig[n]])
    BY <1>1, <1>2 DEF StaticWin
  <2> QED
    BY <2>1, <2>3, <2>7, <2>8 DEF Idle
<1>3. CASE ~ HasQuorum(currentConfig[n], votes)
  <2>1. UNCHANGED <<nextIndex, elected>>
    BY <1>3 DEF WinWith, leaderVars
  <2>2. StaticNode(n)'
    BY <1>3, <2>1 DEF StaticInv, StaticNode, Tracked
  <2> QED
    BY <2>1, <2>2 DEF Idle
<1> QED
  BY <1>2, <1>3

\* advance_commit_index appends nothing of its own outside a transition.
LEMMA StaticAdvance ==
    ASSUME TypeInv, NEW n \in Node, NEW lg \in Seq(Entry), NEW active,
           active.config.oldVoters = {}, NEW next, NEW match, NEW d,
           LeaderAdvance(n, lg, active, next, match, d)
    PROVE  /\ log'[n] = lg /\ snapshot' = snapshot /\ elected' = elected
           /\ role'[n] \in {role[n], Follower}
           /\ votesGranted'[n] \in {votesGranted[n], {}}
           /\ nextIndex'[n] = next \/ role'[n] = Follower
           /\ \A c \in Node \ {n} : /\ log'[c] = log[c] /\ role'[c] = role[c]
                                    /\ votesGranted'[c] = votesGranted[c]
                                    /\ nextIndex'[c] = nextIndex[c]
<1> DEFINE adv == AdvanceCommitIndex(n, lg, active, match)
<1>1. adv.log = lg
  BY DEF AdvanceCommitIndex, IsJoint
<1>2. /\ log' = [log EXCEPT ![n] = adv.log]
      /\ role' = [role EXCEPT ![n] = IF adv.retired THEN Follower ELSE @]
      /\ votesGranted' = [votesGranted EXCEPT ![n] = IF adv.retired THEN {} ELSE @]
      /\ nextIndex' = [nextIndex EXCEPT ![n] = IF adv.retired THEN NoProgress ELSE next]
      /\ snapshot' = snapshot /\ elected' = elected
  BY DEF LeaderAdvance
<1> HIDE DEF adv
<1> QED
  BY <1>1, <1>2 DEF TypeInv, TypeOK

-----------------------------------------------------------------------------
(* The actions *)

\* The genesis voters start with the genesis configuration, the rest with none.
LEMMA InitStatic == Init => StaticInv
<1> SUFFICES ASSUME Init PROVE StaticInv
  OBVIOUS
<1>1. msgs = {} /\ elected = {}
  BY DEF Init
<1>2. ASSUME NEW n \in Node PROVE StaticNode(n)
  <2> DEFINE c == IF n \in Bootstrap THEN Stable(Bootstrap) ELSE EmptyConfig
  <2>1. /\ log[n] = <<>> /\ snapshot[n] = NoSnapshot(c) /\ role[n] = Follower
        /\ votesGranted[n] = {}
    BY DEF Init
  <2>2. snapshot[n].config = c
    BY <2>1 DEF NoSnapshot
  <2>3. Known(n, snapshot[n].config)
    BY <2>2 DEF Known, Genesis
  <2>4. NoConfigurations(log[n])
    BY <2>1 DEF NoConfigurations
  <2> QED
    BY <2>1, <2>3, <2>4 DEF StaticNode, Follower, Leader
<1> QED
  BY <1>1, <1>2 DEF StaticInv

\* Only genesis voters campaign, and they ask only genesis voters.
LEMMA StaticStartElection ==
    ASSUME TypeInv, TypeInv', LockInv, StaticInv, NEW n \in Node, StartElection(n)
    PROVE  StaticInv'
<1> DEFINE t == currentTerm[n] + 1
           won == HasQuorum(currentConfig[n], {n})
<1>1. /\ role' = [role EXCEPT ![n] = IF won THEN Leader ELSE Candidate]
      /\ votesGranted' = [votesGranted EXCEPT ![n] = {n}]
      /\ WinWith(n, t, {n})
      /\ UNCHANGED <<log, snapshot, learners>>
      /\ msgs' = msgs \cup IF won
                THEN {ReplicateTo(n, p)' : p \in ReplicationTargets(n)}
                ELSE {RequestVote(n, p)' : p \in currentConfig[n].voters \ {n}}
      /\ IsVoter(currentConfig[n], n)
  BY DEF StartElection, Send
<1>2. n \in Bootstrap /\ currentConfig[n] = Genesis
  BY <1>1, ConfigIsKnown DEF IsVoter
<1>3. ReplicationTargets(n) \subseteq Node
  BY DEF ReplicationTargets, TypeInv, TypeOK, Config
<1>4. /\ votesGranted'[n] = {n} /\ role'[n] = (IF won THEN Leader ELSE Candidate)
      /\ \A c \in Node \ {n} : role'[c] = role[c] /\ votesGranted'[c] = votesGranted[c]
  BY <1>1 DEF TypeInv, TypeOK
<1>5. role'[n] = Leader => won
  BY <1>4 DEF Leader, Candidate
<1> HIDE DEF t
<1>6. /\ StaticNode(n)' /\ \A c \in Node \ {n} : Idle(c)
      /\ \A e \in elected' : e \in elected \/ StaticWin(e)
  BY <1>1, <1>2, <1>4, <1>5, StaticWinWith
<1>7. \A p \in Node : StaticMsg(ReplicateTo(n, p)')
  BY <1>2, <1>6, StaticReplicate
<1>8. \A p \in Bootstrap : StaticMsg(RequestVote(n, p)')
  BY StaticOthers
<1>9. \A m \in msgs' : m \in msgs \/ StaticMsg(m)
  BY <1>1, <1>2, <1>3, <1>7, <1>8 DEF Genesis, Stable
<1> QED
  BY <1>6, <1>9, StaticFrame

\* recover finds the genesis configuration on disk or in KUROGANE_PEERS.
LEMMA StaticRestart ==
    ASSUME TypeInv, LockInv, StaticInv, NEW n \in Node, n \in Bootstrap, Restart(n)
    PROVE  StaticInv'
<1> DEFINE snap == [disk[n].snapshot EXCEPT !.config = RecoveredConfig(n)]
<1>1. /\ role' = [role EXCEPT ![n] = Follower]
      /\ votesGranted' = [votesGranted EXCEPT ![n] = {}]
      /\ log' = [log EXCEPT ![n] = disk[n].log]
      /\ nextIndex' = [nextIndex EXCEPT ![n] = NoProgress]
      /\ snapshot' = [snapshot EXCEPT ![n] = snap]
      /\ learners' = [learners EXCEPT ![n] = disk[n].learners]
      /\ UNCHANGED <<msgs, elected>>
  BY DEF Restart
<1>2. StaticNode(n) /\ Mirrored(n)
  BY DEF StaticInv, LockInv
<1>3. RecoveredConfig(n) = Genesis
  <2>1. disk[n].snapshot.index \in Nat
    BY DEF TypeInv, TypeOK, Durable, Snapshot
  <2>2. CASE disk[n].snapshot.index > 0
    BY <1>2, <2>2 DEF RecoveredConfig, StaticNode, Mirrored, Known
  <2>3. CASE disk[n].snapshot.index = 0
    <3>1. RecoveredConfig(n) = Stable(Bootstrap \cup {n})
      BY <2>3 DEF RecoveredConfig
    <3>2. Bootstrap \cup {n} = Bootstrap
      OBVIOUS
    <3> QED
      BY <3>1, <3>2 DEF Genesis
  <2> QED
    BY <2>1, <2>2, <2>3
<1>4. snap.config = Genesis
  <2>1. disk[n].snapshot \in Snapshot
    BY DEF TypeInv, TypeOK, Durable
  <2> QED
    BY <1>3, <2>1 DEF Snapshot
<1> HIDE DEF snap
<1>5. /\ role'[n] = Follower /\ votesGranted'[n] = {} /\ log'[n] = disk[n].log
      /\ snapshot'[n] = snap
      /\ \A c \in Node \ {n} : Idle(c)
  BY <1>1 DEF Idle, TypeInv, TypeOK
<1>6. disk[n].log = log[n]
  BY <1>2 DEF Mirrored
<1>7. StaticNode(n)'
  BY <1>2, <1>4, <1>5, <1>6 DEF StaticNode, Known, Follower, Leader
<1> QED
  BY <1>1, <1>5, <1>7, StaticFrame

\* A leader's replicas and acknowledgements change no configuration.
LEMMA StaticLeaderAdvance ==
    ASSUME TypeInv, LockInv, StaticInv, NEW n \in Node, role[n] = Leader,
           NEW lg \in Seq(Entry), NoConfigurations(lg), NEW active, active.config = Genesis,
           NEW next, \A p \in Tracked(n) : next[p] # 0, NEW match, NEW d,
           LeaderAdvance(n, lg, active, next, match, d), learners' = learners
    PROVE  /\ StaticNode(n)' /\ elected' = elected
           /\ \A c \in Node \ {n} : Idle(c)
<1>1. active.config.oldVoters = {}
  BY DEF Genesis, Stable
<1>2. /\ log'[n] = lg /\ snapshot' = snapshot /\ elected' = elected
      /\ role'[n] \in {role[n], Follower}
      /\ votesGranted'[n] \in {votesGranted[n], {}}
      /\ nextIndex'[n] = next \/ role'[n] = Follower
      /\ \A c \in Node \ {n} : /\ log'[c] = log[c] /\ role'[c] = role[c]
                               /\ votesGranted'[c] = votesGranted[c]
                               /\ nextIndex'[c] = nextIndex[c]
  BY <1>1, StaticAdvance
<1>3. StaticNode(n) /\ role[n] # Follower
  BY DEF StaticInv, Leader, Follower
<1>4. StaticNode(n)'
  BY <1>2, <1>3 DEF StaticNode, Tracked, Follower, Leader
<1> QED
  BY <1>2, <1>4 DEF Idle

\* A client command is no configuration.
LEMMA StaticPropose ==
    ASSUME TypeInv, LockInv, StaticInv, NEW n \in Node, NEW c \in Command, Propose(n, c)
    PROVE  StaticInv'
<1> DEFINE e == [term |-> currentTerm[n], payload |-> CommandPayload(c)]
           lg == Append(log[n], e)
           active == LatestConfiguration(lg, snapshot[n])
<1>1. /\ role[n] = Leader /\ UNCHANGED <<learners, msgs>>
      /\ LeaderAdvance(n, lg, active, nextIndex[n], matchIndex[n], disk[n])
  BY DEF Propose, AppendAndAdvance
<1>2. log[n] \in Seq(Entry) /\ e \in Entry
  BY DEF TypeInv, TypeOK, Entry, CommandPayload, Payload
<1>3. e.payload.type = "Command"
  BY DEF CommandPayload
<1>4. StaticNode(n) /\ n \in Bootstrap
  BY <1>1 DEF StaticInv, StaticNode, Leader, Follower
<1> HIDE DEF e
<1>5. lg \in Seq(Entry)
  BY <1>2, AppendProperties
<1>6. NoConfigurations(lg)
  <2>1. /\ Len(lg) = Len(log[n]) + 1 /\ Len(log[n]) \in Nat
        /\ \A i \in 1 .. Len(log[n]) : lg[i] = log[n][i]
        /\ lg[Len(log[n]) + 1] = e /\ DOMAIN lg = 1 .. Len(log[n]) + 1
    BY <1>2, AppendProperties
  <2> HIDE DEF lg
  <2>2. ASSUME NEW i \in DOMAIN lg PROVE lg[i].payload.type # "Configuration"
    <3>1. CASE i \in 1 .. Len(log[n])
      <4>1. log[n][i].payload.type # "Configuration"
        BY <1>2, <1>4, <3>1 DEF StaticNode, NoConfigurations
      <4> QED
        BY <2>1, <3>1, <4>1
    <3>2. CASE i = Len(log[n]) + 1
      BY <1>3, <2>1, <3>2
    <3> QED
      BY <2>1, <3>1, <3>2
  <2> QED
    BY <2>2 DEF NoConfigurations
<1>7. active.config = Genesis
  BY <1>4, <1>6, LatestOfPlain DEF StaticNode, Known
<1> HIDE DEF lg, active
<1>8. /\ StaticNode(n)' /\ elected' = elected
      /\ \A x \in Node \ {n} : Idle(x)
  <2>1. \A p \in Tracked(n) : nextIndex[n][p] # 0
    BY DEF Tracked
  <2> QED
    BY <1>1, <1>5, <1>6, <1>7, <2>1, StaticLeaderAdvance
<1> QED
  BY <1>1, <1>8, StaticFrame

\* A new learner is tracked at once.
LEMMA StaticLearner ==
    ASSUME TypeInv, LockInv, StaticInv, NEW n \in Node, NEW id \in Node,
           AddLearner(n, id) \/ RemoveLearner(n, id)
    PROVE  StaticInv'
<1>1. PICK S : SetLearners(n, S) /\ S \subseteq learners[n] \cup {id}
               /\ (RemoveLearner(n, id) => S \subseteq learners[n])
  <2>1. CASE RemoveLearner(n, id)
    <3>1. SetLearners(n, learners[n] \ {id})
      BY <2>1 DEF RemoveLearner
    <3> QED
      BY <3>1
  <2>2. CASE AddLearner(n, id)
    <3>1. SetLearners(n, learners[n] \cup {id}) /\ id \notin learners[n]
      BY <2>2 DEF AddLearner, IsMember
    <3>2. ~ RemoveLearner(n, id)
      BY <3>1 DEF RemoveLearner
    <3> QED
      BY <3>1, <3>2
  <2> QED
    BY <2>1, <2>2
<1>2. /\ learners' = [learners EXCEPT ![n] = S]
      /\ UNCHANGED <<role, votesGranted, log, snapshot, msgs, elected>>
  BY <1>1 DEF SetLearners, electionVars
<1>3. learners'[n] = S /\ \A c \in Node \ {n} : learners'[c] = learners[c]
  BY <1>2 DEF TypeInv, TypeOK
<1>4. \A c \in Node \ {n} : nextIndex'[c] = nextIndex[c]
  BY DEF AddLearner, RemoveLearner, TypeInv, TypeOK, leaderVars
<1>5. Tracked(n) \subseteq Tracked(n)' /\ S \ learners[n] \subseteq Tracked(n)'
  <2>1. CASE RemoveLearner(n, id)
    BY <1>1, <2>1 DEF RemoveLearner, leaderVars, Tracked
  <2>2. CASE AddLearner(n, id) /\ id \in Tracked(n)
    BY <1>1, <2>2 DEF AddLearner, leaderVars, Tracked
  <2>3. CASE AddLearner(n, id) /\ id \notin Tracked(n)
    <3>1. nextIndex' = [nextIndex EXCEPT ![n][id] = LastLogIndex(n) + 1]
      BY <2>3 DEF AddLearner
    <3>2. LastLogIndex(n) + 1 # 0
      <4>1. snapshot[n] \in Snapshot /\ log[n] \in Seq(Entry)
        BY DEF TypeInv, TypeOK
      <4>2. snapshot[n].index \in Nat /\ Len(log[n]) \in Nat
        BY <4>1 DEF Snapshot
      <4> QED
        BY <4>2 DEF LastLogIndex
    <3>3. \A p \in Node : nextIndex'[n][p] = IF p = id THEN LastLogIndex(n) + 1
                                                       ELSE nextIndex[n][p]
      BY <3>1 DEF TypeInv, TypeOK
    <3> QED
      BY <1>1, <3>2, <3>3 DEF Tracked
  <2> QED
    BY <2>1, <2>2, <2>3
<1>6. StaticNode(n)'
  BY <1>2, <1>3, <1>5 DEF StaticInv, StaticNode
<1>7. \A c \in Node \ {n} : Idle(c)
  BY <1>2, <1>3, <1>4 DEF Idle
<1> QED
  BY <1>2, <1>6, <1>7, StaticFrame

\* compact records the configuration of the snapshot it replaces.
LEMMA StaticCompact ==
    ASSUME TypeInv, LockInv, StaticInv, NEW n \in Node, NEW i \in Nat, NEW data,
           Compact(n, i, data)
    PROVE  StaticInv'
<1> DEFINE b == snapshot[n].index
           rest == SubSeq(log[n], i - b + 1, Len(log[n]))
           snap == [index |-> i, term |-> TermAt(n, i), data |-> data,
                    config |-> ConfigAtBoundary(n, i)]
<1>1. /\ log' = [log EXCEPT ![n] = rest] /\ snapshot' = [snapshot EXCEPT ![n] = snap]
      /\ UNCHANGED <<role, votesGranted, nextIndex, learners, msgs, elected>>
      /\ i > b /\ i <= LastLogIndex(n)
  BY DEF Compact, electionVars, leaderVars
<1>2. b \in Nat /\ log[n] \in Seq(Entry) /\ Len(log[n]) \in Nat
  BY DEF TypeInv, TypeOK, Snapshot
<1>3. StaticNode(n)
  BY DEF StaticInv
<1>4. i - b + 1 \in Int /\ i - b + 1 >= 1 /\ i - b \in Int /\ i - b <= Len(log[n])
  BY <1>1, <1>2 DEF LastLogIndex
<1>5. NoConfigurations(rest) /\ NoConfigurations(SubSeq(log[n], 1, i - b))
  <2> HIDE DEF b
  <2> DEFINE x == i - b + 1
             y == i - b
  <2>1. x \in Int /\ x >= 1 /\ y \in Int /\ y <= Len(log[n]) /\ Len(log[n]) \in Int
    BY <1>2, <1>4
  <2> HIDE DEF x, y
  <2>2. NoConfigurations(SubSeq(log[n], x, Len(log[n])))
    BY <1>2, <1>3, <2>1, PlainParts DEF StaticNode
  <2>3. NoConfigurations(SubSeq(log[n], 1, y))
    BY <1>2, <1>3, <2>1, PlainParts DEF StaticNode
  <2> QED
    BY <2>2, <2>3 DEF x, y
<1>6. snap.config = snapshot[n].config
  BY <1>5, LatestOfPlain DEF ConfigAtBoundary
<1> HIDE DEF rest, snap
<1>7. log'[n] = rest /\ snapshot'[n] = snap
  BY <1>1 DEF TypeInv, TypeOK
<1>8. StaticNode(n)'
  BY <1>1, <1>3, <1>5, <1>6, <1>7 DEF StaticNode, Tracked
<1>9. \A c \in Node \ {n} : Idle(c)
  BY <1>1 DEF Idle, TypeInv, TypeOK
<1> QED
  BY <1>1, <1>8, <1>9, StaticFrame

\* The steps that take an office away at most.
LEMMA StaticStepDown ==
    ASSUME TypeInv, StaticInv, NEW n \in Node, NEW t \in Nat,
           ObserveLeader(n, t) \/ StepDown(n, t),
           UNCHANGED <<snapshot, log, learners, elected>>,
           \A m \in msgs' : m \in msgs \/ StaticMsg(m)
    PROVE  StaticInv'
<1>1. CASE StepDown(n, t)
  <2>1. \A c \in Node : /\ role'[c] \in {role[c], Follower}
                        /\ votesGranted'[c] \in {votesGranted[c], {}}
                        /\ role'[c] = Leader => nextIndex'[c] = nextIndex[c]
    BY <1>1 DEF StepDown, TypeInv, TypeOK, Follower, Leader
  <2> QED
    BY <2>1, StaticQuiet
<1>2. CASE ObserveLeader(n, t) /\ ~ StepDown(n, t)
  <2>1. \A c \in Node : /\ role'[c] \in {role[c], Follower}
                        /\ votesGranted'[c] \in {votesGranted[c], {}}
                        /\ role'[c] = Leader => nextIndex'[c] = nextIndex[c]
    BY <1>2 DEF ObserveLeader, leaderVars, TypeInv, TypeOK
  <2> QED
    BY <2>1, StaticQuiet
<1> QED
  BY <1>1, <1>2

\* Votes are granted by genesis voters, who alone are asked.
LEMMA StaticOnRequestVote ==
    ASSUME TypeInv, StaticInv, NEW m \in msgs, OnRequestVote(m)
    PROVE  StaticInv'
<1> DEFINE n == m.to
<1>1. n \in Node /\ m.term \in Nat /\ n \in Bootstrap
  BY MessageFields DEF OnRequestVote, StaticInv, StaticMsg, TypeInv, TypeOK
<1>2. CASE DisregardRequestVote(m)
  <2>1. /\ UNCHANGED <<snapshot, log, learners, elected, role, votesGranted, nextIndex>>
        /\ msgs' = (msgs \ {m}) \cup {RequestVoteResponse(n, m.from, currentTerm[n], FALSE)}
    BY <1>2 DEF DisregardRequestVote, Reply, electionVars, leaderVars
  <2>2. \A x \in msgs' : x \in msgs \/ StaticMsg(x)
    BY <2>1, StaticOthers
  <2> QED
    BY <2>1, <2>2, StaticQuiet
<1>3. CASE AnswerRequestVote(m)
  <2>1. PICK newer, grant :
           /\ role' = [role EXCEPT ![n] = IF newer THEN Follower ELSE @]
           /\ votesGranted' = [votesGranted EXCEPT ![n] = IF newer THEN {} ELSE @]
           /\ nextIndex' = [nextIndex EXCEPT ![n] = IF newer THEN NoProgress ELSE @]
           /\ msgs' = (msgs \ {m}) \cup {RequestVoteResponse(n, m.from, m.term, grant)}
    BY <1>3 DEF AnswerRequestVote, Reply
  <2>2. UNCHANGED <<snapshot, log, learners, elected>>
    BY <1>3 DEF AnswerRequestVote
  <2> HIDE DEF n
  <2>3. \A c \in Node : /\ role'[c] \in {role[c], Follower}
                        /\ votesGranted'[c] \in {votesGranted[c], {}}
                        /\ role'[c] = Leader => nextIndex'[c] = nextIndex[c]
    BY <1>1, <2>1 DEF TypeInv, TypeOK, Follower, Leader
  <2>4. \A x \in msgs' : x \in msgs \/ StaticMsg(x)
    BY <1>1, <2>1, StaticOthers
  <2> QED
    BY <2>2, <2>3, <2>4, StaticQuiet
<1> QED
  BY <1>2, <1>3 DEF OnRequestVote

\* A response of a later term.
LEMMA StaticAdoptTerm ==
    ASSUME TypeInv, StaticInv, NEW m \in msgs, AdoptTerm(m)
    PROVE  StaticInv'
<1>1. m.to \in Node /\ m.term \in Nat
  BY MessageFields DEF TypeInv, TypeOK
<1>2. /\ StepDown(m.to, m.term) /\ UNCHANGED <<snapshot, log, learners, elected>>
      /\ msgs' \subseteq msgs
  BY DEF AdoptTerm, Reply
<1> QED
  BY <1>1, <1>2, StaticStepDown

\* A candidate counts the votes of genesis voters.
LEMMA StaticCountVote ==
    ASSUME TypeInv, TypeInv', LockInv, StaticInv, NEW m \in msgs,
           m.type = "RequestVoteResponse", CountVote(m)
    PROVE  StaticInv'
<1> DEFINE n == m.to
           votes == votesGranted[n] \cup {m.from}
           won == HasQuorum(currentConfig[n], votes)
<1>1. /\ n \in Node /\ role[n] = Candidate /\ m.granted
      /\ votesGranted' = [votesGranted EXCEPT ![n] = votes]
      /\ role' = [role EXCEPT ![n] = IF won THEN Leader ELSE @]
      /\ WinWith(n, m.term, votes)
      /\ UNCHANGED <<snapshot, log, learners>>
      /\ msgs' = (msgs \ {m}) \cup IF won
                THEN {ReplicateTo(n, p)' : p \in ReplicationTargets(n)} ELSE {}
  BY MessageFields DEF CountVote, Reply, TypeInv, TypeOK
<1>2. StaticNode(n) /\ n \in Bootstrap /\ votes \in SUBSET Bootstrap
  BY <1>1 DEF StaticInv, StaticNode, StaticMsg, Granted, Candidate, Follower
<1>3. ReplicationTargets(n) \subseteq Node
  BY <1>1 DEF ReplicationTargets, TypeInv, TypeOK, Config
<1> HIDE DEF n, votes
<1>4. /\ votesGranted'[n] = votes /\ role'[n] = (IF won THEN Leader ELSE role[n])
      /\ \A c \in Node \ {n} : role'[c] = role[c] /\ votesGranted'[c] = votesGranted[c]
  BY <1>1 DEF TypeInv, TypeOK
<1>5. role'[n] = Leader => won
  BY <1>1, <1>4 DEF Leader, Candidate
<1>6. /\ StaticNode(n)' /\ \A c \in Node \ {n} : Idle(c)
      /\ \A e \in elected' : e \in elected \/ StaticWin(e)
  BY <1>1, <1>2, <1>4, <1>5, StaticWinWith
<1>7. \A p \in Node : StaticMsg(ReplicateTo(n, p)')
  BY <1>1, <1>2, <1>6, StaticReplicate
<1>8. \A x \in msgs' : x \in msgs \/ StaticMsg(x)
  BY <1>1, <1>3, <1>7
<1> QED
  BY <1>6, <1>8, StaticFrame

\* A merge takes entries from a log without configurations.
LEMMA StaticOnAppendEntries ==
    ASSUME TypeInv, StaticInv, NEW m \in msgs, OnAppendEntries(m)
    PROVE  StaticInv'
<1> DEFINE n == m.to
           k == Min(Missing(n, m))
           lg == MergedLog(n, m)
<1>1. /\ m \in Message /\ m.type = "AppendEntries" /\ n \in Node /\ m.term \in Nat
      /\ m.prevLogIndex \in Nat /\ m.prevLogTerm \in Nat /\ m.entries \in Seq(Entry)
  BY MessageFields DEF OnAppendEntries, TypeInv, TypeOK
<1>2. NoConfigurations(m.entries)
  BY <1>1 DEF StaticInv, StaticMsg
<1>3. CASE RejectAppendEntries(m)
  <2>1. /\ UNCHANGED <<snapshot, log, learners, elected>>
        /\ UNCHANGED <<role, votesGranted, nextIndex>> \/ ObserveLeader(n, m.term)
    BY <1>3 DEF RejectAppendEntries, electionVars, leaderVars
  <2>2. PICK t : msgs' = (msgs \ {m}) \cup {AppendEntriesResponse(n, m.from, t, FALSE, 0)}
    BY <1>3 DEF RejectAppendEntries, Reply
  <2>3. \A x \in msgs' : x \in msgs \/ StaticMsg(x)
    BY <2>2, StaticOthers
  <2>4. CASE UNCHANGED <<role, votesGranted, nextIndex>>
    BY <2>1, <2>3, <2>4, StaticQuiet
  <2>5. CASE ObserveLeader(n, m.term)
    BY <1>1, <2>1, <2>3, <2>5, StaticStepDown
  <2> QED
    BY <2>1, <2>4, <2>5
<1>4. CASE AcceptAppendEntries(m)
  <2>1. /\ PrevLogSatisfied(n, m) /\ ObserveLeader(n, m.term)
        /\ log' = [log EXCEPT ![n] = lg]
        /\ UNCHANGED <<snapshot, learners, elected>>
    BY <1>4 DEF AcceptAppendEntries
  <2>2. PICK i : msgs' = (msgs \ {m}) \cup {AppendEntriesResponse(n, m.from, m.term, TRUE, i)}
    BY <1>4 DEF AcceptAppendEntries, Reply
  <2>3. \A x \in msgs' : x \in msgs \/ StaticMsg(x)
    BY <2>2, StaticOthers
  <2>4. /\ StaticNode(n) /\ log[n] \in Seq(Entry) /\ snapshot[n] \in Snapshot
        /\ NoConfigurations(log[n])
    BY <1>1 DEF StaticInv, StaticNode, TypeInv, TypeOK
  <2>5. NoConfigurations(lg)
    <3>1. CASE Missing(n, m) = {}
      BY <2>4, <3>1 DEF MergedLog
    <3>2. CASE Missing(n, m) # {}
      <4> DEFINE cut == MergeCut(n, m)
                 a == SubSeq(log[n], 1, cut)
                 b == SubSeq(m.entries, k, Len(m.entries))
      <4>1. lg = a \o b
        BY <3>2 DEF MergedLog, MergeCut
      <4>2. cut \in Int /\ cut <= Len(log[n])
        <5> HIDE DEF n
        <5> QED
          BY <1>1, <2>1, <2>4, <3>2, MergedLogPrefix
      <4>3. k \in Int /\ k >= 1 /\ Len(m.entries) \in Int
        <5>1. k \in DOMAIN m.entries
          BY <1>1, <2>1, <2>4, <3>2, MergedLogType
        <5> QED
          BY <1>1, <5>1
      <4> HIDE DEF n, cut, k, lg
      <4>4. a \in Seq(Entry) /\ NoConfigurations(a)
        BY <2>4, <4>2, PrefixType, PlainParts
      <4>5. b \in Seq(Entry) /\ NoConfigurations(b)
        BY <1>1, <1>2, <4>3, SuffixType, PlainParts
      <4> HIDE DEF a, b
      <4> QED
        BY <4>1, <4>4, <4>5, PlainConcat
    <3> QED
      BY <3>1, <3>2
  <2> HIDE DEF n, lg
  <2>6. log'[n] = lg /\ \A c \in Node \ {n} : log'[c] = log[c]
    BY <1>1, <2>1 DEF TypeInv, TypeOK
  <2>7. \A c \in Node : /\ role'[c] \in {role[c], Follower}
                        /\ votesGranted'[c] \in {votesGranted[c], {}}
                        /\ role'[c] = Leader => nextIndex'[c] = nextIndex[c]
    <3>1. CASE StepDown(n, m.term)
      BY <1>1, <3>1 DEF StepDown, TypeInv, TypeOK, Follower, Leader
    <3>2. CASE ~ StepDown(n, m.term)
      BY <1>1, <2>1, <3>2 DEF ObserveLeader, leaderVars, TypeInv, TypeOK
    <3> QED
      BY <3>1, <3>2
  <2>8. StaticNode(n)'
    BY <1>1, <2>1, <2>4, <2>5, <2>6, <2>7 DEF StaticNode, Tracked, Follower, Leader
  <2>9. \A c \in Node \ {n} : Idle(c)
    BY <2>1, <2>6, <2>7 DEF Idle
  <2> QED
    BY <2>1, <2>3, <2>8, <2>9, StaticFrame
<1> QED
  BY <1>3, <1>4 DEF OnAppendEntries

\* The trailing replication of a leader's response handlers.
LEMMA StaticBehind ==
    ASSUME TypeInv', NEW m \in msgs, m.to \in Bootstrap, m.to \in Node, m.from \in Node,
           StaticNode(m.to)', ReplicateIfBehind(m)
    PROVE  \A x \in msgs' : x \in msgs \/ StaticMsg(x)
<1>1. StaticMsg(ReplicateTo(m.to, m.from)')
  BY StaticReplicate
<1> QED
  BY <1>1 DEF ReplicateIfBehind, Reply

\* The responses to a leader: its progress stays tracked.
LEMMA StaticResponses ==
    ASSUME TypeInv, TypeInv', LockInv, StaticInv, NEW m \in msgs, role[m.to] = Leader,
           BackOff(m) \/ (\E i \in Nat : RecordMatch(m, i))
    PROVE  StaticInv'
<1> DEFINE n == m.to
<1>1. n \in Node /\ m.from \in Node /\ nextIndex[n] \in [Node -> Nat]
      /\ matchIndex[n] \in [Node -> Nat]
  BY MessageFields DEF TypeInv, TypeOK
<1>2. StaticNode(n) /\ n \in Bootstrap
  BY <1>1 DEF StaticInv, StaticNode, Leader, Follower
<1>3. ReplicateIfBehind(m)
  BY DEF BackOff, RecordMatch
<1>4. CASE BackOff(m)
  <2> DEFINE back == Max({nextIndex[n][m.from] - 1, 1})
  <2>1. /\ nextIndex' = [nextIndex EXCEPT ![n][m.from] = back]
        /\ UNCHANGED <<role, votesGranted, snapshot, log, learners, elected>>
    BY <1>4 DEF BackOff, electionVars
  <2>2. back # 0
    <3> DEFINE less == nextIndex[n][m.from] - 1
    <3>1. less \in Int
      BY <1>1
    <3> HIDE DEF less
    <3>2. Max({less, 1}) \in Nat /\ Max({less, 1}) >= 1
      BY <3>1, MaxIsNat
    <3> QED
      BY <3>2 DEF less
  <2> HIDE DEF back, n
  <2>3. /\ \A p \in Node : nextIndex'[n][p] = IF p = m.from THEN back ELSE nextIndex[n][p]
        /\ \A c \in Node \ {n} : nextIndex'[c] = nextIndex[c]
    BY <1>1, <2>1 DEF TypeInv, TypeOK
  <2>4. Tracked(n) \subseteq Tracked(n)'
    BY <2>2, <2>3 DEF Tracked
  <2>5. StaticNode(n)'
    BY <1>2, <2>1, <2>4 DEF StaticNode
  <2>6. \A x \in msgs' : x \in msgs \/ StaticMsg(x)
    BY <1>1, <1>2, <1>3, <2>5, StaticBehind DEF n
  <2>7. \A c \in Node \ {n} : Idle(c)
    BY <2>1, <2>3 DEF Idle
  <2> QED
    BY <2>1, <2>5, <2>6, <2>7, StaticFrame
<1>5. CASE \E i \in Nat : RecordMatch(m, i)
  <2>1. PICK i \in Nat : RecordMatch(m, i)
    BY <1>5
  <2> DEFINE match == Max({matchIndex[n][m.from], i})
             active == [config |-> currentConfig[n], index |-> currentConfigIndex[n]]
             next == [nextIndex[n] EXCEPT ![m.from] = match + 1]
             seen == [matchIndex[n] EXCEPT ![m.from] = match]
  <2>2. LeaderAdvance(n, log[n], active, next, seen, disk[n]) /\ learners' = learners
    BY <2>1 DEF RecordMatch
  <2>3. match + 1 # 0
    <3> DEFINE old == matchIndex[n][m.from]
    <3>1. old \in Int
      BY <1>1
    <3> HIDE DEF old
    <3>2. Max({old, i}) \in Nat
      BY <3>1, MaxIsNat
    <3>3. match \in Nat
      BY <3>2 DEF old
    <3> HIDE DEF match
    <3> QED
      BY <3>3
  <2> HIDE DEF match
  <2>4. \A p \in Tracked(n) : next[p] # 0
    BY <1>1, <2>3 DEF Tracked
  <2>5. active.config = Genesis
    BY <1>1, <1>2, ConfigIsKnown
  <2>6. log[n] \in Seq(Entry) /\ NoConfigurations(log[n])
    BY <1>1, <1>2 DEF StaticNode, TypeInv, TypeOK
  <2> HIDE DEF n, active, next, seen
  <2>7. StaticNode(n)' /\ elected' = elected /\ \A c \in Node \ {n} : Idle(c)
    <3>1. role[n] = Leader
      BY DEF n
    <3> QED
      BY <1>1, <2>2, <2>4, <2>5, <2>6, <3>1, StaticLeaderAdvance
  <2>8. \A x \in msgs' : x \in msgs \/ StaticMsg(x)
    BY <1>1, <1>2, <1>3, <2>7, StaticBehind DEF n
  <2> QED
    BY <2>7, <2>8, StaticFrame
<1> QED
  BY <1>4, <1>5

\* A snapshot brings the genesis configuration.
LEMMA StaticOnInstallSnapshot ==
    ASSUME TypeInv, StaticInv, NEW m \in msgs, OnInstallSnapshot(m)
    PROVE  StaticInv'
<1> DEFINE n == m.to
<1>1. n \in Node /\ m.term \in Nat /\ m.type = "InstallSnapshot"
  BY MessageFields DEF OnInstallSnapshot, TypeInv, TypeOK
<1>2. m.snapshot.config = Genesis /\ StaticNode(n)
  BY <1>1 DEF StaticInv, StaticMsg
<1>3. PICK t, i : msgs' = (msgs \ {m}) \cup {InstallSnapshotResponse(n, m.from, t, i)}
  BY DEF OnInstallSnapshot, RefuseSnapshot, AcceptSnapshot, Reply
<1>4. \A x \in msgs' : x \in msgs \/ StaticMsg(x)
  BY <1>3, StaticOthers
<1>5. CASE RefuseSnapshot(m)
  BY <1>4, <1>5, StaticQuiet DEF RefuseSnapshot, electionVars, leaderVars
<1>6. CASE AcceptSnapshot(m)
  <2>1. /\ ObserveLeader(n, m.term) /\ UNCHANGED <<learners, elected>>
        /\ KeepLog(m) \/ ReplaceLog(m)
    BY <1>6 DEF AcceptSnapshot
  <2>2. CASE KeepLog(m)
    BY <1>1, <1>4, <2>1, <2>2, StaticStepDown DEF KeepLog
  <2>3. CASE ReplaceLog(m)
    <3>1. /\ log' = [log EXCEPT ![n] = <<>>]
          /\ snapshot' = [snapshot EXCEPT ![n] = m.snapshot]
      BY <2>3 DEF ReplaceLog
    <3> HIDE DEF n
    <3>2. /\ log'[n] = <<>> /\ snapshot'[n] = m.snapshot
          /\ \A c \in Node \ {n} : log'[c] = log[c] /\ snapshot'[c] = snapshot[c]
      BY <1>1, <3>1 DEF TypeInv, TypeOK
    <3>3. \A c \in Node : /\ role'[c] \in {role[c], Follower}
                          /\ votesGranted'[c] \in {votesGranted[c], {}}
                          /\ role'[c] = Leader => nextIndex'[c] = nextIndex[c]
      <4>1. CASE StepDown(n, m.term)
        BY <1>1, <4>1 DEF StepDown, TypeInv, TypeOK, Follower, Leader
      <4>2. CASE ~ StepDown(n, m.term)
        BY <1>1, <2>1, <4>2 DEF ObserveLeader, leaderVars, TypeInv, TypeOK
      <4> QED
        BY <4>1, <4>2
    <3>4. NoConfigurations(log'[n])
      BY <3>2 DEF NoConfigurations
    <3>5. StaticNode(n)'
      BY <1>1, <1>2, <2>1, <3>2, <3>3, <3>4
         DEF StaticNode, Known, Tracked, Follower, Leader
    <3>6. \A c \in Node \ {n} : Idle(c)
      BY <2>1, <3>2, <3>3 DEF Idle
    <3> QED
      BY <1>4, <2>1, <3>5, <3>6, StaticFrame
  <2> QED
    BY <2>1, <2>2, <2>3
<1> QED
  BY <1>5, <1>6 DEF OnInstallSnapshot

-----------------------------------------------------------------------------
(* The theorems *)

\* No step of a cluster whose voters are never changed escapes StaticInv.
LEMMA StaticInductive ==
    ASSUME Static
    PROVE  TypeInv /\ LockInv /\ StaticInv /\ [Next]_vars => StaticInv'
<1> SUFFICES ASSUME TypeInv, LockInv, StaticInv, [Next]_vars PROVE StaticInv'
  OBVIOUS
<1>0. TypeInv'
  BY NextType
<1>m. \A m \in msgs : /\ m.type = "AppendEntriesResponse" => m.matchIndex \in Nat
                      /\ m.type = "InstallSnapshotResponse" => m.lastIncludedIndex \in Nat
  BY MessageFields DEF TypeInv, TypeOK
<1>1. ASSUME NEW n \in Node, StartElection(n) PROVE StaticInv'
  BY <1>0, <1>1, StaticStartElection
<1>2. ASSUME NEW n \in Node, Heartbeat(n) PROVE StaticInv'
  <2>1. /\ role[n] = Leader
        /\ UNCHANGED <<snapshot, log, learners, elected, role, votesGranted, nextIndex>>
        /\ msgs' = msgs \cup {ReplicateTo(n, p) : p \in ReplicationTargets(n)}
    BY <1>2 DEF Heartbeat, Send, electionVars, leaderVars
  <2>2. /\ StaticNode(n) /\ n \in Bootstrap /\ snapshot[n].config = Genesis
        /\ NoConfigurations(log[n])
    BY <2>1 DEF StaticInv, StaticNode, Known, Leader, Follower
  <2>3. /\ log[n] \in Seq(Entry) /\ snapshot[n] \in Snapshot
        /\ nextIndex[n] \in [Node -> Nat] /\ ReplicationTargets(n) \subseteq Node
    BY DEF TypeInv, TypeOK, ReplicationTargets, Config
  <2>4. \A p \in Node : StaticMsg(ReplicateTo(n, p))
    BY <2>2, <2>3, StaticReplication DEF ReplicateTo
  <2>5. \A x \in msgs' : x \in msgs \/ StaticMsg(x)
    BY <2>1, <2>3, <2>4
  <2> QED
    BY <2>1, <2>5, StaticQuiet
<1>3. ASSUME NEW n \in Crashable, Restart(n) PROVE StaticInv'
  BY <1>3, StaticRestart, BootstrapAssumption DEF Static
<1>4. ASSUME NEW n \in Node, NEW c \in Command, Propose(n, c) PROVE StaticInv'
  BY <1>4, StaticPropose
<1>5. ASSUME NEW n \in Node, NEW id \in Node, AddLearner(n, id) \/ RemoveLearner(n, id)
      PROVE  StaticInv'
  BY <1>5, StaticLearner
<1>6. ASSUME NEW n \in Node, NEW i \in CompactPoints, NEW d \in SnapshotData,
             Compact(n, i, d)
      PROVE  StaticInv'
  BY <1>6, StaticCompact, InputAssumption
<1>7. ASSUME NEW m \in msgs, Lose(m) PROVE StaticInv'
  BY <1>7, StaticQuiet DEF Lose, electionVars, leaderVars
<1>8. ASSUME NEW m \in msgs, OnRequestVote(m) PROVE StaticInv'
  BY <1>8, StaticOnRequestVote
<1>9. ASSUME NEW m \in msgs, OnRequestVoteResponse(m) PROVE StaticInv'
  BY <1>0, <1>9, StaticAdoptTerm, StaticCountVote DEF OnRequestVoteResponse
<1>10. ASSUME NEW m \in msgs, OnAppendEntries(m) PROVE StaticInv'
  BY <1>10, StaticOnAppendEntries
<1>11. ASSUME NEW m \in msgs, OnAppendEntriesResponse(m) PROVE StaticInv'
  <2>1. CASE AdoptTerm(m)
    BY <2>1, StaticAdoptTerm
  <2>2. CASE ~ AdoptTerm(m)
    <3>1. /\ role[m.to] = Leader /\ m.matchIndex \in Nat
          /\ RecordMatch(m, m.matchIndex) \/ BackOff(m)
      BY <1>m, <1>11, <2>2 DEF OnAppendEntriesResponse
    <3> QED
      BY <1>0, <3>1, StaticResponses
  <2> QED
    BY <2>1, <2>2
<1>12. ASSUME NEW m \in msgs, OnInstallSnapshot(m) PROVE StaticInv'
  BY <1>12, StaticOnInstallSnapshot
<1>13. ASSUME NEW m \in msgs, OnInstallSnapshotResponse(m) PROVE StaticInv'
  BY <1>0, <1>m, <1>13, StaticAdoptTerm, StaticResponses DEF OnInstallSnapshotResponse
<1>14. ASSUME NEW n \in Node, NEW S \in VoterSets, ProposeConfigChange(n, S)
       PROVE  StaticInv'
  BY <1>14 DEF Static
<1>15. CASE UNCHANGED vars
  BY <1>15, StaticQuiet DEF vars, electionVars, leaderVars
<1> QED
  BY <1>1, <1>2, <1>3, <1>4, <1>5, <1>6, <1>7, <1>8, <1>9, <1>10, <1>11, <1>12, <1>13,
     <1>14, <1>15 DEF Next, Step

\* Two majorities of one finite set have a member in common.
LEMMA MajoritiesMeet ==
    ASSUME NEW S, IsFiniteSet(S), NEW Q \in SUBSET S, NEW R \in SUBSET S,
           Cardinality(Q) >= QuorumSize(S), Cardinality(R) >= QuorumSize(S)
    PROVE  \E v \in Q : v \in R
<1> DEFINE s == Cardinality(S)
           q == Cardinality(Q)
           r == Cardinality(R)
<1>1. s \in Nat /\ q \in Nat /\ r \in Nat /\ q >= s \div 2 + 1 /\ r >= s \div 2 + 1
  BY FS_Subset, FS_CardinalityType DEF QuorumSize
<1>2. q + r > s
  <2> HIDE DEF s, q, r
  <2> QED
    BY <1>1
<1> QED
  BY <1>2, FS_MajoritiesIntersect

\* While the voters are never changed no term is ever won twice, over any
\* sequence of crashes, compactions, snapshot installs and changes of learners.
\* (After a change of voters it can be: see has_quorum and the run on mixed
\* quorums.)
THEOREM OneLeaderPerTerm == ASSUME Static PROVE Spec => []ElectionSafety
<1>1. TypeInv /\ VoteInv /\ StaticInv => ElectionSafety
  <2> SUFFICES ASSUME TypeInv, VoteInv, StaticInv, NEW e \in elected, NEW f \in elected,
                      e.term = f.term
               PROVE  e.leader = f.leader
    BY DEF ElectionSafety
  <2>1. /\ e.votes \subseteq Bootstrap /\ Cardinality(e.votes) >= QuorumSize(Bootstrap)
        /\ f.votes \subseteq Bootstrap /\ Cardinality(f.votes) >= QuorumSize(Bootstrap)
    BY DEF StaticInv, StaticWin, HasQuorum, Genesis, Stable
  <2>2. IsFiniteSet(Bootstrap)
    BY BootstrapAssumption, NodeAssumption, FS_Subset
  <2>3. PICK v \in e.votes : v \in f.votes
    BY <2>1, <2>2, MajoritiesMeet
  <2>4. v \in Node /\ e.leader \in Node /\ f.leader \in Node /\ e.term \in Nat
    BY <2>1, BootstrapAssumption DEF TypeInv, TypeOK
  <2>5. Voted(v, e.leader, e.term) /\ Voted(v, f.leader, e.term)
    BY <2>3 DEF Voted
  <2> QED
    BY <2>4, <2>5 DEF VoteInv, VotesAgree
<1> QED
  BY <1>1, InitType, NextType, InitVotes, VoteInductive, InitLocked, LockInductive,
     InitStatic, StaticInductive, PTL DEF Spec

\* While the voters are never changed no expect in replicate_to or in the
\* response handlers fires: every peer a leader replicates to is tracked.
THEOREM PeersAreTracked == ASSUME Static PROVE Spec => []TargetsTracked
<1>1. LockInv /\ StaticInv => TargetsTracked
  <2> SUFFICES ASSUME LockInv, StaticInv, NEW n \in Node, role[n] = Leader
               PROVE  ReplicationTargets(n) \subseteq Tracked(n)
    BY DEF TargetsTracked
  <2>1. currentConfig[n].oldVoters = {} /\ currentConfig[n].voters \subseteq Bootstrap
    BY ConfigIsKnown
  <2>2. StaticNode(n)
    BY DEF StaticInv
  <2> QED
    BY <2>1, <2>2 DEF StaticNode, ReplicationTargets
<1> QED
  BY <1>1, InitType, NextType, InitLocked, LockInductive, InitStatic, StaticInductive, PTL
     DEF Spec

=============================================================================
