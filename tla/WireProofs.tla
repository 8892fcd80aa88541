------------------------------ MODULE WireProofs ------------------------------
(***************************************************************************)
(* Replicas that compact, install snapshots and change their voters.  A    *)
(* replica drives its node through Raft's steps and no others, whatever it *)
(* does with its snapshots, and nothing its node sends, answers or         *)
(* persists changes on its way.                                            *)
(***************************************************************************)
EXTENDS Wire, ReplicaProofs

-----------------------------------------------------------------------------
(* Protobuf messages *)

\* What is left out when it has its default value is put back.
LEMMA FieldsReturn ==
    ASSUME NEW m, NEW default, m = [f \in DOMAIN m |-> m[f]], DOMAIN default = DOMAIN m
    PROVE  Parsed(Serialized(m, default), default) = m
<1> DEFINE sent == Serialized(m, default)
<1>1. sent = [f \in {x \in DOMAIN m : m[x] # default[x]} |-> m[f]]
  BY DEF Serialized, Restrict
<1> HIDE DEF sent
<1>2. DOMAIN sent = {x \in DOMAIN m : m[x] # default[x]}
  BY <1>1
<1>3. DOMAIN sent \cup DOMAIN default = DOMAIN m
  BY <1>2
<1>4. \A f \in DOMAIN m : (IF f \in DOMAIN sent THEN sent[f] ELSE default[f]) = m[f]
  BY <1>1, <1>2
<1>5. Parsed(sent, default) = [f \in DOMAIN m |-> m[f]]
  BY <1>3, <1>4 DEF Parsed
<1> QED
  BY <1>5 DEF sent

\* A configuration is read as it was written, the joint one and the one whose
\* old_voters are None.
LEMMA ConfigurationReturns ==
    ASSUME NEW c \in Config
    PROVE  ConfigurationFromProto(ConfigurationToProto(c)) = c
<1> DEFINE fields == [voters |-> c.voters, oldVoters |-> c.oldVoters]
<1>1. c = fields
  BY DEF Config
<1>2. Parsed(Serialized(fields, ConfigurationFields), ConfigurationFields) = fields
  BY FieldsReturn DEF ConfigurationFields
<1>3. Parsed(ConfigurationToProto(c), ConfigurationFields) = c
  BY <1>1, <1>2 DEF ConfigurationToProto
<1> HIDE DEF fields
<1>4. c.oldVoters = {} => c = Stable(c.voters)
  BY <1>1 DEF Stable, fields
<1>5. c = [voters |-> c.voters, oldVoters |-> c.oldVoters]
  BY <1>1 DEF fields
<1> QED
  BY <1>3, <1>4, <1>5 DEF ConfigurationFromProto

\* An entry, a command's or a configuration's.
LEMMA EntryReturns ==
    ASSUME NEW e \in Entry
    PROVE  LogEntryFromProto(LogEntryToProto(e)) = Some(e)
<1> DEFINE body == IF e.payload.type = "Command"
                   THEN Some([command |-> e.payload.command])
                   ELSE Some([configuration |-> ConfigurationToProto(e.payload.config)])
           fields == [term |-> e.term, payload |-> body]
<1>1. e = [term |-> e.term, payload |-> e.payload] /\ e.payload \in Payload
  BY DEF Entry
<1> HIDE DEF body
<1>2. Parsed(Serialized(fields, LogEntryFields), LogEntryFields) = fields
  BY FieldsReturn DEF LogEntryFields
<1>3. Parsed(LogEntryToProto(e), LogEntryFields) = fields
  BY <1>2 DEF LogEntryToProto, body
<1>4. CASE e.payload.type = "Command"
  <2>1. e.payload = CommandPayload(e.payload.command)
    BY <1>1, <1>4 DEF Payload, CommandPayload
  <2>2. body = Some([command |-> e.payload.command])
    BY <1>4 DEF body
  <2>3. /\ body # None /\ "command" \in DOMAIN body[1] /\ body[1].command = e.payload.command
    BY <2>2 DEF Some, None
  <2>4. LogEntryFromProto(LogEntryToProto(e))
           = Some([term |-> e.term, payload |-> CommandPayload(e.payload.command)])
    BY <1>3, <2>3 DEF LogEntryFromProto
  <2> QED
    BY <1>1, <2>1, <2>4
<1>5. CASE e.payload.type # "Command"
  <2>1. e.payload = ConfigurationPayload(e.payload.config) /\ e.payload.config \in Config
    BY <1>1, <1>5 DEF Payload, ConfigurationPayload
  <2>2. body = Some([configuration |-> ConfigurationToProto(e.payload.config)])
    BY <1>5 DEF body
  <2>3. /\ body # None /\ "command" \notin DOMAIN body[1]
        /\ body[1].configuration = ConfigurationToProto(e.payload.config)
    BY <2>2 DEF Some, None
  <2>4. LogEntryFromProto(LogEntryToProto(e))
           = Some([term |-> e.term,
                   payload |-> ConfigurationPayload(
                                  ConfigurationFromProto(ConfigurationToProto(e.payload.config)))])
    BY <1>3, <2>3 DEF LogEntryFromProto
  <2> QED
    BY <1>1, <2>1, <2>4, ConfigurationReturns
<1> QED
  BY <1>4, <1>5

\* A list of entries.
LEMMA LogReturns ==
    ASSUME NEW lg \in Seq(Entry)
    PROVE  LogFromProto(LogToProto(lg)) = Some(lg)
<1> DEFINE ps == LogToProto(lg)
           es == [i \in DOMAIN ps |-> LogEntryFromProto(ps[i])]
<1>1. ps = [i \in DOMAIN lg |-> LogEntryToProto(lg[i])]
  BY DEF LogToProto
<1> HIDE DEF ps
<1>2. DOMAIN ps = DOMAIN lg /\ \A i \in DOMAIN lg : ps[i] = LogEntryToProto(lg[i])
  BY <1>1
<1>3. \A i \in DOMAIN lg : LogEntryFromProto(ps[i]) = Some(lg[i])
  <2> SUFFICES ASSUME NEW i \in DOMAIN lg PROVE LogEntryFromProto(ps[i]) = Some(lg[i])
    OBVIOUS
  <2>1. lg[i] \in Entry
    OBVIOUS
  <2> QED
    BY <1>2, <2>1, EntryReturns
<1>4. DOMAIN es = DOMAIN lg /\ \A i \in DOMAIN lg : es[i] = Some(lg[i])
  BY <1>2, <1>3
<1>5. LogFromProto(ps) = IF \E i \in DOMAIN es : es[i] = None THEN None
                         ELSE Some([i \in DOMAIN es |-> es[i][1]])
  BY DEF LogFromProto
<1> HIDE DEF es
<1>6. \A i \in DOMAIN lg : es[i] # None /\ es[i][1] = lg[i]
  BY <1>4 DEF Some, None
<1>7. LogFromProto(ps) = Some([i \in DOMAIN lg |-> lg[i]])
  BY <1>4, <1>5, <1>6
<1>8. lg = [i \in DOMAIN lg |-> lg[i]]
  OBVIOUS
<1> QED
  BY <1>7, <1>8 DEF ps

-----------------------------------------------------------------------------
(* Snapshots *)

\* A snapshot has bytes, if only the empty string, when it stands for something.
Marked(s) == s.index = 0 <=> s.data = Nil

\* What is sent of a snapshot, or written of it, is enough to have it back: that
\* there is none is told by its index, not by its bytes.
LEMMA SnapshotReturns ==
    ASSUME NEW s \in Snapshot, Marked(s)
    PROVE  SnapshotOf(s.index, s.term, SnapshotBytesOf(s),
                      ConfigurationOrDefault(Some(ConfigurationToProto(s.config)))) = s
<1>1. s = [index |-> s.index, term |-> s.term, data |-> s.data, config |-> s.config]
      /\ s.config \in Config
  BY DEF Snapshot
<1>2. ConfigurationOrDefault(Some(ConfigurationToProto(s.config))) = s.config
  BY <1>1, ConfigurationReturns DEF ConfigurationOrDefault, Some, None
<1>3. (IF s.index = 0 THEN Nil ELSE SnapshotBytesOf(s)) = s.data
  BY DEF Marked, SnapshotBytesOf
<1> QED
  BY <1>1, <1>2, <1>3 DEF SnapshotOf

-----------------------------------------------------------------------------
(* Messages, files and answers *)

\* A peer reads the message that was sent to it.
LEMMA MessageReturns ==
    ASSUME NEW m \in Message, m.type = "InstallSnapshot" => Marked(m.snapshot)
    PROVE  Received(m) = Some(m)
<1>1. CASE m \in [type : {"RequestVote"}, from : Node, to : Node, term : Nat,
                  lastLogIndex : Nat, lastLogTerm : Nat]
  <2> DEFINE fields == [term |-> m.term, candidateId |-> m.from,
                        lastLogIndex |-> m.lastLogIndex, lastLogTerm |-> m.lastLogTerm]
  <2>1. Parsed(Serialized(fields, RequestVoteFields), RequestVoteFields) = fields
    BY FieldsReturn DEF RequestVoteFields
  <2>2. Parsed(RequestVoteToProto(m), RequestVoteFields) = fields
    BY <2>1 DEF RequestVoteToProto
  <2>3. m = [type |-> "RequestVote", from |-> m.from, to |-> m.to, term |-> m.term,
             lastLogIndex |-> m.lastLogIndex, lastLogTerm |-> m.lastLogTerm]
    BY <1>1
  <2>4. RequestVoteFromProto(RequestVoteToProto(m), m.to) = Some(m)
    BY <2>2, <2>3 DEF RequestVoteFromProto
  <2> QED
    BY <1>1, <2>4 DEF Received
<1>2. CASE m \in [type : {"RequestVoteResponse"}, from : Node, to : Node, term : Nat,
                  granted : BOOLEAN]
  <2> DEFINE fields == [term |-> m.term, granted |-> m.granted]
  <2>1. Parsed(Serialized(fields, RequestVoteReplyFields), RequestVoteReplyFields) = fields
    BY FieldsReturn DEF RequestVoteReplyFields
  <2>2. Parsed(RequestVoteResponseToProto(m), RequestVoteReplyFields) = fields
    BY <2>1 DEF RequestVoteResponseToProto
  <2>3. m = RequestVoteResponse(m.from, m.to, m.term, m.granted)
    BY <1>2 DEF RequestVoteResponse
  <2>4. RequestVoteResponseFromProto(RequestVoteResponseToProto(m), m.from, m.to) = Some(m)
    BY <2>2, <2>3 DEF RequestVoteResponseFromProto
  <2> QED
    BY <1>2, <2>4 DEF Received
<1>3. CASE m \in [type : {"AppendEntries"}, from : Node, to : Node, term : Nat,
                  prevLogIndex : Nat, prevLogTerm : Nat, entries : Seq(Entry),
                  leaderCommit : Nat]
  <2> DEFINE fields == [term |-> m.term, leaderId |-> m.from, prevLogIndex |-> m.prevLogIndex,
                        prevLogTerm |-> m.prevLogTerm, entries |-> LogToProto(m.entries),
                        leaderCommit |-> m.leaderCommit]
  <2>1. Parsed(Serialized(fields, AppendEntriesFields), AppendEntriesFields) = fields
    BY FieldsReturn DEF AppendEntriesFields
  <2>2. Parsed(AppendEntriesToProto(m), AppendEntriesFields) = fields
    BY <2>1 DEF AppendEntriesToProto
  <2>3. m = [type |-> "AppendEntries", from |-> m.from, to |-> m.to, term |-> m.term,
             prevLogIndex |-> m.prevLogIndex, prevLogTerm |-> m.prevLogTerm,
             entries |-> m.entries, leaderCommit |-> m.leaderCommit]
    BY <1>3
  <2>4. LogFromProto(LogToProto(m.entries)) = Some(m.entries)
    BY <1>3, LogReturns
  <2>5. /\ LogFromProto(LogToProto(m.entries)) # None
        /\ LogFromProto(LogToProto(m.entries))[1] = m.entries
    BY <2>4 DEF Some, None
  <2>6. AppendEntriesFromProto(AppendEntriesToProto(m), m.to) = Some(m)
    BY <2>2, <2>3, <2>5 DEF AppendEntriesFromProto
  <2> QED
    BY <1>3, <2>6 DEF Received
<1>4. CASE m \in [type : {"AppendEntriesResponse"}, from : Node, to : Node, term : Nat,
                  success : BOOLEAN, matchIndex : Nat]
  <2> DEFINE fields == [term |-> m.term, success |-> m.success, matchIndex |-> m.matchIndex]
  <2>1. Parsed(Serialized(fields, AppendEntriesReplyFields), AppendEntriesReplyFields) = fields
    BY FieldsReturn DEF AppendEntriesReplyFields
  <2>2. Parsed(AppendEntriesResponseToProto(m), AppendEntriesReplyFields) = fields
    BY <2>1 DEF AppendEntriesResponseToProto
  <2>3. m = AppendEntriesResponse(m.from, m.to, m.term, m.success, m.matchIndex)
    BY <1>4 DEF AppendEntriesResponse
  <2>4. AppendEntriesResponseFromProto(AppendEntriesResponseToProto(m), m.from, m.to) = Some(m)
    BY <2>2, <2>3 DEF AppendEntriesResponseFromProto
  <2> QED
    BY <1>4, <2>4 DEF Received
<1>5. CASE m \in [type : {"InstallSnapshot"}, from : Node, to : Node, term : Nat,
                  snapshot : Snapshot]
  <2> DEFINE s == m.snapshot
             fields == [term |-> m.term, leaderId |-> m.from,
                        lastIncludedIndex |-> s.index, lastIncludedTerm |-> s.term,
                        data |-> SnapshotBytesOf(s), config |-> Some(ConfigurationToProto(s.config))]
  <2>1. Parsed(Serialized(fields, InstallSnapshotFields), InstallSnapshotFields) = fields
    BY FieldsReturn DEF InstallSnapshotFields
  <2>2. Parsed(InstallSnapshotToProto(m), InstallSnapshotFields) = fields
    BY <2>1 DEF InstallSnapshotToProto
  <2>3. m = [type |-> "InstallSnapshot", from |-> m.from, to |-> m.to, term |-> m.term,
             snapshot |-> s]
    BY <1>5
  <2>4. SnapshotOf(s.index, s.term, SnapshotBytesOf(s),
                   ConfigurationOrDefault(Some(ConfigurationToProto(s.config)))) = s
    BY <1>5, SnapshotReturns
  <2>5. InstallSnapshotFromProto(InstallSnapshotToProto(m), m.to) = Some(m)
    BY <2>2, <2>3, <2>4 DEF InstallSnapshotFromProto
  <2> QED
    BY <1>5, <2>5 DEF Received
<1>6. CASE m \in [type : {"InstallSnapshotResponse"}, from : Node, to : Node, term : Nat,
                  lastIncludedIndex : Nat]
  <2> DEFINE fields == [term |-> m.term, lastIncludedIndex |-> m.lastIncludedIndex]
  <2>1. Parsed(Serialized(fields, InstallSnapshotReplyFields), InstallSnapshotReplyFields) = fields
    BY FieldsReturn DEF InstallSnapshotReplyFields
  <2>2. Parsed(InstallSnapshotResponseToProto(m), InstallSnapshotReplyFields) = fields
    BY <2>1 DEF InstallSnapshotResponseToProto
  <2>3. m = InstallSnapshotResponse(m.from, m.to, m.term, m.lastIncludedIndex)
    BY <1>6 DEF InstallSnapshotResponse
  <2>4. InstallSnapshotResponseFromProto(InstallSnapshotResponseToProto(m), m.from, m.to) = Some(m)
    BY <2>2, <2>3 DEF InstallSnapshotResponseFromProto
  <2> QED
    BY <1>6, <2>4 DEF Received
<1> QED
  BY <1>1, <1>2, <1>3, <1>4, <1>5, <1>6 DEF Message

\* A restart opens the file as it was flushed.
LEMMA DiskReturns ==
    ASSUME NEW d \in Durable, Marked(d.snapshot)
    PROVE  Opened(FileOf(d)) = Some(d)
<1> DEFINE s == d.snapshot
           vote == IF d.votedFor = Nil THEN None ELSE Some(d.votedFor)
           fields == [currentTerm |-> d.term, votedFor |-> vote, log |-> LogToProto(d.log),
                      lastIncludedIndex |-> s.index, lastIncludedTerm |-> s.term,
                      data |-> SnapshotBytesOf(s), learners |-> d.learners,
                      config |-> Some(ConfigurationToProto(s.config))]
<1>1. /\ d = [term |-> d.term, votedFor |-> d.votedFor, log |-> d.log, snapshot |-> s,
              learners |-> d.learners]
      /\ d.log \in Seq(Entry) /\ s \in Snapshot
  BY DEF Durable
<1>2. (IF vote = None THEN Nil ELSE vote[1]) = d.votedFor
  BY DEF Some, None
<1> HIDE DEF vote
<1>3. Parsed(Serialized(fields, StorageFields), StorageFields) = fields
  BY FieldsReturn DEF StorageFields
<1>4. Parsed(FileOf(d), StorageFields) = fields
  BY <1>3 DEF FileOf, vote
<1>5. LogFromProto(LogToProto(d.log)) = Some(d.log)
  BY <1>1, LogReturns
<1>6. LogFromProto(LogToProto(d.log)) # None /\ LogFromProto(LogToProto(d.log))[1] = d.log
  BY <1>5 DEF Some, None
<1>7. SnapshotOf(s.index, s.term, SnapshotBytesOf(s),
                 ConfigurationOrDefault(Some(ConfigurationToProto(s.config)))) = s
  BY <1>1, SnapshotReturns
<1> QED
  BY <1>1, <1>2, <1>4, <1>6, <1>7 DEF Opened

\* A client is told what the state machine answered; an absent value is not an
\* empty one.
LEMMA AnswerReturns ==
    ASSUME NEW r \in Answer
    PROVE  ApplyResultFromProto(ApplyResultToProto(r)) = Some(r)
<1> DEFINE fields == [value |-> r.value]
           default == [value |-> None]
<1>1. Parsed(Serialized(fields, default), default) = fields
  BY FieldsReturn
<1>2. r = [kind |-> r.kind, value |-> r.value]
  BY DEF Answer
<1>3. /\ ApplyResultToProto(r).kind # None
      /\ ApplyResultToProto(r).kind[1] = [type |-> r.kind, fields |-> Serialized(fields, default)]
  BY DEF ApplyResultToProto, Some, None
<1> QED
  BY <1>1, <1>2, <1>3 DEF ApplyResultFromProto

\* A node is asked what the client asks.
LEMMA CommandReturns ==
    ASSUME NEW c \in Operation
    PROVE  CommandFromProto(CommandToProto(c)) = Some(c)
<1> DEFINE p == CommandToProto(c)
           body == p.kind[1]
<1>1. CASE c.kind = "Set"
  <2> DEFINE fields == [key |-> c.key, value |-> c.value]
             sent == Serialized(fields, [key |-> <<>>, value |-> <<>>])
  <2>1. c = [kind |-> "Set", key |-> c.key, value |-> c.value]
    BY <1>1 DEF Operation
  <2>2. p.kind # None /\ body = [type |-> "Set", fields |-> sent]
    BY <1>1 DEF CommandToProto, Some, None
  <2>3. sent = [f \in {x \in {"key", "value"} : fields[x] # <<>>} |-> fields[f]]
    BY DEF Serialized, Restrict
  <2>4. /\ Parsed(sent, [key |-> <<>>]).key = c.key
        /\ Parsed(sent, [value |-> <<>>]).value = c.value
    BY <2>3 DEF Parsed
  <2> HIDE DEF sent, p
  <2> QED
    BY <2>1, <2>2, <2>4 DEF CommandFromProto, p
<1>2. CASE c.kind # "Set"
  <2> DEFINE fields == [key |-> c.key]
             sent == Serialized(fields, [key |-> <<>>])
  <2>1. c = [kind |-> c.kind, key |-> c.key]
    BY <1>2 DEF Operation
  <2>2. p.kind # None /\ body = [type |-> c.kind, fields |-> sent]
    BY <1>2 DEF CommandToProto, Some, None
  <2>3. Parsed(sent, [key |-> <<>>]) = fields
    BY FieldsReturn
  <2> HIDE DEF sent, p
  <2> QED
    BY <1>2, <2>1, <2>2, <2>3 DEF CommandFromProto, p
<1> QED
  BY <1>1, <1>2

-----------------------------------------------------------------------------
(* Snapshots on their way *)

\* Every snapshot, in a node or in a message, has bytes if it stands for something.
SnapshotsMarked ==
    /\ \A n \in Node : Marked(snapshot[n])
    /\ \A m \in msgs : m.type = "InstallSnapshot" => Marked(m.snapshot)

\* What is sent carries the sender's snapshot, or none.
Plainly(m) == m.type # "InstallSnapshot"
Offers(m, n) == Plainly(m) \/ m.snapshot = snapshot[n]

\* replicate_to, before a step and after it.
LEMMA ReplicateOffers ==
    ASSUME NEW n, NEW p
    PROVE  Offers(ReplicateTo(n, p), n) /\ Offers(ReplicateTo(n, p), n)'
<1>1. Offers(ReplicateTo(n, p), n)
  BY DEF Offers, Plainly, ReplicateTo, Replication
<1>2. Offers(ReplicateTo(n, p), n)'
  BY DEF Offers, Plainly, ReplicateTo, Replication
<1> QED
  BY <1>1, <1>2

\* A step that leaves every snapshot alone and sends nothing but its node's own.
LEMMA SentMarked ==
    ASSUME SnapshotsMarked, snapshot' = snapshot, NEW n \in Node, NEW sent,
           msgs' \subseteq msgs \cup sent, \A x \in sent : Plainly(x) \/ x.snapshot = snapshot[n]
    PROVE  SnapshotsMarked'
<1>1. \A k \in Node : Marked(snapshot'[k])
  BY DEF SnapshotsMarked
<1>2. ASSUME NEW x \in msgs', x.type = "InstallSnapshot" PROVE Marked(x.snapshot)
  BY <1>2 DEF SnapshotsMarked, Plainly
<1> QED
  BY <1>1, <1>2 DEF SnapshotsMarked, Marked

\* Replies carry no snapshot.
LEMMA RepliesPlain ==
    \A n, p, t, b, i : /\ Plainly(RequestVoteResponse(n, p, t, b))
                       /\ Plainly(AppendEntriesResponse(n, p, t, b, i))
                       /\ Plainly(InstallSnapshotResponse(n, p, t, i))
  BY DEF Plainly, RequestVoteResponse, AppendEntriesResponse, InstallSnapshotResponse

\* The calls of a node's owner, but for compact, and its timers.
LEMMA OwnerMarked ==
    ASSUME SnapshotsMarked, NEW n \in Node,
           \/ StartElection(n) \/ Heartbeat(n)
           \/ \E c \in Command : Propose(n, c)
           \/ \E S \in VoterSets : ProposeConfigChange(n, S)
           \/ \E id \in Node : AddLearner(n, id) \/ RemoveLearner(n, id)
    PROVE  SnapshotsMarked'
<1>1. CASE StartElection(n)
  <2> DEFINE sent == IF HasQuorum(currentConfig[n], {n})
                     THEN {ReplicateTo(n, p)' : p \in ReplicationTargets(n)}
                     ELSE {RequestVote(n, p)' : p \in currentConfig[n].voters \ {n}}
  <2>1. snapshot' = snapshot /\ msgs' = msgs \cup sent
    BY <1>1 DEF StartElection, Send
  <2>2. \A p : Offers(ReplicateTo(n, p), n)'
    BY ReplicateOffers
  <2>3. \A p : Plainly(RequestVote(n, p)')
    BY DEF RequestVote, Plainly
  <2>4. \A x \in sent : Plainly(x) \/ x.snapshot = snapshot[n]
    BY <2>1, <2>2, <2>3 DEF Offers, Plainly
  <2> HIDE DEF sent
  <2> QED
    BY <2>1, <2>4, SentMarked
<1>2. CASE Heartbeat(n)
  <2> DEFINE sent == {ReplicateTo(n, p) : p \in ReplicationTargets(n)}
  <2>1. snapshot' = snapshot /\ msgs' = msgs \cup sent
    BY <1>2 DEF Heartbeat, Send
  <2>2. \A p : Offers(ReplicateTo(n, p), n)
    BY ReplicateOffers
  <2>3. \A x \in sent : Plainly(x) \/ x.snapshot = snapshot[n]
    BY <2>2 DEF Offers
  <2> HIDE DEF sent
  <2> QED
    BY <2>1, <2>3, SentMarked
<1>3. CASE \/ \E c \in Command : Propose(n, c)
           \/ \E S \in VoterSets : ProposeConfigChange(n, S)
           \/ \E id \in Node : AddLearner(n, id) \/ RemoveLearner(n, id)
  <2>1. snapshot' = snapshot /\ msgs' = msgs
    BY <1>3 DEF Propose, ProposeConfigChange, AppendAndAdvance, LeaderAdvance, AddLearner,
                RemoveLearner, SetLearners
  <2>2. PICK sent : sent = {}
    OBVIOUS
  <2>3. msgs' \subseteq msgs \cup sent /\ \A x \in sent : Plainly(x) \/ x.snapshot = snapshot[n]
    BY <2>1, <2>2
  <2> QED
    BY <2>1, <2>3, SentMarked
<1> QED
  BY <1>1, <1>2, <1>3

\* A peer's message, but for a snapshot that is installed.
LEMMA PeerMarked ==
    ASSUME SnapshotsMarked, NEW m \in msgs, m.to \in Node,
           \/ OnRequestVote(m) \/ OnRequestVoteResponse(m)
           \/ OnAppendEntries(m) \/ OnAppendEntriesResponse(m)
           \/ RefuseSnapshot(m) \/ OnInstallSnapshotResponse(m)
    PROVE  SnapshotsMarked'
<1> DEFINE n == m.to
<1>1. ASSUME NEW sent, snapshot' = snapshot, Reply(m, sent),
             \A x \in sent : Plainly(x) \/ x.snapshot = snapshot[n]
      PROVE  SnapshotsMarked'
  <2>1. msgs' \subseteq msgs \cup sent
    BY <1>1 DEF Reply
  <2> QED
    BY <1>1, <2>1, SentMarked
<1>2. CASE OnRequestVote(m)
  <2>1. snapshot' = snapshot
    BY <1>2 DEF OnRequestVote, DisregardRequestVote, AnswerRequestVote
  <2>2. \E t, b : Reply(m, {RequestVoteResponse(n, m.from, t, b)})
    BY <1>2 DEF OnRequestVote, DisregardRequestVote, AnswerRequestVote
  <2> QED
    BY <1>1, <2>1, <2>2, RepliesPlain
<1>3. CASE AdoptTerm(m)
  BY <1>1, <1>3 DEF AdoptTerm
<1>4. CASE CountVote(m)
  <2> DEFINE sent == IF HasQuorum(currentConfig[n], votesGranted[n] \cup {m.from})
                     THEN {ReplicateTo(n, p)' : p \in ReplicationTargets(n)} ELSE {}
  <2>1. snapshot' = snapshot /\ Reply(m, sent)
    BY <1>4 DEF CountVote
  <2>2. \A p : Offers(ReplicateTo(n, p), n)'
    BY ReplicateOffers
  <2>3. \A x \in sent : Plainly(x) \/ x.snapshot = snapshot[n]
    BY <2>1, <2>2 DEF Offers, Plainly
  <2> HIDE DEF sent
  <2> QED
    BY <1>1, <2>1, <2>3
<1>5. CASE OnAppendEntries(m)
  <2>1. snapshot' = snapshot
    BY <1>5 DEF OnAppendEntries, RejectAppendEntries, AcceptAppendEntries
  <2>2. \E t, b, i : Reply(m, {AppendEntriesResponse(n, m.from, t, b, i)})
    BY <1>5 DEF OnAppendEntries, RejectAppendEntries, AcceptAppendEntries
  <2> QED
    BY <1>1, <2>1, <2>2, RepliesPlain
<1>6. CASE ReplicateIfBehind(m) /\ snapshot' = snapshot
  <2>1. PICK sent : Reply(m, sent) /\ sent \subseteq {ReplicateTo(n, m.from)'}
    BY <1>6 DEF ReplicateIfBehind
  <2>2. Offers(ReplicateTo(n, m.from), n)'
    BY ReplicateOffers
  <2>3. \A x \in sent : Plainly(x) \/ x.snapshot = snapshot[n]
    BY <1>6, <2>1, <2>2 DEF Offers, Plainly
  <2> QED
    BY <1>1, <1>6, <2>1, <2>3
<1>7. ASSUME NEW i, RecordMatch(m, i) PROVE SnapshotsMarked'
  BY <1>6, <1>7 DEF RecordMatch, LeaderAdvance
<1>8. CASE BackOff(m)
  BY <1>6, <1>8 DEF BackOff
<1>9. CASE RefuseSnapshot(m)
  BY <1>1, <1>9, RepliesPlain DEF RefuseSnapshot
<1> QED
  BY <1>2, <1>3, <1>4, <1>5, <1>7, <1>8, <1>9
     DEF OnRequestVoteResponse, OnAppendEntriesResponse, OnInstallSnapshotResponse

\* A snapshot that is taken, installed or recovered.
LEMMA SnapshotMarked ==
    ASSUME SnapshotsMarked, TypeInv, NEW n \in Node, NEW s, Marked(s), NEW sent,
           snapshot' = [snapshot EXCEPT ![n] = s], msgs' \subseteq msgs \cup sent,
           \A x \in sent : Plainly(x)
    PROVE  SnapshotsMarked'
<1>1. snapshot \in [Node -> Snapshot]
  BY DEF TypeInv, TypeOK
<1>2. \A k \in Node : Marked(snapshot'[k])
  BY <1>1 DEF SnapshotsMarked
<1>3. ASSUME NEW x \in msgs', x.type = "InstallSnapshot" PROVE Marked(x.snapshot)
  BY <1>3 DEF SnapshotsMarked, Plainly
<1> QED
  BY <1>2, <1>3 DEF SnapshotsMarked, Marked

\* compact, a restart and on_install_snapshot.
LEMMA MovedMarked ==
    ASSUME SnapshotsMarked, TypeInv, LockInv, Nil \notin SnapshotData,
           \/ \E n \in Node, i \in CompactPoints, d \in SnapshotData : Compact(n, i, d)
           \/ \E n \in Node : Restart(n)
           \/ \E m \in msgs : OnInstallSnapshot(m)
    PROVE  SnapshotsMarked'
<1>0. PICK none : none = {}
  OBVIOUS
<1>1. ASSUME NEW n \in Node, NEW i \in CompactPoints, NEW d \in SnapshotData, Compact(n, i, d)
      PROVE  SnapshotsMarked'
  <2> DEFINE s == [index |-> i, term |-> TermAt(n, i), data |-> d, config |-> ConfigAtBoundary(n, i)]
  <2>1. snapshot' = [snapshot EXCEPT ![n] = s] /\ i > snapshot[n].index /\ msgs' = msgs
    BY <1>1 DEF Compact
  <2>2. snapshot[n].index \in Nat /\ i \in Nat
    BY InputAssumption DEF TypeInv, TypeOK, Snapshot
  <2>3. Marked(s)
    BY <2>1, <2>2 DEF Marked
  <2> HIDE DEF s
  <2>4. msgs' \subseteq msgs \cup none /\ \A x \in none : Plainly(x)
    BY <1>0, <2>1
  <2> QED
    BY <2>1, <2>3, <2>4, SnapshotMarked
<1>2. ASSUME NEW n \in Node, Restart(n) PROVE SnapshotsMarked'
  <2> DEFINE s == [disk[n].snapshot EXCEPT !.config = RecoveredConfig(n)]
  <2>1. snapshot' = [snapshot EXCEPT ![n] = s] /\ msgs' = msgs
    BY <1>2 DEF Restart
  <2>2. disk[n].snapshot \in Snapshot
    BY DEF TypeInv, TypeOK, Durable
  <2>3. s.index = disk[n].snapshot.index /\ s.data = disk[n].snapshot.data
    BY <2>2 DEF Snapshot
  <2>4. Marked(s)
    BY <2>3 DEF Marked, SnapshotsMarked, LockInv, Mirrored
  <2> HIDE DEF s
  <2>5. msgs' \subseteq msgs \cup none /\ \A x \in none : Plainly(x)
    BY <1>0, <2>1
  <2> QED
    BY <2>1, <2>4, <2>5, SnapshotMarked
<1>3. ASSUME NEW m \in msgs, OnInstallSnapshot(m) PROVE SnapshotsMarked'
  <2>1. m.to \in Node
    BY MessageFields DEF TypeInv, TypeOK
  <2>2. CASE RefuseSnapshot(m)
    BY <2>1, <2>2, PeerMarked
  <2>3. CASE AcceptSnapshot(m)
    <3> DEFINE sent == {InstallSnapshotResponse(m.to, m.from, m.term, m.snapshot.index)}
    <3>1. msgs' \subseteq msgs \cup sent /\ \A x \in sent : Plainly(x)
      BY <2>3, RepliesPlain DEF AcceptSnapshot, Reply
    <3>2. CASE KeepLog(m)
      BY <2>1, <3>1, <3>2, SentMarked DEF KeepLog
    <3>3. CASE ReplaceLog(m)
      <4>1. Marked(m.snapshot) /\ snapshot' = [snapshot EXCEPT ![m.to] = m.snapshot]
        BY <1>3, <3>3 DEF OnInstallSnapshot, ReplaceLog, SnapshotsMarked
      <4> HIDE DEF sent
      <4> QED
        BY <2>1, <3>1, <4>1, SnapshotMarked
    <3> QED
      BY <2>3, <3>2, <3>3 DEF AcceptSnapshot
  <2> QED
    BY <1>3, <2>2, <2>3 DEF OnInstallSnapshot
<1> QED
  BY <1>1, <1>2, <1>3

\* Every step keeps the marks.
LEMMA StepMarked ==
    ASSUME Nil \notin SnapshotData
    PROVE  TypeInv /\ LockInv /\ SnapshotsMarked /\ [Next]_vars => SnapshotsMarked'
<1> SUFFICES ASSUME TypeInv, LockInv, SnapshotsMarked, [Next]_vars PROVE SnapshotsMarked'
  OBVIOUS
<1>1. \A m \in msgs : m.to \in Node
  BY MessageFields DEF TypeInv, TypeOK
<1>2. ASSUME NEW m \in msgs, Lose(m) PROVE SnapshotsMarked'
  BY <1>2 DEF Lose, SnapshotsMarked, Marked
<1>3. CASE UNCHANGED vars
  BY <1>3 DEF vars, SnapshotsMarked, Marked
<1>4. CASE Step
  <2>1. CASE \E n \in Crashable : Restart(n)
    BY <2>1, MovedMarked, InputAssumption
  <2>2. CASE ~ \E n \in Crashable : Restart(n)
    BY <1>1, <1>2, <1>4, <2>2, OwnerMarked, PeerMarked, MovedMarked DEF Step
  <2> QED
    BY <2>1, <2>2
<1>5. CASE \E n \in Node, S \in VoterSets : ProposeConfigChange(n, S)
  BY <1>5, OwnerMarked
<1> QED
  BY <1>3, <1>4, <1>5 DEF Next

-----------------------------------------------------------------------------
(* Machines and the snapshots made of them *)

Maps == UNION {[S -> Bytes] : S \in SUBSET Key}
Machine == [entries : Maps, lastApplied : Nat]

\* The owner of each log is a replica: the snapshots are those of its machines, it
\* may compact wherever it likes, and no snapshot's bytes are mistaken for none.
Owned ==
    /\ SnapshotData = {SnapshotBytes(m) : m \in Machine}
    /\ Nil \notin SnapshotData
    /\ CompactPoints = Nat

\* The maps are the functions from some of the keys to byte strings.
LEMMA MapsOf == \A e : MapOf(e) <=> e \in Maps
<1>1. ASSUME NEW e, MapOf(e) PROVE e \in Maps
  <2>1. e \in [DOMAIN e -> Bytes] /\ DOMAIN e \in SUBSET Key
    BY <1>1 DEF MapOf
  <2> QED
    BY <2>1 DEF Maps
<1>2. ASSUME NEW e \in Maps PROVE MapOf(e)
  <2>1. PICK S \in SUBSET Key : e \in [S -> Bytes]
    BY DEF Maps
  <2> QED
    BY <2>1 DEF MapOf
<1> QED
  BY <1>1, <1>2

\* The machine of a replica is one of them.
LEMMA AppliedMachine ==
    ASSUME NEW a \in Nat, NEW acc, Applied(acc, a)
    PROVE  acc.machine \in Machine
<1>1. acc.machine = [entries |-> acc.machine.entries, lastApplied |-> a] /\ MapOf(acc.machine.entries)
  BY DEF Applied
<1>2. acc.machine.entries \in Maps
  BY <1>1, MapsOf
<1> QED
  BY <1>1, <1>2 DEF Machine

\* The bytes of a snapshot stand for a map.
LEMMA DataDecodes ==
    ASSUME Owned, NEW s \in Snapshot, Marked(s), s.index # 0
    PROVE  MapOf(DecodeEntries(s.data)[1])
<1>1. s.data \in SnapshotData
  BY DEF Snapshot, Marked
<1>2. PICK m \in Machine : s.data = SnapshotBytes(m)
  BY <1>1 DEF Owned
<1>3. MapOf(m.entries)
  BY MapsOf DEF Machine
<1>4. DecodeEntries(s.data) = Some(m.entries)
  BY <1>2, <1>3, SnapshotRoundTrip
<1> QED
  BY <1>3, <1>4 DEF Some

\* A snapshot ahead of a replica replaces what it holds.
LEMMA RebasedKeeps ==
    ASSUME Owned, NEW s \in Snapshot, Marked(s), NEW a \in Nat, NEW acc, Applied(acc, a)
    PROVE  \E b \in Nat : /\ b = (IF s.index > a THEN s.index ELSE a)
                          /\ Applied(Rebased(acc.machine, acc.results, s), b)
<1> DEFINE base == Rebased(acc.machine, acc.results, s)
<1>1. /\ acc = [machine |-> acc.machine, results |-> acc.results] /\ acc.machine.lastApplied = a
      /\ DOMAIN acc.results \subseteq 1 .. a /\ s.index \in Nat
      /\ \A i \in DOMAIN acc.results : acc.results[i] \in Answer
  BY DEF Applied, Snapshot
<1>2. CASE s.index > a
  <2> DEFINE kept == {i \in DOMAIN acc.results : i > s.index}
             r == [i \in kept |-> acc.results[i]]
             e == DecodeEntries(s.data)[1]
  <2>1. base = [machine |-> [entries |-> e, lastApplied |-> s.index], results |-> r]
    BY <1>1, <1>2 DEF Rebased, Restrict
  <2>2. MapOf(e)
    BY <1>1, <1>2, DataDecodes
  <2>3. /\ r = [i \in DOMAIN r |-> r[i]] /\ DOMAIN r \subseteq 1 .. s.index
        /\ \A i \in DOMAIN r : r[i] \in Answer
    <3>1. \A i \in kept : i \in 1 .. s.index
      BY <1>1, <1>2
    <3> QED
      BY <1>1, <3>1
  <2> HIDE DEF base, r, e
  <2>4. Applied(base, s.index)
    BY <2>1, <2>2, <2>3 DEF Applied
  <2> QED
    BY <1>1, <1>2, <2>4 DEF base
<1>3. CASE ~ (s.index > a)
  <2>1. base = acc
    BY <1>1, <1>3 DEF Rebased
  <2> QED
    BY <1>3, <2>1
<1> QED
  BY <1>2, <1>3

\* What there is to apply is entries.
LEMMA UnappliedEntries ==
    ASSUME NEW lg \in Seq(Entry), NEW s \in Snapshot, NEW b \in Nat, b >= s.index,
           NEW c \in Nat, c > b => c - s.index <= Len(lg)
    PROVE  Unapplied(lg, s, b, c) \in Seq(Entry)
<1>0. PICK i \in Nat : i = s.index
  BY DEF Snapshot
<1>1. Unapplied(lg, s, b, c) = SubSeq(lg, (b - i) + 1, c - i)
  BY <1>0 DEF Unapplied
<1>2. CASE c > b
  <2>1. PICK lo \in Nat, hi \in Nat : lo = b - i /\ hi = c - i /\ lo <= hi /\ hi <= Len(lg)
    BY <1>0, <1>2
  <2>2. SubSeq(lg, lo + 1, hi) \in Seq(Entry)
    BY <2>1, Between
  <2> QED
    BY <1>1, <2>1, <2>2
<1>3. CASE ~ (c > b)
  <2>1. c - i < (b - i) + 1
    BY <1>0, <1>3
  <2>2. SubSeq(lg, (b - i) + 1, c - i) = <<>>
    BY <1>0, <2>1
  <2>3. <<>> \in Seq(Entry)
    BY EmptySeq
  <2> QED
    BY <1>1, <2>2, <2>3
<1> QED
  BY <1>2, <1>3

-----------------------------------------------------------------------------
(* Replicas that compact *)

\* Every replica has a map and answers, whatever it has applied.
MachinesWhole ==
    /\ machine = [n \in Node |-> machine[n]] /\ results = [n \in Node |-> results[n]]
    /\ \A n \in Node : \E a \in Nat : Applied(Held(n), a)

\* A node's machine moves on and the others stay.
LEMMA WholeMoves ==
    ASSUME MachinesWhole, NEW n \in Node, NEW acc, NEW a \in Nat, Applied(acc, a),
           machine' = [machine EXCEPT ![n] = acc.machine],
           results' = [results EXCEPT ![n] = acc.results]
    PROVE  MachinesWhole'
<1>1. acc = [machine |-> acc.machine, results |-> acc.results]
  BY DEF Applied
<1>2. machine' = [c \in Node |-> machine'[c]] /\ results' = [c \in Node |-> results'[c]]
  BY DEF MachinesWhole
<1>3. ASSUME NEW c \in Node PROVE (\E b \in Nat : Applied(Held(c), b))'
  <2>1. CASE c = n
    <3>1. machine'[c] = acc.machine /\ results'[c] = acc.results
      BY <2>1 DEF MachinesWhole
    <3>2. Held(c)' = acc
      BY <1>1, <3>1 DEF Held
    <3>3. Applied(Held(c), a)'
      BY <3>2 DEF Applied
    <3> QED
      BY <3>3
  <2>2. CASE c # n
    <3>1. Held(c)' = Held(c)
      BY <2>2 DEF Held, MachinesWhole
    <3>2. PICK b \in Nat : Applied(Held(c), b)
      BY DEF MachinesWhole
    <3>3. Applied(Held(c), b)'
      BY <3>1, <3>2 DEF Applied
    <3> QED
      BY <3>3
  <2> QED
    BY <2>1, <2>2
<1> QED
  BY <1>2, <1>3 DEF MachinesWhole

\* drain_committed, after any call of the node.
LEMMA DrainWhole ==
    ASSUME Owned, TypeInv', SnapshotsMarked', MachinesWhole, NEW n \in Node, DrainCommitted(n)
    PROVE  MachinesWhole'
<1>1. PICK s \in Snapshot : s = snapshot'[n]
  BY DEF TypeInv, TypeOK
<1>2. PICK lg \in Seq(Entry) : lg = log'[n]
  BY DEF TypeInv, TypeOK
<1>3. PICK c \in Nat : c = commitIndex'[n] /\ s.index <= c
  BY <1>1 DEF TypeInv, TypeOK, SnapshotIsCommitted
<1>4. Marked(s)
  BY <1>1 DEF SnapshotsMarked, Marked
<1>5. PICK a \in Nat : Applied(Held(n), a)
  BY DEF MachinesWhole
<1>6. machine[n] = Held(n).machine /\ results[n] = Held(n).results /\ Held(n).machine.lastApplied = a
  BY <1>5 DEF Held, Applied
<1> DEFINE base == Rebased(machine[n], results[n], s)
<1>7. PICK b \in Nat : b = (IF s.index > a THEN s.index ELSE a) /\ Applied(base, b)
  BY <1>4, <1>5, <1>6, RebasedKeeps
<1>8. base.machine.lastApplied = b
  BY <1>7 DEF Applied
<1> HIDE DEF base
<1> DEFINE todo == Unapplied(lg, s, b, c)
           end == ApplyAll(base, todo)
<1>9. CASE CanDrain(machine[n], lg, s, c)
  <2>1. s.index \in Nat
    BY DEF Snapshot
  <2>2. Max({a, s.index}) = b
    <3>1. PICK i \in Int : i = s.index /\ a \in Int
      BY <2>1
    <3>2. Max({a, i}) \in {a, i} /\ Max({a, i}) >= a /\ Max({a, i}) >= i
      BY <3>1, PairExtrema
    <3>3. Max({a, i}) = IF i > a THEN i ELSE a
      BY <3>1, <3>2
    <3> QED
      BY <1>7, <3>1, <3>3
  <2>3. c > b => c - s.index <= Len(lg)
    BY <1>6, <1>9, <2>2 DEF CanDrain
  <2>4. todo \in Seq(Entry)
    <3>1. b >= s.index
      BY <1>7, <2>1
    <3> QED
      BY <2>3, <3>1, UnappliedEntries
  <2>5. /\ machine' = [machine EXCEPT ![n] = end.machine]
        /\ results' = [results EXCEPT ![n] = end.results]
    BY <1>1, <1>2, <1>3, <1>8, <1>9 DEF DrainCommitted, base
  <2> HIDE DEF todo
  <2>6. PICK z \in Nat : z = b + Len(todo) /\ Applied(end, z)
    BY <1>7, <2>4, ReplayKeeps
  <2> HIDE DEF end
  <2> QED
    BY <2>5, <2>6, WholeMoves
<1>10. CASE ~ CanDrain(machine[n], lg, s, c)
  <2>1. machine' = machine /\ results' = results
    BY <1>1, <1>2, <1>3, <1>10 DEF DrainCommitted, replicaVars
  <2> QED
    BY <2>1 DEF MachinesWhole, Held
<1> QED
  BY <1>9, <1>10

\* recover.
LEMMA RecoverWhole ==
    ASSUME Owned, TypeInv', SnapshotsMarked', MachinesWhole, NEW n \in Node, Recover(n)
    PROVE  MachinesWhole'
<1>1. PICK s \in Snapshot : s = snapshot'[n]
  BY DEF TypeInv, TypeOK
<1>2. Marked(s)
  BY <1>1 DEF SnapshotsMarked, Marked
<1>3. PICK z \in Nat : z = 0 /\ Applied(FreshReplica, z)
  BY FreshApplied
<1> DEFINE base == Rebased(EmptyMachine, <<>>, s)
<1>4. FreshReplica.machine = EmptyMachine /\ FreshReplica.results = <<>>
  BY DEF FreshReplica
<1>5. PICK b \in Nat : Applied(base, b)
  BY <1>2, <1>3, <1>4, RebasedKeeps
<1>6. machine' = [machine EXCEPT ![n] = base.machine] /\ results' = [results EXCEPT ![n] = base.results]
  BY <1>1 DEF Recover
<1> HIDE DEF base
<1> QED
  BY <1>5, <1>6, WholeMoves

\* Every step of a replica is a step of its node, and what follows it.
LEMMA OwnedSteps ==
    ASSUME Owned, TypeInv, MachinesWhole, ReplicaNext
    PROVE  /\ Next
           /\ \/ \E n \in Node : DrainCommitted(n)
              \/ \E n \in Node : Recover(n)
              \/ UNCHANGED replicaVars
<1>0. Crashable \subseteq Node
  BY InputAssumption
<1>1. ASSUME NEW n \in Node, NEW c \in Proposals, ReplicaPropose(n, c)
      PROVE  Next /\ DrainCommitted(n)
  <2>1. Encode(c) \in Command
    BY ReplicaAssumption
  <2> QED
    BY <1>1, <2>1 DEF ReplicaPropose, Next, Step
<1>2. ASSUME NEW n \in Node, NEW S \in VoterSets, ReplicaConfigChange(n, S)
      PROVE  Next /\ DrainCommitted(n)
  BY <1>2 DEF ReplicaConfigChange, Next
<1>3. ASSUME NEW n \in Node, ReplicaLearners(n) PROVE Next /\ DrainCommitted(n)
  BY <1>3 DEF ReplicaLearners, Next, Step
<1>4. ASSUME NEW n \in Node, ReplicaTick(n) PROVE Next /\ DrainCommitted(n)
  BY <1>4 DEF ReplicaTick, Next, Step
<1>5. ASSUME NEW n \in Node, ReplicaCompact(n) PROVE Next /\ UNCHANGED replicaVars
  <2>1. PICK a \in Nat : Applied(Held(n), a)
    BY DEF MachinesWhole
  <2>2. Held(n).machine = machine[n]
    BY DEF Held
  <2>3. machine[n] \in Machine /\ machine[n].lastApplied \in Nat
    BY <2>1, <2>2, AppliedMachine DEF Machine
  <2>4. SnapshotBytes(machine[n]) \in SnapshotData
    BY <2>3 DEF Owned
  <2>5. machine[n].lastApplied - Retain \in CompactPoints
    BY <1>5, <2>3, ReplicaAssumption DEF ReplicaCompact, Owned
  <2> QED
    BY <1>5, <2>4, <2>5 DEF ReplicaCompact, Next, Step
<1>6. ASSUME NEW n \in Crashable, ReplicaRestart(n) PROVE Next /\ Recover(n)
  BY <1>6 DEF ReplicaRestart, Next, Step
<1>7. ASSUME NEW m \in msgs, ReplicaStep(m) PROVE m.to \in Node /\ Next /\ DrainCommitted(m.to)
  <2>1. m.to \in Node
    BY MessageFields DEF TypeInv, TypeOK
  <2> QED
    BY <1>7, <2>1 DEF ReplicaStep, Next, Step
<1>8. ASSUME NEW m \in msgs, Lose(m) PROVE Next
  BY <1>8 DEF Next, Step
<1>9. CASE \E n \in Node, c \in Proposals : ReplicaPropose(n, c)
  BY <1>1, <1>9
<1>10. CASE \/ \E n \in Node, S \in VoterSets : ReplicaConfigChange(n, S)
            \/ \E n \in Node : ReplicaLearners(n) \/ ReplicaTick(n)
  BY <1>2, <1>3, <1>4, <1>10
<1>11. CASE \E n \in Node : ReplicaCompact(n)
  BY <1>5, <1>11
<1>12. CASE \E n \in Crashable : ReplicaRestart(n)
  BY <1>0, <1>6, <1>12
<1>13. CASE \E m \in msgs : ReplicaStep(m)
  <2>1. PICK m \in msgs : ReplicaStep(m)
    BY <1>13
  <2>2. m.to \in Node /\ Next /\ DrainCommitted(m.to)
    BY <1>7, <2>1
  <2> QED
    BY <2>2
<1>14. CASE \E m \in msgs : Lose(m) /\ UNCHANGED replicaVars
  BY <1>8, <1>14
<1> QED
  BY <1>9, <1>10, <1>11, <1>12, <1>13, <1>14 DEF ReplicaNext

\* The invariant of replicas, whatever they are asked to do.
OwnedInv == TypeInv /\ LockInv /\ SnapshotsMarked /\ MachinesWhole

\* It holds at the start.
LEMMA InitOwned == ReplicaInit => OwnedInv
<1> SUFFICES ASSUME ReplicaInit PROVE OwnedInv
  OBVIOUS
<1>1. Init
  BY DEF ReplicaInit
<1>2. TypeInv /\ LockInv
  BY <1>1, InitType, InitLocked
<1>3. SnapshotsMarked
  BY <1>1 DEF Init, SnapshotsMarked, Marked, NoSnapshot
<1>4. MachinesWhole
  <2>1. PICK z \in Nat : z = 0 /\ Applied(FreshReplica, z)
    BY FreshApplied
  <2>2. \A n \in Node : Held(n) = FreshReplica
    BY DEF ReplicaInit, Held, FreshReplica
  <2> QED
    BY <2>1, <2>2 DEF ReplicaInit, MachinesWhole
<1> QED
  BY <1>2, <1>3, <1>4 DEF OwnedInv

\* And after every step.
LEMMA OwnedInductive ==
    ASSUME Owned
    PROVE  OwnedInv /\ [ReplicaNext]_<<vars, replicaVars>> => OwnedInv' /\ [Next]_vars
<1>1. ASSUME OwnedInv, ReplicaNext PROVE OwnedInv' /\ Next
  <2>1. /\ Next
        /\ \/ \E n \in Node : DrainCommitted(n)
           \/ \E n \in Node : Recover(n)
           \/ UNCHANGED replicaVars
    BY <1>1, OwnedSteps DEF OwnedInv
  <2>2. TypeInv' /\ LockInv' /\ SnapshotsMarked'
    BY <1>1, <2>1, NextType, LockInductive, StepMarked DEF OwnedInv, Owned
  <2>3. MachinesWhole'
    <3>1. MachinesWhole
      BY <1>1 DEF OwnedInv
    <3>2. UNCHANGED replicaVars => MachinesWhole'
      BY <3>1 DEF MachinesWhole, Held, replicaVars
    <3> QED
      BY <2>1, <2>2, <3>1, <3>2, DrainWhole, RecoverWhole
  <2> QED
    BY <2>1, <2>2, <2>3 DEF OwnedInv
<1>2. ASSUME OwnedInv, UNCHANGED <<vars, replicaVars>> PROVE OwnedInv' /\ UNCHANGED vars
  <2>1. UNCHANGED vars /\ UNCHANGED replicaVars
    BY <1>2
  <2>2. TypeInv' /\ LockInv' /\ SnapshotsMarked'
    BY <1>2, <2>1, NextType, LockInductive, StepMarked DEF OwnedInv, Owned
  <2>3. MachinesWhole'
    BY <1>2, <2>1 DEF OwnedInv, MachinesWhole, Held, replicaVars
  <2> QED
    BY <2>1, <2>2, <2>3 DEF OwnedInv
<1> QED
  BY <1>1, <1>2

\* A replica that proposes, changes its voters, compacts, installs a peer's
\* snapshot and recovers from its own drives its node through Raft's steps and no
\* others: the bytes it files are those of a map, and they are read back as that
\* map, so that whatever is proved of Raft's Spec is true of the nodes inside
\* replicas.
THEOREM CompactingReplicasRunRaft ==
    ASSUME Owned
    PROVE  ReplicaSpec => Spec
<1>1. ReplicaInit => Init
  BY DEF ReplicaInit
<1> QED
  BY <1>1, InitOwned, OwnedInductive, PTL DEF ReplicaSpec, Spec

\* Nothing a node sends, answers or persists changes on its way, whatever its
\* replicas are asked to do: every message in flight is what its receiver reads,
\* every disk is what a restart opens, every answer what the client is told.
THEOREM NothingChangesOnTheWay ==
    ASSUME Owned
    PROVE  ReplicaSpec => []WireFaithful
<1>1. OwnedInv => WireFaithful
  <2> SUFFICES ASSUME OwnedInv PROVE WireFaithful
    OBVIOUS
  <2>1. ASSUME NEW m \in msgs PROVE Received(m) = Some(m)
    <3>1. m \in Message /\ (m.type = "InstallSnapshot" => Marked(m.snapshot))
      BY DEF OwnedInv, TypeInv, TypeOK, SnapshotsMarked
    <3> QED
      BY <3>1, MessageReturns
  <2>2. ASSUME NEW n \in Node PROVE Opened(FileOf(disk[n])) = Some(disk[n])
    <3>1. disk[n] \in Durable
      BY DEF OwnedInv, TypeInv, TypeOK
    <3>2. Marked(disk[n].snapshot)
      BY DEF OwnedInv, LockInv, Mirrored, SnapshotsMarked, Marked
    <3> QED
      BY <3>1, <3>2, DiskReturns
  <2>3. ASSUME NEW n \in Node, NEW i \in DOMAIN results[n]
        PROVE  ApplyResultFromProto(ApplyResultToProto(results[n][i])) = Some(results[n][i])
    <3>1. PICK a \in Nat : Applied(Held(n), a)
      BY DEF OwnedInv, MachinesWhole
    <3>2. results[n][i] \in Answer
      BY <3>1 DEF Applied, Held
    <3> QED
      BY <3>2, AnswerReturns
  <2>4. ASSUME NEW c \in Proposals PROVE CommandFromProto(CommandToProto(c)) = Some(c)
    BY CommandReturns, ReplicaAssumption
  <2>5. ASSUME NEW S \in VoterSets
        PROVE  ProposeConfigChangeFromProto(ProposeConfigChangeToProto(S)) = S
    <3>1. Parsed(Serialized([voters |-> S], [voters |-> {}]), [voters |-> {}]) = [voters |-> S]
      BY FieldsReturn
    <3> QED
      BY <3>1 DEF ProposeConfigChangeFromProto, ProposeConfigChangeToProto
  <2>6. ASSUME NEW id \in Node, NEW address \in Value
        PROVE  AddLearnerFromProto(AddLearnerToProto(id, address)) = <<id, address>>
    <3>1. Parsed(Serialized([nodeId |-> id, address |-> address], AddLearnerFields), AddLearnerFields)
             = [nodeId |-> id, address |-> address]
      BY FieldsReturn DEF AddLearnerFields
    <3> QED
      BY <3>1 DEF AddLearnerFromProto, AddLearnerToProto
  <2> QED
    BY <2>1, <2>2, <2>3, <2>4, <2>5, <2>6 DEF WireFaithful
<1> QED
  BY <1>1, InitOwned, OwnedInductive, PTL DEF ReplicaSpec

=============================================================================
