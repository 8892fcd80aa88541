-------------------------------- MODULE Wire --------------------------------
(***************************************************************************)
(* What kurogane-runtime's dto and storage modules make of the core's      *)
(* messages, answers and durable state: protobuf messages, sent to a peer  *)
(* or a client, or written to the node's file, and read back.              *)
(*                                                                         *)
(* A protobuf message on the wire is the fields that are set: proto3 does  *)
(* not send a scalar, a string of bytes or a list that has its default     *)
(* value, and the reader puts the default back.  A field declared optional *)
(* or holding a message is sent whenever it is there; it is an option here. *)
(***************************************************************************)
EXTENDS Replica

Serialized(message, default) ==
    Restrict(message, {f \in DOMAIN message : message[f] # default[f]})

Parsed(fields, default) ==
    [f \in DOMAIN fields \cup DOMAIN default |->
        IF f \in DOMAIN fields THEN fields[f] ELSE default[f]]

-----------------------------------------------------------------------------
(* Configurations and entries *)

ConfigurationFields == [voters |-> {}, oldVoters |-> {}]

\* Mutant of ConfigurationToProto: the set being replaced is forgotten.
NewVotersToProto(c) == Serialized([voters |-> c.voters, oldVoters |-> {}], ConfigurationFields)

ConfigurationToProto(c) ==
    Serialized([voters |-> c.voters, oldVoters |-> c.oldVoters], ConfigurationFields)

\* No old_voters at all is the sign of a configuration that is not joint.
ConfigurationFromProto(p) ==
    LET c == Parsed(p, ConfigurationFields)
    IN  IF c.oldVoters = {} THEN Stable(c.voters)
        ELSE [voters |-> c.voters, oldVoters |-> c.oldVoters]

LogEntryFields == [term |-> 0, payload |-> None]

LogEntryToProto(e) ==
    Serialized([term |-> e.term,
                payload |-> IF e.payload.type = "Command"
                            THEN Some([command |-> e.payload.command])
                            ELSE Some([configuration |-> ConfigurationToProto(e.payload.config)])],
               LogEntryFields)

\* MissingLogEntryPayload is None.
LogEntryFromProto(p) ==
    LET e == Parsed(p, LogEntryFields)
        payload == e.payload[1]
    IN  IF e.payload = None THEN None
        ELSE Some([term |-> e.term,
                   payload |-> IF "command" \in DOMAIN payload
                               THEN CommandPayload(payload.command)
                               ELSE ConfigurationPayload(ConfigurationFromProto(payload.configuration))])

LogToProto(lg) == [i \in DOMAIN lg |-> LogEntryToProto(lg[i])]

\* One entry that cannot be read makes the whole log unreadable.
LogFromProto(ps) ==
    LET es == [i \in DOMAIN ps |-> LogEntryFromProto(ps[i])]
    IN  IF \E i \in DOMAIN es : es[i] = None THEN None
        ELSE Some([i \in DOMAIN es |-> es[i][1]])

\* The bytes of a snapshot; those of no snapshot are the empty string.
SnapshotBytesOf(s) == IF s.data = Nil THEN <<>> ELSE s.data

SnapshotOf(index, term, bytes, config) ==
    [index |-> index, term |-> term, data |-> IF index = 0 THEN Nil ELSE bytes,
     config |-> config]

-----------------------------------------------------------------------------
(* Peer messages: a request names its sender, a reply does not *)

RequestVoteFields == [term |-> 0, candidateId |-> Nil, lastLogIndex |-> 0, lastLogTerm |-> 0]

RequestVoteToProto(m) ==
    Serialized([term |-> m.term, candidateId |-> m.from,
                lastLogIndex |-> m.lastLogIndex, lastLogTerm |-> m.lastLogTerm],
               RequestVoteFields)

RequestVoteFromProto(p, to) ==
    LET r == Parsed(p, RequestVoteFields)
    IN  Some([type |-> "RequestVote", from |-> r.candidateId, to |-> to, term |-> r.term,
              lastLogIndex |-> r.lastLogIndex, lastLogTerm |-> r.lastLogTerm])

RequestVoteReplyFields == [term |-> 0, granted |-> FALSE]

RequestVoteResponseToProto(m) ==
    Serialized([term |-> m.term, granted |-> m.granted], RequestVoteReplyFields)

RequestVoteResponseFromProto(p, from, to) ==
    LET r == Parsed(p, RequestVoteReplyFields)
    IN  Some(RequestVoteResponse(from, to, r.term, r.granted))

AppendEntriesFields ==
    [term |-> 0, leaderId |-> Nil, prevLogIndex |-> 0, prevLogTerm |-> 0,
     entries |-> <<>>, leaderCommit |-> 0]

AppendEntriesToProto(m) ==
    Serialized([term |-> m.term, leaderId |-> m.from, prevLogIndex |-> m.prevLogIndex,
                prevLogTerm |-> m.prevLogTerm, entries |-> LogToProto(m.entries),
                leaderCommit |-> m.leaderCommit],
               AppendEntriesFields)

AppendEntriesFromProto(p, to) ==
    LET r == Parsed(p, AppendEntriesFields)
        entries == LogFromProto(r.entries)
    IN  IF entries = None THEN None
        ELSE Some([type |-> "AppendEntries", from |-> r.leaderId, to |-> to, term |-> r.term,
                   prevLogIndex |-> r.prevLogIndex, prevLogTerm |-> r.prevLogTerm,
                   entries |-> entries[1], leaderCommit |-> r.leaderCommit])

AppendEntriesReplyFields == [term |-> 0, success |-> FALSE, matchIndex |-> 0]

AppendEntriesResponseToProto(m) ==
    Serialized([term |-> m.term, success |-> m.success, matchIndex |-> m.matchIndex],
               AppendEntriesReplyFields)

AppendEntriesResponseFromProto(p, from, to) ==
    LET r == Parsed(p, AppendEntriesReplyFields)
    IN  Some(AppendEntriesResponse(from, to, r.term, r.success, r.matchIndex))

InstallSnapshotFields ==
    [term |-> 0, leaderId |-> Nil, lastIncludedIndex |-> 0, lastIncludedTerm |-> 0,
     data |-> <<>>, config |-> None]

InstallSnapshotToProto(m) ==
    Serialized([term |-> m.term, leaderId |-> m.from,
                lastIncludedIndex |-> m.snapshot.index, lastIncludedTerm |-> m.snapshot.term,
                data |-> SnapshotBytesOf(m.snapshot),
                config |-> Some(ConfigurationToProto(m.snapshot.config))],
               InstallSnapshotFields)

\* unwrap_or_default.
ConfigurationOrDefault(option) ==
    IF option = None THEN EmptyConfig ELSE ConfigurationFromProto(option[1])

InstallSnapshotFromProto(p, to) ==
    LET r == Parsed(p, InstallSnapshotFields)
    IN  Some([type |-> "InstallSnapshot", from |-> r.leaderId, to |-> to, term |-> r.term,
              snapshot |-> SnapshotOf(r.lastIncludedIndex, r.lastIncludedTerm, r.data,
                                      ConfigurationOrDefault(r.config))])

InstallSnapshotReplyFields == [term |-> 0, lastIncludedIndex |-> 0]

InstallSnapshotResponseToProto(m) ==
    Serialized([term |-> m.term, lastIncludedIndex |-> m.lastIncludedIndex],
               InstallSnapshotReplyFields)

InstallSnapshotResponseFromProto(p, from, to) ==
    LET r == Parsed(p, InstallSnapshotReplyFields)
    IN  Some(InstallSnapshotResponse(from, to, r.term, r.lastIncludedIndex))

\* m as its receiver reads it: an endpoint of the peer service takes a request
\* for its own, with the sender the request names; the transport takes a reply
\* for one of the peer it called.
Received(m) ==
    CASE m.type = "RequestVote" -> RequestVoteFromProto(RequestVoteToProto(m), m.to)
      [] m.type = "AppendEntries" -> AppendEntriesFromProto(AppendEntriesToProto(m), m.to)
      [] m.type = "InstallSnapshot" -> InstallSnapshotFromProto(InstallSnapshotToProto(m), m.to)
      [] m.type = "RequestVoteResponse" ->
            RequestVoteResponseFromProto(RequestVoteResponseToProto(m), m.from, m.to)
      [] m.type = "AppendEntriesResponse" ->
            AppendEntriesResponseFromProto(AppendEntriesResponseToProto(m), m.from, m.to)
      [] m.type = "InstallSnapshotResponse" ->
            InstallSnapshotResponseFromProto(InstallSnapshotResponseToProto(m), m.from, m.to)

-----------------------------------------------------------------------------
(* Requests and answers, between a client and the node it calls *)

CommandToProto(c) ==
    [kind |-> Some([type |-> c.kind,
        fields |-> IF c.kind = "Set"
                   THEN Serialized([key |-> c.key, value |-> c.value],
                                   [key |-> <<>>, value |-> <<>>])
                   ELSE Serialized([key |-> c.key], [key |-> <<>>])])]

CommandFromProto(p) ==
    LET body == p.kind[1]
        key == Parsed(body.fields, [key |-> <<>>]).key
    IN  IF p.kind = None THEN None
        ELSE IF body.type = "Set"
             THEN Some([kind |-> "Set", key |-> key,
                        value |-> Parsed(body.fields, [value |-> <<>>]).value])
             ELSE Some([kind |-> body.type, key |-> key])

\* previous and value are optional fields: an absent value is not an empty one.
ApplyResultToProto(r) ==
    [kind |-> Some([type |-> r.kind, fields |-> Serialized([value |-> r.value], [value |-> None])])]

ApplyResultFromProto(p) ==
    LET body == p.kind[1]
    IN  IF p.kind = None THEN None
        ELSE Some([kind |-> body.type, value |-> Parsed(body.fields, [value |-> None]).value])

ProposeConfigChangeToProto(voters) == Serialized([voters |-> voters], [voters |-> {}])

ProposeConfigChangeFromProto(p) == Parsed(p, [voters |-> {}]).voters

AddLearnerFields == [nodeId |-> Nil, address |-> <<>>]

AddLearnerToProto(id, address) ==
    Serialized([nodeId |-> id, address |-> address], AddLearnerFields)

AddLearnerFromProto(p) ==
    LET r == Parsed(p, AddLearnerFields) IN <<r.nodeId, r.address>>

-----------------------------------------------------------------------------
(* The file *)

StorageFields ==
    [currentTerm |-> 0, votedFor |-> None, log |-> <<>>, lastIncludedIndex |-> 0,
     lastIncludedTerm |-> 0, data |-> <<>>, learners |-> {}, config |-> None]

\* Storage::flush.
FileOf(d) ==
    Serialized([currentTerm |-> d.term,
                votedFor |-> IF d.votedFor = Nil THEN None ELSE Some(d.votedFor),
                log |-> LogToProto(d.log),
                lastIncludedIndex |-> d.snapshot.index,
                lastIncludedTerm |-> d.snapshot.term,
                data |-> SnapshotBytesOf(d.snapshot),
                learners |-> d.learners,
                config |-> Some(ConfigurationToProto(d.snapshot.config))],
               StorageFields)

\* Storage::open, of a file that is there.
Opened(file) ==
    LET r == Parsed(file, StorageFields)
        lg == LogFromProto(r.log)
    IN  IF lg = None THEN None
        ELSE Some([term |-> r.currentTerm,
                   votedFor |-> IF r.votedFor = None THEN Nil ELSE r.votedFor[1],
                   log |-> lg[1],
                   snapshot |-> SnapshotOf(r.lastIncludedIndex, r.lastIncludedTerm, r.data,
                                           ConfigurationOrDefault(r.config)),
                   learners |-> r.learners])

-----------------------------------------------------------------------------

\* Nothing the core ever sends, answers or persists changes on its way: every
\* message in flight, with its entries, snapshot and possibly joint
\* configuration, is what its receiver reads, every disk is what a restart would
\* open, and every answer is what the client is told.  Defaults that are not
\* written, the absent value that is not the empty one, and the empty old_voters
\* that means None, make no difference.
WireFaithful ==
    /\ \A m \in msgs : Received(m) = Some(m)
    /\ \A n \in Node : Opened(FileOf(disk[n])) = Some(disk[n])
    /\ \A n \in Node : \A i \in DOMAIN results[n] :
          ApplyResultFromProto(ApplyResultToProto(results[n][i])) = Some(results[n][i])
    /\ \A c \in Proposals : CommandFromProto(CommandToProto(c)) = Some(c)
    /\ \A S \in VoterSets : ProposeConfigChangeFromProto(ProposeConfigChangeToProto(S)) = S
    /\ \A id \in Node, address \in Value :
          AddLearnerFromProto(AddLearnerToProto(id, address)) = <<id, address>>

=============================================================================
