---------------------------- MODULE HarnessProofs ---------------------------
(***************************************************************************)
(* What clients are told, in a cluster whose voters are never changed and  *)
(* whose owners do not compact: the store of replicas that crash, lag and  *)
(* depose each other implements one atomic map, and every history of it is *)
(* linearizable, for every number of nodes, clients and operations.        *)
(*                                                                         *)
(* An operation is known by the index and the term its entry was appended  *)
(* at.  No other operation ever has both, every entry there is belongs to  *)
(* an operation, and those counted committed are numbered without a gap:   *)
(* the order they take effect in is the order of their indices.            *)
(***************************************************************************)
EXTENDS Harness, ReplicaProofs

-----------------------------------------------------------------------------
(* The invariant *)

OpFields == {"invoke", "finish", "command", "outcome", "result", "target", "index", "term"}

Outcomes == {"Pending", "Applied", "Indeterminate", "Rejected"}

\* What an operation's record is made of.
OpShape(o) ==
    /\ DOMAIN o = OpFields
    /\ o.invoke \in 0 .. clock /\ o.finish \in Int /\ o.command \in Operation
    /\ o.outcome \in Outcomes /\ o.index \in Nat /\ o.term \in Nat
    /\ o.outcome = "Rejected" <=> o.index = 0

OpsShape ==
    /\ clock \in Nat /\ up \subseteq Node
    /\ ops \in Seq({ops[i] : i \in DOMAIN ops})
    /\ \A i \in DOMAIN ops : OpShape(ops[i])

\* The operations some leader took.
Taken == {i \in DOMAIN ops : ops[i].outcome # "Rejected"}

\* The entry e at index x is that of operation i.
EntryOf(i, x, e) ==
    /\ i \in Taken /\ ops[i].index = x /\ ops[i].term = e.term
    /\ e.payload = CommandPayload(Encode(ops[i].command))

\* No two operations have the same index and term.
Apart ==
    \A i, j \in Taken : ops[i].index = ops[j].index /\ ops[i].term = ops[j].term => i = j

\* An operation was taken by the leader of its term, and is in its log for as
\* long as it leads.
TakenByLeader ==
    \A i \in Taken :
        /\ \E l \in Node : Won(l, ops[i].term)
        /\ \A l \in Node : role[l] = Leader /\ currentTerm[l] = ops[i].term
                              => ops[i].index <= Len(log[l])

\* Every entry in a log, in flight or counted committed is an operation's.
AllAsked ==
    /\ \A x \in Links : \E i \in Taken : EntryOf(i, x.index, x.entry)
    /\ \A c \in committed : \E i \in Taken : EntryOf(i, c.index, c.entry)

\* The entries counted committed are numbered from 1.
Numbered ==
    IsFiniteSet(committed) /\ {c.index : c \in committed} = 1 .. Cardinality(committed)

\* The i-th entry counted committed, and all of them.
Counted(i) == (CHOOSE c \in committed : c.index = i).entry
CommittedLog == [i \in 1 .. Cardinality(committed) |-> Counted(i)]

OracleReplays == oracle = ApplyAll(FreshReplica, CommittedLog)

\* Whoever got an answer got what the committed log answers.
AnswersTrue ==
    \A i \in Taken : ops[i].outcome = "Applied" =>
        i \in Acted /\ ops[i].result = oracle.results[ops[i].index]

\* Who calls after another was answered acts after it.
RealTime ==
    \A i, j \in Taken :
        ops[i].outcome = "Applied" /\ ops[i].finish <= ops[j].invoke /\ j \in Acted
            => ops[i].index < ops[j].index

ClientInv ==
    /\ OpsShape /\ Apart /\ TakenByLeader /\ AllAsked
    /\ Numbered /\ OracleReplays /\ AnswersTrue /\ RealTime

-----------------------------------------------------------------------------
(* The kinds of steps *)

\* Some operation is recorded as refused.
Refused ==
    /\ UNCHANGED clock
    /\ \E c \in Operation : ops' = Append(ops, Submitted(Nil, c, "Rejected", clock, 0, 0))

\* A step of no node.
Watches ==
    /\ UNCHANGED <<vars, replicaVars>>
    /\ UNCHANGED <<ops, clock>> \/ Refused \/ ResolvePending

\* A step of a node that appends nothing to its log on its own.
Runs ==
    /\ UNCHANGED <<ops, clock>>
    /\ \E n \in Node : Goes(n) /\ ~ Extend(n)

\* The entry of command c in the log of a leader n.
Proposed(n, c) == [term |-> currentTerm[n], payload |-> CommandPayload(Encode(c))]

\* Leader n takes command c.
Takes(n, c) ==
    /\ UNCHANGED clock
    /\ Goes(n) /\ Extend(n) /\ log'[n] = Append(log[n], Proposed(n, c))
    /\ ops' = Append(ops, Submitted(n, c, "Pending", Never, Len(log[n]) + 1, currentTerm[n]))

\* Only a proposal adds an entry to a leader's log: every other call leaves the
\* log as it is, moves the commit index only, or consumes a message.
LEMMA OnlyProposalsExtend ==
    ASSUME TypeInv, PlainState, NEW n \in Node,
           \/ StartElection(n) \/ Heartbeat(n) \/ Restart(n)
           \/ \E m \in msgs : /\ m.to = n
                              /\ \/ OnRequestVote(m) \/ OnRequestVoteResponse(m)
                                 \/ OnAppendEntries(m) \/ OnAppendEntriesResponse(m)
           \/ \E m \in msgs : Lose(m)
    PROVE  ~ Extend(n)
<1>1. log[n] \in Seq(Entry) /\ role \in [Node -> {Follower, Candidate, Leader}]
  BY DEF TypeInv, TypeOK
<1>2. Extend(n) => log' # log /\ role'[n] = Leader /\ msgs' = msgs
  BY <1>1, AppendProperties DEF Extend, Leads
<1>3. CASE StartElection(n) \/ Heartbeat(n) \/ \E m \in msgs : Lose(m)
  BY <1>2, <1>3 DEF StartElection, Heartbeat, Lose
<1>4. CASE Restart(n)
  BY <1>1, <1>2, <1>4 DEF Restart, Follower, Leader
<1>5. ASSUME NEW m \in msgs, OnRequestVote(m) PROVE ~ Extend(n)
  BY <1>2, <1>5 DEF OnRequestVote, DisregardRequestVote, AnswerRequestVote
<1>6. ASSUME NEW m \in msgs, OnRequestVoteResponse(m) PROVE ~ Extend(n)
  BY <1>2, <1>6 DEF OnRequestVoteResponse, AdoptTerm, CountVote
<1>7. ASSUME NEW m \in msgs, OnAppendEntries(m) PROVE ~ Extend(n)
  <2>1. CASE RejectAppendEntries(m)
    BY <1>2, <2>1 DEF RejectAppendEntries
  <2>2. CASE AcceptAppendEntries(m)
    <3>1. msgs' = (msgs \ {m}) \cup {AppendEntriesResponse(m.to, m.from, m.term, TRUE,
                                                       m.prevLogIndex + Len(m.entries))}
      BY <2>2 DEF AcceptAppendEntries, Reply
    <3>2. m \notin msgs'
      BY <1>7, <3>1 DEF OnAppendEntries, AppendEntriesResponse
    <3> QED
      BY <1>2, <3>2
  <2> QED
    BY <1>7, <2>1, <2>2 DEF OnAppendEntries
<1>8. ASSUME NEW m \in msgs, OnAppendEntriesResponse(m) PROVE ~ Extend(n)
  <2>1. CASE AdoptTerm(m) \/ BackOff(m)
    BY <1>2, <2>1 DEF AdoptTerm, BackOff
  <2>2. CASE RecordMatch(m, m.matchIndex)
    <3>1. \/ msgs' = msgs \ {m}
          \/ msgs' = (msgs \ {m}) \cup {ReplicateTo(m.to, m.from)'}
      BY <2>2 DEF RecordMatch, ReplicateIfBehind, Reply
    <3>2. ReplicateTo(m.to, m.from)' # m
      BY <1>8 DEF OnAppendEntriesResponse, ReplicateTo, Replication
    <3> QED
      BY <1>2, <3>1, <3>2
  <2> QED
    BY <1>8, <2>1, <2>2 DEF OnAppendEntriesResponse
<1> QED
  BY <1>3, <1>4, <1>5, <1>6, <1>7, <1>8

\* Every step is some node's.
LEMMA NextGoes == ASSUME Plain, PlainInv, Next PROVE \E n \in Node : Goes(n)
<1>1. PlainInv'
  BY PlainInductive
<1>2. PICK n \in Node : Moves(n)
  BY PlainMoves
<1> QED
  BY <1>1, <1>2 DEF Goes, PlainInv

\* What clients ask for is something the store can do.
LEMMA CommandsAreOperations ==
    ASSUME OpsShape, Len(ops) < MaxOps
    PROVE  RandomCommand \subseteq Operation /\ RandomCommand # {}
<1>1. Len(ops) \in Nat
  BY DEF OpsShape
<1>2. Len(ops) + 1 \in 1 .. MaxOps
  BY <1>1, HarnessAssumption
<1>3. <<Len(ops) + 1>> \in Value
  BY <1>2, HarnessAssumption
<1> DEFINE v == <<Len(ops) + 1>>
<1>4. v \in Value
  BY <1>3
<1> HIDE DEF v
<1>5. RandomCommand = [kind : Kinds \cap {"Set"}, key : Key, value : {v}]
                         \cup [kind : Kinds \cap {"Delete", "Get"}, key : Key]
  BY DEF RandomCommand, v
<1>6. RandomCommand \subseteq Operation
  BY <1>4, <1>5 DEF Operation
<1>7. PICK k \in Key, d \in Kinds : d \in {"Set", "Delete", "Get"}
  BY HarnessAssumption
<1>8. CASE d = "Set"
  <2>1. [kind |-> d, key |-> k, value |-> v] \in RandomCommand
    BY <1>5, <1>8
  <2> QED
    BY <1>6, <2>1
<1>9. CASE d # "Set"
  <2>1. [kind |-> d, key |-> k] \in RandomCommand
    BY <1>5, <1>7, <1>9
  <2> QED
    BY <1>6, <2>1
<1> QED
  BY <1>8, <1>9

\* A step is one of those.
LEMMA HarnessSteps ==
    ASSUME Plain, ReplicaInv, OpsShape, HarnessStep
    PROVE  /\ Watches \/ (Next /\ ReplicasAct /\ (Runs \/ \E n \in Node : \E c \in Operation : Takes(n, c)))
           /\ up' \subseteq Node
<1>0. PlainInv /\ TypeInv /\ PlainState /\ up \subseteq Node
  BY DEF ReplicaInv, PlainInv, OpsShape
<1>1. CASE Submit
  <2>1. PICK n \in Targets : \/ \E command \in RandomCommand : SubmitAccepted(n, command)
                             \/ SubmitRejected(n)
    BY <1>1 DEF Submit
  <2>2. n \in Node /\ UNCHANGED <<up, clock>> /\ Len(ops) < MaxOps
    BY <1>0, <1>1 DEF Targets, CurrentLeaders, Submit
  <2>3. RandomCommand \subseteq Operation /\ RandomCommand # {}
    BY <2>2, CommandsAreOperations
  <2>4. CASE SubmitRejected(n)
    <3>1. (CHOOSE x \in RandomCommand : TRUE) \in Operation
      BY <2>3
    <3>2. UNCHANGED <<vars, replicaVars>> /\ Refused
      BY <2>2, <2>4, <3>1 DEF SubmitRejected, Refused
    <3> QED
      BY <1>0, <2>2, <3>2 DEF Watches
  <2>5. ASSUME NEW c \in RandomCommand, SubmitAccepted(n, c)
        PROVE  Next /\ ReplicasAct /\ Takes(n, c)
    <3>1. c \in Operation /\ ReplicaPropose(n, c)
      BY <2>3, <2>5 DEF SubmitAccepted
    <3>2. Next /\ Calls(n) /\ DrainCommitted(n)
      BY <2>2, <3>1, ProposeActs
    <3>3. Goes(n) /\ ReplicasAct
      BY <1>0, <2>2, <3>2, CallGoes DEF ReplicasAct
    <3>4. Encode(c) \in Command /\ Propose(n, Encode(c))
      BY <3>1, ReplicaAssumption DEF ReplicaPropose
    <3>5. Extend(n) /\ log'[n] = Append(log[n], Proposed(n, c))
      BY <1>0, <2>2, <3>4, PlainPropose DEF PlainInv, Proposed
    <3> DEFINE index == LastLogIndex(n) + 1
    <3>6. index = Len(log[n]) + 1 /\ Len(log[n]) \in Nat /\ snapshot'[n].index = 0
      BY <1>0, <2>2, <3>3, NodeTypes DEF LastLogIndex, PlainState, Goes, Moves
    <3>7. TermIn(log'[n], snapshot'[n], index) = currentTerm[n]
      <4>1. log[n] \in Seq(Entry) /\ Proposed(n, c) \in Entry
        BY <1>0, <2>2, <3>4, NodeTypes DEF Proposed, Entry, Payload, CommandPayload
      <4>2. index \in DOMAIN log'[n] /\ log'[n][index] = Proposed(n, c)
        BY <3>5, <3>6, <4>1, AppendProperties
      <4>3. index # 0 /\ index # snapshot'[n].index /\ index - snapshot'[n].index = index
        BY <3>6
      <4> HIDE DEF index
      <4> QED
        BY <4>2, <4>3 DEF TermIn, Proposed
    <3>8. ops' = Append(ops, Submitted(n, c, "Pending", Never, index,
                                       TermIn(log'[n], snapshot'[n], index)))
      BY <2>5 DEF SubmitAccepted
    <3>9. ops' = Append(ops, Submitted(n, c, "Pending", Never, Len(log[n]) + 1, currentTerm[n]))
      BY <3>6, <3>7, <3>8
    <3> QED
      BY <2>2, <3>2, <3>3, <3>5, <3>9 DEF Takes
  <2> QED
    BY <1>0, <2>1, <2>2, <2>3, <2>4, <2>5
<1>2. CASE ResolvePending
  BY <1>0, <1>2 DEF ResolvePending, Watches
<1>3. ASSUME NEW n \in Crashable, InjectRandomFault(n)
      PROVE  /\ Watches \/ (Next /\ ReplicasAct /\ Runs)
             /\ up' \subseteq Node
  <2>1. CASE RestartUp(n)
    BY <1>0, <2>1 DEF RestartUp, Watches
  <2>2. CASE Crash(n)
    <3>1. n \in Node /\ Next /\ Restart(n) /\ Recover(n)
      BY <2>2, RestartActs DEF Crash
    <3>2. Goes(n) /\ ~ Extend(n)
      BY <1>0, <3>1, CallGoes, OnlyProposalsExtend
    <3> QED
      BY <1>0, <2>2, <3>1, <3>2 DEF ReplicasAct, Runs, Crash
  <2> QED
    BY <1>3, <2>1, <2>2 DEF InjectRandomFault
<1>4. ASSUME NEW n \in Node, Tick(n) PROVE Next /\ ReplicasAct /\ Runs /\ up' \subseteq Node
  <2>1. Next /\ Calls(n) /\ DrainCommitted(n) /\ (StartElection(n) \/ Heartbeat(n))
    BY <1>4, TickActs DEF Tick, ReplicaTick
  <2>2. Goes(n) /\ ~ Extend(n)
    BY <1>0, <2>1, CallGoes, OnlyProposalsExtend
  <2> QED
    BY <1>0, <1>4, <2>1, <2>2 DEF ReplicasAct, Runs, Tick, harnessVars
<1>5. ASSUME NEW m \in msgs, Deliver(m) PROVE Next /\ ReplicasAct /\ Runs /\ up' \subseteq Node
  <2>1. ReplicaStep(m) /\ UNCHANGED harnessVars
    BY <1>5 DEF Deliver
  <2>2. m.to \in Node /\ Next /\ Calls(m.to) /\ DrainCommitted(m.to)
    BY <1>0, <2>1, StepActs
  <2>3. PICK n \in Node : n = m.to
    BY <2>2
  <2>4. ~ OnInstallSnapshot(m) /\ ~ OnInstallSnapshotResponse(m)
    BY <1>0 DEF PlainState, PlainMsg, OnInstallSnapshot, OnInstallSnapshotResponse
  <2>5. \/ OnRequestVote(m) \/ OnRequestVoteResponse(m)
        \/ OnAppendEntries(m) \/ OnAppendEntriesResponse(m)
    BY <2>1, <2>4 DEF ReplicaStep
  <2>6. Goes(n) /\ ~ Extend(n)
    BY <1>0, <2>2, <2>3, <2>5, CallGoes, OnlyProposalsExtend
  <2> QED
    BY <1>0, <2>1, <2>2, <2>6 DEF ReplicasAct, Runs, harnessVars
<1>6. ASSUME NEW m \in msgs, Drop(m) PROVE Next /\ ReplicasAct /\ Runs /\ up' \subseteq Node
  <2>1. Next /\ Lose(m) /\ UNCHANGED replicaVars /\ UNCHANGED harnessVars
    BY <1>6, LoseActs DEF Drop
  <2>2. \E n \in Node : Goes(n)
    BY <1>0, <2>1, NextGoes
  <2> QED
    BY <1>0, <2>1, <2>2, OnlyProposalsExtend DEF ReplicasAct, Runs, harnessVars
<1> QED
  BY <1>1, <1>2, <1>3, <1>4, <1>5, <1>6 DEF HarnessStep

-----------------------------------------------------------------------------
(* What is counted committed *)

\* Entries whose indices are 1 to M, each once, are M, and each is the one at its
\* index.
LEMMA IndexedSet ==
    ASSUME NEW C, C \subseteq [index : Nat, entry : Entry], NEW M \in Nat,
           {c.index : c \in C} = 1 .. M, \A c, d \in C : c.index = d.index => c = d
    PROVE  /\ IsFiniteSet(C) /\ Cardinality(C) = M
           /\ \A c \in C : c.index \in 1 .. M /\ (CHOOSE d \in C : d.index = c.index) = c
           /\ \A i \in 1 .. M : \E c \in C : c.index = i
<1>1. \A i \in 1 .. M : \E c \in C : c.index = i
  OBVIOUS
<1>2. \A c \in C : c.index \in 1 .. M /\ (CHOOSE d \in C : d.index = c.index) = c
  OBVIOUS
<1> DEFINE f == [i \in 1 .. M |-> CHOOSE c \in C : c.index = i]
<1>3. \A i \in 1 .. M : f[i] \in C /\ f[i].index = i
  BY <1>1
<1>4. \A c \in C : f[c.index] = c
  BY <1>2
<1>5. f \in [1 .. M -> C]
  BY <1>3
<1> HIDE DEF f
<1>6. f \in Bijection(1 .. M, C)
  BY <1>2, <1>3, <1>4, <1>5 DEF Bijection, Injection, Surjection, IsInjective
<1>7. ExistsBijection(1 .. M, C)
  BY <1>6 DEF ExistsBijection
<1> QED
  BY <1>1, <1>2, <1>7, FS_CountingElements, FS_NatBijection

\* What the numbering of the committed entries gives.
LEMMA CountedEntries ==
    ASSUME TypeInv, StateMachineSafety, Numbered
    PROVE  /\ Cardinality(committed) \in Nat
           /\ \A c \in committed : c.index \in 1 .. Cardinality(committed) /\ Counted(c.index) = c.entry
           /\ \A i \in 1 .. Cardinality(committed) :
                 [index |-> i, entry |-> Counted(i)] \in committed /\ Counted(i) \in Entry
           /\ CommittedLog \in Seq(Entry) /\ Len(CommittedLog) = Cardinality(committed)
<1> DEFINE K == Cardinality(committed)
<1>1. committed \subseteq [index : Nat, entry : Entry]
  BY DEF TypeInv, TypeOK
<1>2. K \in Nat
  BY FS_CardinalityType DEF Numbered
<1>3. {c.index : c \in committed} = 1 .. K /\ \A c, d \in committed : c.index = d.index => c = d
  BY DEF Numbered, StateMachineSafety
<1> HIDE DEF K
<1>4. /\ \A c \in committed : c.index \in 1 .. K /\ (CHOOSE d \in committed : d.index = c.index) = c
      /\ \A i \in 1 .. K : \E c \in committed : c.index = i
  BY <1>1, <1>2, <1>3, IndexedSet
<1>5. \A c \in committed : c.index \in 1 .. K /\ Counted(c.index) = c.entry
  BY <1>4 DEF Counted
<1>6. ASSUME NEW i \in 1 .. K
      PROVE  [index |-> i, entry |-> Counted(i)] \in committed /\ Counted(i) \in Entry
  <2>1. PICK c \in committed : c.index = i
    BY <1>4
  <2>2. c = [index |-> i, entry |-> c.entry] /\ c.entry \in Entry /\ Counted(i) = c.entry
    BY <1>1, <1>5, <2>1
  <2> QED
    BY <2>1, <2>2
<1>7. CommittedLog = [i \in 1 .. K |-> Counted(i)]
  BY DEF CommittedLog, K
<1>8. CommittedLog \in Seq(Entry) /\ Len(CommittedLog) = K
  <2>1. \A i \in 1 .. K : Counted(i) \in Entry
    BY <1>6
  <2> QED
    BY <1>2, <1>7, <2>1
<1> QED
  BY <1>2, <1>5, <1>6, <1>8 DEF K

\* A node counts no more committed than all of them together.
LEMMA CommitCounted ==
    ASSUME TypeInv, StateMachineSafety, Numbered, Recorded, NEW n \in Node
    PROVE  /\ commitIndex[n] \in Nat /\ commitIndex[n] <= Cardinality(committed)
           /\ \A i \in 1 .. commitIndex[n] : Counted(i) = log[n][i]
<1>1. commitIndex[n] \in Nat /\ Cardinality(committed) \in Nat
  BY NodeTypes, CountedEntries
<1>2. ASSUME NEW i \in 1 .. commitIndex[n]
      PROVE  i \in 1 .. Cardinality(committed) /\ Counted(i) = log[n][i]
  <2> DEFINE c == [index |-> i, entry |-> log[n][i]]
  <2>1. c \in committed /\ c.index = i /\ c.entry = log[n][i]
    BY DEF Recorded
  <2> HIDE DEF c
  <2> QED
    BY <2>1, CountedEntries
<1>3. commitIndex[n] <= Cardinality(committed)
  <2>1. CASE commitIndex[n] = 0
    BY <1>1, <2>1
  <2>2. CASE commitIndex[n] # 0
    <3>1. commitIndex[n] \in 1 .. commitIndex[n]
      BY <1>1, <2>2
    <3>2. commitIndex[n] \in 1 .. Cardinality(committed)
      BY <1>2, <3>1
    <3> QED
      BY <1>1, <3>2
  <2> QED
    BY <2>1, <2>2
<1> QED
  BY <1>1, <1>2, <1>3

\* What a node newly counts committed follows what was counted before.
LEMMA CommittedMoves ==
    ASSUME NEW n \in Node, Goes(n), Recorded, NodeCommit', StateMachineSafety,
           StateMachineSafety', Numbered
    PROVE  /\ Numbered' /\ committed \subseteq committed'
           /\ Cardinality(committed) \in Nat /\ Cardinality(committed)' \in Nat
           /\ Cardinality(committed) <= Cardinality(committed)'
           /\ \A c \in committed' : c \notin committed =>
                 /\ c.index \in Nat /\ c.index > Cardinality(committed)
                 /\ c.index \in DOMAIN log'[n] /\ c.entry = log'[n][c.index]
<1> DEFINE K == Cardinality(committed)
           New == {[index |-> i, entry |-> log'[n][i]] :
                      i \in (commitIndex[n] + 1) .. commitIndex'[n]}
<1>0. /\ TypeInv /\ TypeInv' /\ K \in Nat /\ commitIndex[n] \in Nat /\ commitIndex[n] <= K
      /\ commitIndex'[n] \in Nat /\ Len(log'[n]) \in Nat /\ DOMAIN log'[n] = 1 .. Len(log'[n])
  BY CountedEntries, CommitCounted, NodeTypesNext DEF Goes, Moves
<1>1. {c.index : c \in committed} = 1 .. K
  BY DEF Numbered
<1>2. commitIndex'[n] <= Len(log'[n])
  <2>1. TypeInv' /\ NodeCommit' => (\A v \in Node : commitIndex[v] <= Len(log[v]))'
    BY CommitHeld, PTL
  <2> QED
    BY <1>0, <2>1
<1>3. committed' \subseteq [index : Nat, entry : Entry]
  BY <1>0 DEF TypeInv, TypeOK
<1> HIDE DEF K
<1>4. CASE committed' = committed
  <2>1. Numbered'
    BY <1>4 DEF Numbered
  <2> QED
    BY <1>0, <1>4, <2>1 DEF K
<1>5. CASE committed' # committed
  <2>1. committed' = committed \cup New
    BY <1>5, Recording DEF Records
  <2>2. \A c \in New : /\ c.index \in (commitIndex[n] + 1) .. commitIndex'[n]
                       /\ c.entry = log'[n][c.index]
    OBVIOUS
  <2>3. ASSUME NEW i \in (commitIndex[n] + 1) .. commitIndex'[n] PROVE \E c \in New : c.index = i
    <3>1. [index |-> i, entry |-> log'[n][i]] \in New
      OBVIOUS
    <3> HIDE DEF New
    <3> QED
      BY <3>1
  <2> HIDE DEF New
  <2>4. \A c \in committed' : c \notin committed => c.index > K
    <3> SUFFICES ASSUME NEW c \in committed', c \notin committed, c.index <= K PROVE FALSE
      BY <1>0, <1>3
    <3>1. c.index \in 1 .. K
      BY <1>0, <2>1, <2>2
    <3>2. PICK d \in committed : d.index = c.index
      BY <1>1, <3>1
    <3>3. c = d
      BY <2>1, <3>2 DEF StateMachineSafety
    <3> QED
      BY <3>3
  <2>5. PICK b \in Nat : b = commitIndex'[n]
    BY <1>0
  <2>6. b > K
    <3>1. PICK c \in committed' : c \notin committed
      BY <1>5, <2>1
    <3>2. c.index > K /\ c.index \in (commitIndex[n] + 1) .. b
      BY <2>1, <2>2, <2>4, <2>5, <3>1
    <3> QED
      BY <1>0, <3>2
  <2>7. {c.index : c \in committed'} = 1 .. b
    <3>1. ASSUME NEW c \in committed' PROVE c.index \in 1 .. b
      <4>1. CASE c \in committed
        <5>1. c.index \in 1 .. K
          BY <1>1, <4>1
        <5> QED
          BY <1>0, <2>6, <5>1
      <4>2. CASE c \in New
        BY <1>0, <2>2, <2>5, <4>2
      <4> QED
        BY <2>1, <4>1, <4>2
    <3>2. ASSUME NEW i \in 1 .. b PROVE \E c \in committed' : c.index = i
      <4>1. CASE i <= K
        <5>1. i \in 1 .. K
          BY <1>0, <4>1
        <5>2. \E c \in committed : c.index = i
          BY <1>1, <5>1
        <5> QED
          BY <2>1, <5>2
      <4>2. CASE i > K
        <5>1. i \in (commitIndex[n] + 1) .. commitIndex'[n]
          BY <1>0, <2>5, <4>2
        <5> QED
          BY <2>1, <2>3, <5>1
      <4> QED
        BY <1>0, <4>1, <4>2
    <3> QED
      BY <3>1, <3>2
  <2>8. \A c, d \in committed' : c.index = d.index => c = d
    BY DEF StateMachineSafety
  <2>9. IsFiniteSet(committed') /\ Cardinality(committed') = b
    BY <1>3, <2>7, <2>8, IndexedSet
  <2>10. Numbered'
    BY <2>7, <2>9 DEF Numbered
  <2>11. \A c \in committed' : c \notin committed =>
           /\ c.index \in Nat /\ c.index > K
           /\ c.index \in DOMAIN log'[n] /\ c.entry = log'[n][c.index]
    BY <1>0, <1>2, <2>1, <2>2, <2>4
  <2> QED
    BY <1>0, <2>1, <2>6, <2>9, <2>10, <2>11 DEF K
<1> QED
  BY <1>4, <1>5

-----------------------------------------------------------------------------
(* What the committed log answers *)

\* Nothing but commands is in es.
Commands(es) == \A k \in DOMAIN es : es[k].payload.type = "Command"

\* The k-th command of es.
Asked(es, k) == Decode(es[k].payload.command)[1]

\* Every command of es gets an answer, that of the map it is applied to, and the
\* answers before it stay.
LEMMA CourseAnswers ==
    ASSUME NEW a \in Nat, NEW acc, Applied(acc, a), DOMAIN acc.results = 1 .. a,
           NEW es \in Seq(Entry), Commands(es), NEW f, Course(f, acc, es, Len(es))
    PROVE  /\ \A k \in 0 .. Len(es) :
                 /\ Applied(f[k], a + k) /\ DOMAIN f[k].results = 1 .. (a + k)
                 /\ \A i \in 1 .. a : f[k].results[i] = acc.results[i]
                 /\ \A i \in 1 .. k :
                       f[k].results[a + i] = Apply(f[i - 1].machine, Asked(es, i)).result
           /\ \A k \in 1 .. Len(es) : f[k].machine = Apply(f[k - 1].machine, Asked(es, k)).machine
<1> DEFINE N == Len(es)
           Out(k) == Apply(f[k - 1].machine, Asked(es, k))
           Good(k) == /\ DOMAIN f[k].results = 1 .. (a + k)
                      /\ \A i \in 1 .. a : f[k].results[i] = acc.results[i]
                      /\ \A i \in 1 .. k : f[k].results[a + i] = Out(i).result
<1>1. /\ N \in Nat /\ \A k \in 0 .. (N - 1) : k + 1 \in 1 .. N /\ k + 1 \in DOMAIN es
      /\ \A k \in 0 .. N : Applied(f[k], a + k)
  BY CourseKeeps
<1>2. Course(f, acc, es, N)
  OBVIOUS
<1> HIDE DEF N
<1>3. ASSUME NEW k \in 0 .. (N - 1)
      PROVE  /\ f[k + 1].machine = Out(k + 1).machine
             /\ f[k + 1].results = With(f[k].results, a + k + 1, Out(k + 1).result)
  <2>1. f[k + 1] = ApplyEntry(f[k], es[k + 1]) /\ es[k + 1].payload.type = "Command"
    BY <1>1, <1>2 DEF Course, Commands
  <2>2. f[k].machine.lastApplied = a + k /\ k + 1 - 1 = k
    <3>1. Applied(f[k], a + k)
      BY <1>1
    <3> QED
      BY <3>1 DEF Applied
  <2>3. Out(k + 1) = Apply(f[k].machine, Decode(es[k + 1].payload.command)[1])
    BY <2>2 DEF Asked
  <2> HIDE DEF Out
  <2>4. ApplyEntry(f[k], es[k + 1]) = [machine |-> Out(k + 1).machine,
                                       results |-> With(f[k].results, a + k + 1, Out(k + 1).result)]
    BY <2>1, <2>2, <2>3 DEF ApplyEntry
  <2> QED
    BY <2>1, <2>4
<1> HIDE DEF Out
<1> DEFINE S == {k \in 0 .. N : Good(k)}
<1>4. 0 \in S
  <2>1. f[0] = acc /\ a + 0 = a /\ 0 \in 0 .. N
    BY <1>1, <1>2 DEF Course
  <2>2. Good(0)
    BY <2>1
  <2> QED
    BY <2>1, <2>2
<1>5. ASSUME NEW k \in 0 .. (N - 1), k \in S PROVE k + 1 \in S
  <2> DEFINE r == f[k].results
             s == f[k + 1].results
             x == a + k + 1
             v == Out(k + 1).result
  <2>1. s = [i \in DOMAIN r \cup {x} |-> IF i = x THEN v ELSE r[i]]
    BY <1>3 DEF With
  <2>2. /\ DOMAIN r = 1 .. (a + k) /\ \A i \in 1 .. a : r[i] = acc.results[i]
        /\ \A i \in 1 .. k : r[a + i] = Out(i).result
    BY <1>5
  <2>3. x = a + (k + 1) /\ x \in Nat /\ k + 1 \in 0 .. N /\ k \in Nat /\ x = a + k + 1
    BY <1>1
  <2> HIDE DEF r, s, x
  <2>4. DOMAIN s = 1 .. x
    <3>1. PICK y \in Nat : y = a + k
      BY <2>3
    <3>2. DOMAIN s = (1 .. y) \cup {y + 1} /\ x = y + 1
      BY <2>1, <2>2, <2>3, <3>1
    <3> QED
      BY <3>1, <3>2
  <2>5. \A i \in 1 .. a : s[i] = acc.results[i]
    BY <2>1, <2>2, <2>3
  <2>6. ASSUME NEW i \in 1 .. (k + 1) PROVE s[a + i] = Out(i).result
    <3>1. CASE i = k + 1
      BY <2>1, <2>3, <3>1
    <3>2. CASE i # k + 1
      <4>1. i \in 1 .. k /\ a + i # x /\ a + i \in DOMAIN r
        BY <2>2, <2>3, <3>2
      <4> QED
        BY <2>1, <2>2, <4>1
    <3> QED
      BY <3>1, <3>2
  <2>7. Good(k + 1)
    BY <2>3, <2>4, <2>5, <2>6 DEF s
  <2> QED
    BY <2>3, <2>7
<1>6. \A k \in S : Good(k)
  OBVIOUS
<1> HIDE DEF S
<1>7. \A k \in 0 .. N : Good(k)
  BY <1>1, <1>4, <1>5, <1>6, Induction
<1>8. ASSUME NEW k \in 1 .. N PROVE f[k].machine = Out(k).machine
  <2>1. PICK j \in 0 .. (N - 1) : k = j + 1
    <3>1. k - 1 \in 0 .. (N - 1) /\ k = (k - 1) + 1
      BY <1>1
    <3> QED
      BY <3>1
  <2> QED
    BY <1>3, <2>1
<1> QED
  BY <1>1, <1>7, <1>8 DEF N, Out

\* Everything counted committed is a command some client asked for.
LEMMA CommittedCommands ==
    ASSUME TypeInv, StateMachineSafety, OpsShape, AllAsked, Numbered
    PROVE  /\ Commands(CommittedLog)
           /\ \A k \in 1 .. Cardinality(committed) :
                 /\ CommittedLog[k] = Counted(k)
                 /\ \E i \in Taken : EntryOf(i, k, Counted(k)) /\ Asked(CommittedLog, k) = ops[i].command
<1>1. DOMAIN CommittedLog = 1 .. Cardinality(committed)
  BY DEF CommittedLog
<1>2. ASSUME NEW k \in 1 .. Cardinality(committed)
      PROVE  /\ CommittedLog[k] = Counted(k) /\ CommittedLog[k].payload.type = "Command"
             /\ \E i \in Taken : EntryOf(i, k, Counted(k)) /\ Asked(CommittedLog, k) = ops[i].command
  <2>1. CommittedLog[k] = Counted(k)
    BY DEF CommittedLog
  <2> DEFINE c == [index |-> k, entry |-> Counted(k)]
  <2>2. c \in committed /\ c.index = k /\ c.entry = Counted(k)
    BY CountedEntries
  <2> HIDE DEF c
  <2>3. PICK i \in Taken : EntryOf(i, k, Counted(k))
    BY <2>2 DEF AllAsked
  <2>4. Counted(k).payload = CommandPayload(Encode(ops[i].command)) /\ ops[i].command \in Operation
    BY <2>3 DEF EntryOf, Taken, OpsShape, OpShape
  <2>5. Asked(CommittedLog, k) = ops[i].command
    BY <2>1, <2>4, CommandRoundTrip DEF Asked, CommandPayload, Some
  <2> QED
    BY <2>1, <2>3, <2>4, <2>5 DEF CommandPayload
<1> QED
  BY <1>1, <1>2 DEF Commands

\* The whole replay, entry by entry.
LEMMA OracleCourse ==
    ASSUME TypeInv, StateMachineSafety, OpsShape, AllAsked, Numbered, OracleReplays
    PROVE  /\ Applied(oracle, Cardinality(committed))
           /\ DOMAIN oracle.results = 1 .. Cardinality(committed)
           /\ \E f : /\ f[0] = FreshReplica /\ f[Cardinality(committed)] = oracle
                     /\ \A k \in 1 .. Cardinality(committed) :
                           LET out == Apply(f[k - 1].machine, Asked(CommittedLog, k))
                           IN  f[k].machine = out.machine /\ oracle.results[k] = out.result
<1> DEFINE K == Cardinality(committed)
<1>1. K \in Nat /\ CommittedLog \in Seq(Entry) /\ Len(CommittedLog) = K /\ Commands(CommittedLog)
  BY CountedEntries, CommittedCommands
<1>2. PICK f : Course(f, FreshReplica, CommittedLog, K) /\ oracle = f[K]
  BY <1>1, ReplaySteps DEF OracleReplays
<1> HIDE DEF K
<1>3. PICK z \in Nat : z = 0
  OBVIOUS
<1>4. Applied(FreshReplica, z) /\ DOMAIN FreshReplica.results = 1 .. z
  BY <1>3, FreshApplied DEF FreshReplica
<1>5. /\ \A k \in 0 .. K :
            /\ Applied(f[k], z + k) /\ DOMAIN f[k].results = 1 .. (z + k)
            /\ \A i \in 1 .. k :
                  f[k].results[z + i] = Apply(f[i - 1].machine, Asked(CommittedLog, i)).result
      /\ \A k \in 1 .. K : f[k].machine = Apply(f[k - 1].machine, Asked(CommittedLog, k)).machine
  BY <1>1, <1>2, <1>4, CourseAnswers
<1>6. K \in 0 .. K /\ \A i \in 0 .. K : z + i = i
  BY <1>1, <1>3
<1>7. Applied(oracle, K) /\ DOMAIN oracle.results = 1 .. K
  BY <1>2, <1>5, <1>6
<1>8. \A i \in 1 .. K : oracle.results[i] = Apply(f[i - 1].machine, Asked(CommittedLog, i)).result
  <2>1. \A i \in 1 .. K :
           f[K].results[z + i] = Apply(f[i - 1].machine, Asked(CommittedLog, i)).result
    BY <1>5, <1>6
  <2>2. \A i \in 1 .. K : z + i = i
    BY <1>3
  <2> QED
    BY <1>2, <2>1, <2>2
<1> QED
  BY <1>2, <1>5, <1>7, <1>8 DEF K, Course

\* The oracle replays what is newly counted, which follows what was.
LEMMA OracleMoves ==
    ASSUME TypeInv, StateMachineSafety, Numbered, TypeInv', StateMachineSafety', Numbered',
           committed \subseteq committed', Cardinality(committed) <= Cardinality(committed'),
           OracleReplays, oracle' = ApplyAll(oracle, Fresh)
    PROVE  /\ OracleReplays'
           /\ Fresh \in Seq(Entry) /\ Len(Fresh) = Cardinality(committed') - Cardinality(committed)
           /\ \A k \in 1 .. Len(Fresh) : Fresh[k] = CommittedLog'[Cardinality(committed) + k]
<1> DEFINE K == Cardinality(committed)
           M == Cardinality(committed')
           cl == CommittedLog'
<1>1. /\ K \in Nat /\ CommittedLog \in Seq(Entry) /\ Len(CommittedLog) = K
      /\ \A c \in committed : c.index \in 1 .. K /\ Counted(c.index) = c.entry
      /\ \A i \in 1 .. K : [index |-> i, entry |-> Counted(i)] \in committed
  BY CountedEntries
<1>2. /\ M \in Nat /\ cl \in Seq(Entry) /\ Len(cl) = M
      /\ \A c \in committed' : c.index \in 1 .. M /\ (Counted(c.index) = c.entry)'
  <2>1. TypeInv' /\ StateMachineSafety' /\ Numbered' =>
          (/\ Cardinality(committed) \in Nat /\ CommittedLog \in Seq(Entry)
           /\ Len(CommittedLog) = Cardinality(committed)
           /\ \A c \in committed : c.index \in 1 .. Cardinality(committed) /\ Counted(c.index) = c.entry)'
    BY CountedEntries, PTL
  <2> QED
    BY <2>1
<1> DEFINE Now(i) == (CHOOSE c \in committed' : c.index = i).entry
<1>3. cl = [i \in 1 .. M |-> Now(i)]
  BY DEF CommittedLog, Counted
<1>4. CommittedLog = [i \in 1 .. K |-> Counted(i)]
  BY DEF CommittedLog
<1>5. \A i \in 1 .. K : Now(i) = Counted(i)
  <2> SUFFICES ASSUME NEW i \in 1 .. K PROVE Now(i) = Counted(i)
    OBVIOUS
  <2>1. PICK c : c = [index |-> i, entry |-> Counted(i)] /\ c \in committed'
    BY <1>1
  <2>2. (Counted(c.index) = c.entry)'
    BY <1>2, <2>1
  <2> QED
    BY <2>1, <2>2 DEF Counted
<1>6. Fresh = [k \in 1 .. M - K |-> Now(K + k)]
  BY DEF Fresh
<1>7. K <= M
  OBVIOUS
<1> HIDE DEF K, M, Now, cl
<1>8. M - K \in Nat /\ \A k \in 1 .. M - K : K + k \in 1 .. M
  BY <1>1, <1>2, <1>7
<1>9. \A k \in 1 .. M - K : Fresh[k] = cl[K + k]
  BY <1>3, <1>6, <1>8
<1>10. /\ SubSeq(cl, K + 1, M) \in Seq(Entry) /\ Len(SubSeq(cl, K + 1, M)) = M - K
       /\ \A k \in 1 .. (M - K) : SubSeq(cl, K + 1, M)[k] = cl[K + k]
  BY <1>1, <1>2, <1>7, Between
<1>11. Fresh = SubSeq(cl, K + 1, M)
  <2> DEFINE rest == SubSeq(cl, K + 1, M)
  <2>1. rest = [k \in 1 .. (M - K) |-> rest[k]]
    <3>1. rest \in Seq(Entry) /\ Len(rest) = M - K
      BY <1>10
    <3> HIDE DEF rest
    <3> QED
      BY <3>1
  <2>2. \A k \in 1 .. (M - K) : rest[k] = Fresh[k]
    BY <1>9, <1>10
  <2> HIDE DEF rest
  <2>3. Fresh = [k \in 1 .. (M - K) |-> Fresh[k]]
    BY <1>6
  <2>4. Fresh = rest
    BY <2>1, <2>2, <2>3
  <2> QED
    BY <2>4 DEF rest
<1>12. SubSeq(cl, 1, K) = CommittedLog
  <2>1. SubSeq(cl, 1, K) = [i \in 1 .. K |-> cl[i]]
    BY <1>1, <1>2, <1>7
  <2>2. \A i \in 1 .. K : cl[i] = Counted(i)
    BY <1>1, <1>2, <1>3, <1>5, <1>7
  <2> QED
    BY <1>4, <2>1, <2>2
<1>13. SubSeq(cl, 1, M) = cl
  BY <1>2
<1>14. oracle = ApplyAll(FreshReplica, SubSeq(cl, 1, K))
  BY <1>12 DEF OracleReplays
<1>15. oracle' = ApplyAll(FreshReplica, cl)
  <2>1. ApplyAll(ApplyAll(FreshReplica, SubSeq(cl, 1, K)), SubSeq(cl, K + 1, M))
           = ApplyAll(FreshReplica, SubSeq(cl, 1, M))
    BY <1>1, <1>2, <1>7, ReplayOn
  <2> QED
    BY <1>11, <1>13, <1>14, <2>1
<1>16. OracleReplays'
  BY <1>15 DEF OracleReplays, cl
<1>17. Fresh \in Seq(Entry) /\ Len(Fresh) = M - K
  BY <1>10, <1>11
<1> QED
  BY <1>9, <1>16, <1>17 DEF K, M, cl

\* If nothing is newly counted the oracle stays.
LEMMA OracleRests ==
    ASSUME Numbered, committed' = committed, oracle' = ApplyAll(oracle, Fresh)
    PROVE  oracle' = oracle
<1>1. Cardinality(committed) \in Nat
  BY FS_CardinalityType DEF Numbered
<1>2. Cardinality(committed') - Cardinality(committed) = 0
  BY <1>1
<1> DEFINE Now(i) == (CHOOSE c \in committed' : c.index = i).entry
<1>3. Fresh = [k \in 1 .. Cardinality(committed') - Cardinality(committed) |-> Now(Cardinality(committed) + k)]
  BY DEF Fresh
<1> HIDE DEF Now
<1>4. Fresh = <<>>
  BY <1>2, <1>3
<1> QED
  BY <1>4, ReplayNothing

-----------------------------------------------------------------------------
(* What is recorded of the operations *)

\* One more record.
LEMMA AppendAny ==
    ASSUME NEW s, s \in Seq({s[i] : i \in DOMAIN s}), NEW x
    PROVE  LET t == Append(s, x)
           IN  /\ t \in Seq({t[i] : i \in DOMAIN t})
               /\ Len(s) \in Nat /\ DOMAIN s = 1 .. Len(s) /\ DOMAIN t = 1 .. (Len(s) + 1)
               /\ \A i \in DOMAIN s : t[i] = s[i]
               /\ t[Len(s) + 1] = x
<1> DEFINE T == {s[i] : i \in DOMAIN s}
           t == Append(s, x)
           U == T \cup {x}
<1>1. s \in Seq(U) /\ x \in U
  <2>1. s \in Seq(T)
    OBVIOUS
  <2> HIDE DEF T
  <2> QED
    BY <2>1
<1> HIDE DEF U
<1>2. /\ t \in Seq(U) /\ Len(s) \in Nat /\ DOMAIN s = 1 .. Len(s) /\ Len(t) = Len(s) + 1
      /\ \A i \in 1 .. Len(s) : t[i] = s[i]
      /\ t[Len(s) + 1] = x
  BY <1>1, AppendProperties
<1> HIDE DEF t
<1>3. DOMAIN t = 1 .. (Len(s) + 1) /\ t = [i \in 1 .. Len(t) |-> t[i]] /\ Len(t) \in Nat
  BY <1>2
<1>4. t \in Seq({t[i] : i \in DOMAIN t})
  <2> DEFINE V == {t[i] : i \in DOMAIN t}
  <2>1. \A i \in 1 .. Len(t) : t[i] \in V
    BY <1>2, <1>3
  <2> HIDE DEF V
  <2>2. t \in Seq(V)
    BY <1>3, <2>1
  <2> QED
    BY <2>2 DEF V
<1> QED
  BY <1>2, <1>3, <1>4 DEF t

\* What an operation was, and what came of it.
SameCall(i) ==
    /\ ops'[i].index = ops[i].index /\ ops'[i].term = ops[i].term
    /\ ops'[i].command = ops[i].command /\ ops'[i].invoke = ops[i].invoke

SameAnswer(i) ==
    /\ ops'[i].outcome = ops[i].outcome /\ ops'[i].finish = ops[i].finish
    /\ ops'[i].result = ops[i].result

\* Operation i is answered by what its target found, or given up.
Answered(i) ==
    /\ i \in Resolvable /\ ops'[i].outcome = "Applied"
    /\ ops'[i].result = results[ops[i].target][ops[i].index]

GivenUp(i) == ops[i].outcome = "Pending" /\ ops'[i].outcome = "Indeterminate"

\* A round of resolve_pending.
LEMMA ResolveOps ==
    ASSUME OpsShape, ResolvePending
    PROVE  /\ clock' = clock + 1 /\ UNCHANGED <<vars, replicaVars>>
           /\ ops' \in Seq({ops'[i] : i \in DOMAIN ops'}) /\ DOMAIN ops' = DOMAIN ops
           /\ \A i \in DOMAIN ops :
                 /\ SameCall(i) /\ DOMAIN ops'[i] = OpFields
                 /\ \/ SameAnswer(i)
                    \/ (Answered(i) \/ GivenUp(i)) /\ ops'[i].finish = clock + 1
<1>1. /\ ops \in Seq({ops[i] : i \in DOMAIN ops})
      /\ \A i \in DOMAIN ops : DOMAIN ops[i] = OpFields
  BY DEF OpsShape, OpShape
<1>2. Len(ops) \in Nat /\ DOMAIN ops = 1 .. Len(ops)
  BY <1>1
<1>3. PICK late \in SUBSET Pending :
         ops' = [i \in DOMAIN ops |-> CASE i \in Resolvable -> Resolved(ops[i])
                                        [] i \in late -> TimedOut(ops[i])
                                        [] OTHER -> ops[i]]
  BY DEF ResolvePending
<1>4. ASSUME NEW i \in DOMAIN ops
      PROVE  \/ ops'[i] = ops[i]
             \/ i \in Resolvable /\ ops'[i] = Resolved(ops[i])
             \/ i \in Pending /\ ops'[i] = TimedOut(ops[i])
  BY <1>3
<1>5. DOMAIN ops' = DOMAIN ops /\ ops' = [i \in 1 .. Len(ops) |-> ops'[i]]
  BY <1>2, <1>3
<1>6. ops' \in Seq({ops'[i] : i \in DOMAIN ops'})
  <2> DEFINE V == {ops'[i] : i \in DOMAIN ops'}
  <2>1. \A i \in 1 .. Len(ops) : ops'[i] \in V
    BY <1>2, <1>5
  <2> HIDE DEF V
  <2>2. ops' \in Seq(V)
    BY <1>2, <1>5, <2>1
  <2> QED
    BY <2>2 DEF V
<1>7. ASSUME NEW i \in DOMAIN ops
      PROVE  /\ SameCall(i) /\ DOMAIN ops'[i] = OpFields
             /\ \/ SameAnswer(i)
                \/ (Answered(i) \/ GivenUp(i)) /\ ops'[i].finish = clock + 1
  <2>1. DOMAIN ops[i] = {"invoke", "finish", "command", "outcome", "result", "target", "index", "term"}
    BY <1>1 DEF OpFields
  <2>2. CASE ops'[i] = ops[i]
    BY <2>1, <2>2 DEF SameCall, SameAnswer, OpFields
  <2>3. CASE i \in Resolvable /\ ops'[i] = Resolved(ops[i])
    <3>1. ops'[i] = [ops[i] EXCEPT !.outcome = "Applied", !.finish = clock + 1,
                                   !.result = results[ops[i].target][ops[i].index]]
      BY <2>3 DEF Resolved
    <3> QED
      BY <2>1, <2>3, <3>1 DEF SameCall, Answered, OpFields
  <2>4. CASE i \in Pending /\ ops'[i] = TimedOut(ops[i])
    BY <2>1, <2>4 DEF SameCall, GivenUp, OpFields, TimedOut, Pending
  <2> QED
    BY <1>4, <2>2, <2>3, <2>4
<1> QED
  BY <1>5, <1>6, <1>7 DEF ResolvePending

\* The index and the term of a call stay, answers do, and what is new was refused
\* or taken by a leader.
LEMMA OpsMove ==
    ASSUME TypeInv, OpsShape, up' \subseteq Node,
           Watches \/ Runs \/ \E n \in Node : \E c \in Operation : Takes(n, c)
    PROVE  /\ OpsShape' /\ clock <= clock'
           /\ DOMAIN ops \subseteq DOMAIN ops'
           /\ \A i \in DOMAIN ops :
                 /\ SameCall(i)
                 /\ \/ SameAnswer(i)
                    \/ (Answered(i) \/ GivenUp(i)) /\ ops'[i].finish = clock + 1 /\ UNCHANGED vars
           /\ \A i \in DOMAIN ops' : i \notin DOMAIN ops =>
                 /\ ops'[i].outcome \in {"Rejected", "Pending"} /\ ops'[i].invoke = clock
                 /\ ops'[i].outcome # "Rejected" =>
                       \E n \in Node : \E c \in Operation :
                           /\ Takes(n, c) /\ i = Len(ops) + 1
                           /\ ops'[i].index = Len(log[n]) + 1 /\ ops'[i].term = currentTerm[n]
                           /\ ops'[i].command = c
<1>1. /\ clock \in Nat /\ ops \in Seq({ops[i] : i \in DOMAIN ops})
      /\ \A i \in DOMAIN ops : OpShape(ops[i])
  BY DEF OpsShape
<1>2. CASE UNCHANGED <<ops, clock>>
  <2>1. OpsShape'
    BY <1>2 DEF OpsShape, OpShape
  <2> QED
    BY <1>1, <1>2, <2>1 DEF SameCall, SameAnswer
<1>3. ASSUME NEW o, ops' = Append(ops, o), clock' = clock, DOMAIN o = OpFields,
             o.invoke = clock, o.finish \in Int, o.command \in Operation, o.outcome \in {"Rejected", "Pending"},
             o.index \in Nat, o.term \in Nat, o.outcome = "Rejected" <=> o.index = 0
      PROVE  /\ OpsShape' /\ clock <= clock'
             /\ DOMAIN ops \subseteq DOMAIN ops'
             /\ \A i \in DOMAIN ops : SameCall(i) /\ SameAnswer(i)
             /\ \A i \in DOMAIN ops' : i \notin DOMAIN ops => i = Len(ops) + 1 /\ ops'[i] = o
  <2>1. /\ ops' \in Seq({ops'[i] : i \in DOMAIN ops'})
        /\ Len(ops) \in Nat /\ DOMAIN ops = 1 .. Len(ops) /\ DOMAIN ops' = 1 .. (Len(ops) + 1)
        /\ \A i \in DOMAIN ops : ops'[i] = ops[i]
        /\ ops'[Len(ops) + 1] = o
    <3> DEFINE t == Append(ops, o)
    <3>1. /\ t \in Seq({t[i] : i \in DOMAIN t})
          /\ Len(ops) \in Nat /\ DOMAIN ops = 1 .. Len(ops) /\ DOMAIN t = 1 .. (Len(ops) + 1)
          /\ \A i \in DOMAIN ops : t[i] = ops[i]
          /\ t[Len(ops) + 1] = o
      BY <1>1, AppendAny
    <3>2. ops' = t
      BY <1>3
    <3> HIDE DEF t
    <3> QED
      BY <3>1, <3>2
  <2>2. \A i \in DOMAIN ops' : i \notin DOMAIN ops => i = Len(ops) + 1
    BY <2>1
  <2>3. OpShape(o)'
    BY <1>1, <1>3 DEF OpShape, Outcomes
  <2>4. ASSUME NEW i \in DOMAIN ops' PROVE OpShape(ops[i])'
    <3>1. CASE i \in DOMAIN ops
      BY <1>1, <1>3, <2>1, <3>1 DEF OpShape
    <3>2. CASE i \notin DOMAIN ops
      <4>1. ops'[i] = o
        BY <2>1, <2>2, <3>2
      <4> QED
        BY <2>3, <4>1 DEF OpShape
    <3> QED
      BY <3>1, <3>2
  <2>5. OpsShape'
    BY <1>1, <1>3, <2>1, <2>4 DEF OpsShape
  <2> QED
    BY <1>1, <1>3, <2>1, <2>2, <2>5 DEF SameCall, SameAnswer
<1>4. CASE Refused
  <2>1. PICK c \in Operation : ops' = Append(ops, Submitted(Nil, c, "Rejected", clock, 0, 0))
    BY <1>4 DEF Refused
  <2> DEFINE o == Submitted(Nil, c, "Rejected", clock, 0, 0)
  <2>2. /\ DOMAIN o = OpFields /\ o.invoke = clock /\ o.finish \in Int /\ o.command \in Operation
        /\ o.outcome = "Rejected" /\ o.index = 0 /\ o.term = 0
    BY <1>1 DEF Submitted, OpFields
  <2> HIDE DEF o
  <2>3. /\ OpsShape' /\ clock <= clock'
        /\ DOMAIN ops \subseteq DOMAIN ops'
        /\ \A i \in DOMAIN ops : SameCall(i) /\ SameAnswer(i)
        /\ \A i \in DOMAIN ops' : i \notin DOMAIN ops => i = Len(ops) + 1 /\ ops'[i] = o
    BY <1>3, <1>4, <2>1, <2>2 DEF Refused, o
  <2> QED
    BY <2>2, <2>3
<1>5. ASSUME NEW n \in Node, NEW c \in Operation, Takes(n, c)
      PROVE  /\ OpsShape' /\ clock <= clock'
             /\ DOMAIN ops \subseteq DOMAIN ops'
             /\ \A i \in DOMAIN ops : SameCall(i) /\ SameAnswer(i)
             /\ \A i \in DOMAIN ops' : i \notin DOMAIN ops =>
                   /\ ops'[i].outcome = "Pending" /\ ops'[i].invoke = clock
                   /\ i = Len(ops) + 1
                   /\ ops'[i].index = Len(log[n]) + 1 /\ ops'[i].term = currentTerm[n]
                   /\ ops'[i].command = c
  <2> DEFINE o == Submitted(n, c, "Pending", Never, Len(log[n]) + 1, currentTerm[n])
  <2>1. Len(log[n]) \in Nat /\ currentTerm[n] \in Nat
    BY NodeTypes
  <2>2. /\ DOMAIN o = OpFields /\ o.invoke = clock /\ o.finish \in Int /\ o.command = c
        /\ o.outcome = "Pending" /\ o.index = Len(log[n]) + 1 /\ o.term = currentTerm[n]
    BY <1>1 DEF Submitted, OpFields, Never
  <2> HIDE DEF o
  <2>3. ops' = Append(ops, o) /\ clock' = clock
    BY <1>5 DEF Takes, o
  <2>4. o.index # 0 /\ o.index \in Nat /\ o.term \in Nat
    BY <2>1, <2>2
  <2>5. /\ OpsShape' /\ clock <= clock'
        /\ DOMAIN ops \subseteq DOMAIN ops'
        /\ \A i \in DOMAIN ops : SameCall(i) /\ SameAnswer(i)
        /\ \A i \in DOMAIN ops' : i \notin DOMAIN ops => i = Len(ops) + 1 /\ ops'[i] = o
    BY <1>3, <2>2, <2>3, <2>4
  <2> QED
    BY <2>2, <2>5
<1>6. CASE ResolvePending
  <2>1. /\ clock' = clock + 1 /\ UNCHANGED <<vars, replicaVars>>
        /\ ops' \in Seq({ops'[i] : i \in DOMAIN ops'}) /\ DOMAIN ops' = DOMAIN ops
        /\ \A i \in DOMAIN ops :
              /\ SameCall(i) /\ DOMAIN ops'[i] = OpFields
              /\ \/ SameAnswer(i)
                 \/ (Answered(i) \/ GivenUp(i)) /\ ops'[i].finish = clock + 1
    BY <1>6, ResolveOps
  <2>2. ASSUME NEW i \in DOMAIN ops PROVE OpShape(ops[i])'
    <3>1. /\ OpShape(ops[i]) /\ SameCall(i) /\ DOMAIN ops'[i] = OpFields
          /\ \/ SameAnswer(i)
             \/ (Answered(i) \/ GivenUp(i)) /\ ops'[i].finish = clock + 1
      BY <1>1, <2>1
    <3>2. /\ ops'[i].outcome \in Outcomes /\ (ops'[i].outcome = "Rejected" <=> ops[i].outcome = "Rejected")
          /\ ops'[i].finish \in Int
      BY <1>1, <3>1 DEF OpShape, SameAnswer, Answered, Resolvable, Pending, GivenUp, Outcomes
    <3>3. /\ ops'[i].index = ops[i].index /\ ops'[i].term = ops[i].term
          /\ ops'[i].command = ops[i].command /\ ops'[i].invoke = ops[i].invoke
      BY <3>1 DEF SameCall
    <3>4. ops[i].invoke \in 0 .. clock'
      <4>1. ops[i].invoke \in 0 .. clock
        BY <3>1 DEF OpShape
      <4> QED
        BY <1>1, <2>1, <4>1
    <3> QED
      BY <3>1, <3>2, <3>3, <3>4 DEF OpShape
  <2>3. OpsShape'
    BY <1>1, <2>1, <2>2 DEF OpsShape
  <2> QED
    BY <1>1, <2>1, <2>3
<1> QED
  BY <1>2, <1>4, <1>5, <1>6 DEF Watches, Runs

\* What was taken stays taken, and what is newly taken was just proposed.
LEMMA TakenMoves ==
    ASSUME TypeInv, OpsShape, up' \subseteq Node,
           Watches \/ Runs \/ \E n \in Node : \E c \in Operation : Takes(n, c)
    PROVE  /\ Taken \subseteq Taken' /\ Taken \subseteq DOMAIN ops
           /\ \A i \in Taken : SameCall(i)
           /\ \A i \in Taken' : i \notin Taken =>
                 /\ i \notin DOMAIN ops /\ ops'[i].outcome = "Pending"
                 /\ \E n \in Node : \E c \in Operation :
                       /\ Takes(n, c) /\ i = Len(ops) + 1
                       /\ ops'[i].index = Len(log[n]) + 1 /\ ops'[i].term = currentTerm[n]
                       /\ ops'[i].command = c
<1>1. \A i \in DOMAIN ops : /\ i \in DOMAIN ops' /\ SameCall(i)
                            /\ SameAnswer(i) \/ Answered(i) \/ GivenUp(i)
  BY OpsMove
<1>2. \A i \in DOMAIN ops : ops'[i].outcome = "Rejected" <=> ops[i].outcome = "Rejected"
  BY <1>1 DEF SameAnswer, Answered, GivenUp, Resolvable, Pending
<1>3. Taken \subseteq Taken' /\ Taken \subseteq DOMAIN ops /\ \A i \in Taken : SameCall(i)
  BY <1>1, <1>2 DEF Taken
<1>4. ASSUME NEW i \in Taken', i \notin Taken
      PROVE  /\ i \notin DOMAIN ops /\ ops'[i].outcome = "Pending"
             /\ \E n \in Node : \E c \in Operation :
                   /\ Takes(n, c) /\ i = Len(ops) + 1
                   /\ ops'[i].index = Len(log[n]) + 1 /\ ops'[i].term = currentTerm[n]
                   /\ ops'[i].command = c
  <2>1. i \in DOMAIN ops' /\ ops'[i].outcome # "Rejected" /\ i \notin DOMAIN ops
    BY <1>2, <1>4 DEF Taken
  <2> QED
    BY <2>1, OpsMove
<1> QED
  BY <1>3, <1>4

\* A leader gives no two commands the same index, and nobody else has its term.
LEMMA NamesStay ==
    ASSUME NEW n \in Node, Goes(n), OpsShape, OpsShape', up' \subseteq Node,
           Apart, TakenByLeader, (~ Extend(n) /\ Runs) \/ \E c \in Operation : Takes(n, c)
    PROVE  Apart' /\ TakenByLeader'
<1>0. /\ TypeInv /\ Offices /\ ElectionSafety /\ ElectionSafety' /\ Moves(n) /\ Len(log[n]) \in Nat
      /\ Watches \/ Runs \/ \E k \in Node : \E c \in Operation : Takes(k, c)
  BY NodeTypes DEF Goes, Moves, LogInv
<1>1. /\ Taken \subseteq Taken'
      /\ \A i \in Taken : ops'[i].index = ops[i].index /\ ops'[i].term = ops[i].term
      /\ \A i \in Taken : ops[i].index \in Nat
  BY <1>0, TakenMoves DEF SameCall, Taken, OpsShape, OpShape
<1>2. ASSUME NEW i \in Taken', i \notin Taken
      PROVE  /\ i = Len(ops) + 1 /\ role[n] = Leader /\ Won(n, ops'[i].term)
             /\ ops'[i].index = Len(log[n]) + 1 /\ ops'[i].index = Len(log'[n])
             /\ ops'[i].term = currentTerm[n]
  <2>1. PICK k \in Node : \E c \in Operation :
                           /\ Takes(k, c) /\ i = Len(ops) + 1
                           /\ ops'[i].index = Len(log[k]) + 1 /\ ops'[i].term = currentTerm[k]
    BY <1>0, <1>2, TakenMoves
  <2>2. Moves(k) /\ Extend(k)
    BY <2>1 DEF Takes, Goes
  <2>3. role[k] = Leader /\ Len(log'[k]) = Len(log[k]) + 1 /\ log'[k] # log[k]
    <3>1. Len(log[k]) \in Nat
      BY <1>0, NodeTypes
    <3>2. role[k] = Leader /\ Len(log'[k]) = Len(log[k]) + 1
      BY <2>2, ExtendLog
    <3> QED
      BY <3>1, <3>2
  <2>4. k = n
    BY <1>0, <2>3, LogMoves
  <2>5. Won(n, currentTerm[n])
    BY <1>0, <2>3, <2>4 DEF Offices
  <2> QED
    BY <2>1, <2>3, <2>4, <2>5
<1>3. \A l, t : Won(l, t) => Won(l, t)'
  BY <1>0, TermsGrow DEF Won
<1>4. Apart'
  <2>1. ASSUME NEW i \in Taken', NEW j \in Taken', i \in Taken, j \notin Taken, ops'[i].term = ops'[j].term
        PROVE  ops'[i].index # ops'[j].index
    <3>1. ops[i].index <= Len(log[n])
      BY <1>1, <1>2, <2>1 DEF TakenByLeader
    <3> QED
      BY <1>0, <1>1, <1>2, <2>1, <3>1
  <2>2. ASSUME NEW i \in Taken', NEW j \in Taken', ops'[i].index = ops'[j].index, ops'[i].term = ops'[j].term
        PROVE  i = j
    <3>1. CASE i \in Taken /\ j \in Taken
      BY <1>1, <2>2, <3>1 DEF Apart
    <3>2. CASE i \notin Taken /\ j \notin Taken
      BY <1>2, <3>2
    <3>3. CASE i \in Taken /\ j \notin Taken
      BY <2>1, <2>2, <3>3
    <3>4. CASE i \notin Taken /\ j \in Taken
      BY <2>1, <2>2, <3>4
    <3> QED
      BY <3>1, <3>2, <3>3, <3>4
  <2> QED
    BY <2>2 DEF Apart
<1>5. ASSUME NEW i \in Taken' PROVE (\E l \in Node : Won(l, ops[i].term))'
  <2>1. \E l \in Node : Won(l, ops'[i].term)
    BY <1>1, <1>2 DEF TakenByLeader
  <2> QED
    BY <2>1, <1>3 DEF Won
<1>6. ASSUME NEW i \in Taken', NEW l \in Node, role'[l] = Leader, currentTerm'[l] = ops'[i].term
      PROVE  ops'[i].index <= Len(log'[l])
  <2>1. Len(log[l]) \in Nat /\ Len(log'[l]) \in Nat
    BY <1>0, NodeTypes, NodeTypesNext DEF Moves
  <2>2. CASE role[l] = Leader /\ currentTerm'[l] = currentTerm[l]
    <3>1. Len(log[l]) <= Len(log'[l])
      BY <1>0, <1>6, <2>2, LeaderKeeps
    <3>2. CASE i \in Taken
      <4>1. ops[i].index <= Len(log[l])
        BY <1>1, <1>6, <2>2, <3>2 DEF TakenByLeader
      <4> QED
        BY <1>1, <2>1, <3>1, <3>2, <4>1
    <3>3. CASE i \notin Taken
      <4>1. Won(l, ops'[i].term) /\ Won(n, ops'[i].term)
        BY <1>0, <1>2, <1>6, <2>2, <3>3 DEF Offices
      <4>2. l = n
        BY <1>0, <4>1, WinnerIsOne
      <4>3. ops'[i].index = Len(log'[n])
        BY <1>2, <3>3
      <4> QED
        BY <2>1, <4>2, <4>3
    <3> QED
      BY <3>2, <3>3
  <2>3. CASE ~ (role[l] = Leader /\ currentTerm'[l] = currentTerm[l])
    <3>1. l = n /\ role[n] # Leader /\ \A k \in Node : ~ Won(k, currentTerm'[n])
      BY <1>0, <1>6, <2>3, WhoLeads
    <3>2. CASE i \in Taken
      BY <1>1, <1>6, <3>1, <3>2 DEF TakenByLeader
    <3>3. CASE i \notin Taken
      BY <1>2, <3>1, <3>3
    <3> QED
      BY <3>2, <3>3
  <2> QED
    BY <2>2, <2>3
<1> QED
  BY <1>4, <1>5, <1>6 DEF TakenByLeader, Won

\* Whatever is in a log, in flight or counted committed, somebody asked for it.
LEMMA AskedStays ==
    ASSUME NEW n \in Node, Goes(n), OpsShape, up' \subseteq Node, AllAsked,
           (~ Extend(n) /\ Runs) \/ \E c \in Operation : Takes(n, c),
           \A c \in committed' : c \notin committed =>
                 c.index \in DOMAIN log'[n] /\ c.entry = log'[n][c.index]
    PROVE  AllAsked'
<1>0. /\ TypeInv /\ Moves(n) /\ log[n] \in Seq(Entry)
      /\ Watches \/ Runs \/ \E k \in Node : \E c \in Operation : Takes(k, c)
  BY NodeTypes DEF Goes, Moves
<1>1. \A i \in Taken : i \in Taken' /\ SameCall(i)
  BY <1>0, TakenMoves
<1>2. ASSUME NEW i, NEW x, NEW e, EntryOf(i, x, e) PROVE EntryOf(i, x, e)'
  BY <1>1, <1>2 DEF EntryOf, SameCall
<1>3. ASSUME NEW x \in Links' PROVE \E i : EntryOf(i, x.index, x.entry)'
  <2>1. CASE x \in Links
    BY <1>2, <2>1 DEF AllAsked
  <2>2. CASE x \notin Links
    <3>1. Extend(n) /\ x.index = Len(log'[n]) /\ x = Link(0, 0, log'[n], Len(log'[n]))
      BY <1>0, <2>2, LinksGrow
    <3>2. PICK c \in Operation : Takes(n, c)
      BY <3>1
    <3> DEFINE o == Submitted(n, c, "Pending", Never, Len(log[n]) + 1, currentTerm[n])
    <3>0. PICK i : i = Len(ops) + 1
      OBVIOUS
    <3>3. /\ DOMAIN ops' = 1 .. (Len(ops) + 1) /\ ops'[Len(ops) + 1] = o /\ Len(ops) \in Nat
      <4>1. ops' = Append(ops, o)
        BY <3>2 DEF Takes
      <4> HIDE DEF o
      <4> QED
        BY <4>1, AppendAny DEF OpsShape
    <3>4. /\ o.outcome = "Pending" /\ o.index = Len(log[n]) + 1 /\ o.term = currentTerm[n]
          /\ o.command = c
      BY DEF Submitted
    <3>5. Len(log'[n]) = Len(log[n]) + 1 /\ x.entry = Proposed(n, c)
      <4>1. log'[n] = Append(log[n], Proposed(n, c)) /\ Len(log'[n]) = Len(log[n]) + 1
        BY <1>0, <3>1, <3>2, ExtendLog DEF Takes
      <4>2. log'[n][Len(log[n]) + 1] = Proposed(n, c)
        BY <1>0, <4>1
      <4> QED
        BY <3>1, <4>1, <4>2 DEF Link
    <3>6. i \in Taken'
      BY <3>0, <3>3, <3>4 DEF Taken
    <3> HIDE DEF o
    <3>7. EntryOf(i, x.index, x.entry)'
      <4>1. ops'[i].index = x.index /\ ops'[i].term = currentTerm[n] /\ ops'[i].command = c
        BY <3>0, <3>1, <3>3, <3>4, <3>5
      <4>2. x.entry.term = currentTerm[n] /\ x.entry.payload = CommandPayload(Encode(c))
        BY <3>5 DEF Proposed
      <4> QED
        BY <3>6, <4>1, <4>2 DEF EntryOf
    <3> QED
      BY <3>7
  <2> QED
    BY <2>1, <2>2
<1>4. ASSUME NEW c \in committed' PROVE \E i : EntryOf(i, c.index, c.entry)'
  <2>1. CASE c \in committed
    BY <1>2, <2>1 DEF AllAsked
  <2>2. CASE c \notin committed
    <3>1. c.index \in DOMAIN log'[n] /\ c.entry = log'[n][c.index]
      BY <2>2
    <3>2. c.index \in Nat
      BY <3>1, NodeTypesNext DEF Goes, Moves
    <3> DEFINE x == Link(0, 0, log'[n], c.index)
    <3>3. x \in Links' /\ x.index = c.index /\ x.entry = c.entry
      BY <3>1, <3>2, LinksIn DEF LogLinks, Link
    <3> HIDE DEF x
    <3> QED
      BY <1>3, <3>3
  <2> QED
    BY <2>1, <2>2
<1> QED
  BY <1>3, <1>4 DEF AllAsked, EntryOf

-----------------------------------------------------------------------------
(* What clients were told *)

\* What has acted is counted committed.
LEMMA ActedCounted ==
    ASSUME TypeInv, StateMachineSafety, Numbered, NEW i \in Acted
    PROVE  ops[i].index \in 1 .. Cardinality(committed) /\ Counted(ops[i].index).term = ops[i].term
<1>1. PICK c \in committed : c.index = ops[i].index /\ c.entry.term = ops[i].term
  BY DEF Acted
<1> QED
  BY <1>1, CountedEntries

\* A result that a target can vouch for is the one the committed log gives: it has
\* applied the entry, and nobody else's is there.
LEMMA ResolvableActed ==
    ASSUME ReplicaInv, StateMachineSafety, OpsShape, AllAsked, Numbered, OracleReplays,
           NEW i \in Resolvable
    PROVE  i \in Acted /\ results[ops[i].target][ops[i].index] = oracle.results[ops[i].index]
<1>0. /\ TypeInv /\ PlainState /\ Recorded /\ NodeCommit /\ MachineInv
      /\ i \in DOMAIN ops /\ up \subseteq Node
  BY DEF ReplicaInv, PlainInv, CommitInv, Resolvable, Pending, OpsShape
<1>1. PICK t \in Node : t = ops[i].target
  BY <1>0 DEF Resolvable
<1>2. PICK x \in Nat : x = ops[i].index
  BY <1>0 DEF OpsShape, OpShape
<1> DEFINE k == commitIndex[t]
           K == Cardinality(committed)
           lg == log[t]
           rest == SubSeq(CommittedLog, k + 1, K)
<1>3. /\ lg \in Seq(Entry) /\ k \in Nat /\ k <= Len(lg) /\ snapshot[t].index = 0
  BY <1>0, NodeTypes, CommitHeld DEF PlainState
<1>4. /\ machine[t].lastApplied >= x /\ StillOwn(ops[i]) /\ x \in DOMAIN results[t]
  BY <1>1, <1>2 DEF Resolvable
<1>5. /\ Held(t) = ApplyAll(FreshReplica, Prefix(lg, k)) /\ Applied(Held(t), k)
  BY <1>0, <1>3, ReplayApplied DEF MachineInv
<1>6. x <= k
  <2>1. machine[t].lastApplied = k
    BY <1>5 DEF Applied, Held
  <2> QED
    BY <1>4, <2>1
<1>7. x > 0 /\ x \in DOMAIN lg /\ lg[x].term = ops[i].term
  <2>1. x > 0 /\ x - 0 \in DOMAIN lg /\ TermAt(t, x) = ops[i].term
    BY <1>1, <1>2, <1>3, <1>4 DEF StillOwn, EntryHeld
  <2>2. x # 0 /\ x - 0 = x
    BY <2>1
  <2>3. TermAt(t, x) = lg[x].term
    BY <1>3, <2>1, <2>2 DEF TermAt, TermIn
  <2> QED
    BY <2>1, <2>2, <2>3
<1>8. i \in Acted
  <2> DEFINE c == [index |-> x, entry |-> lg[x]]
  <2>1. c \in committed /\ c.index = x /\ c.entry = lg[x]
    BY <1>0, <1>3, <1>6, <1>7 DEF Recorded
  <2> HIDE DEF c
  <2> QED
    BY <1>0, <1>2, <1>7, <2>1 DEF Acted
<1>9. /\ K \in Nat /\ CommittedLog \in Seq(Entry) /\ Len(CommittedLog) = K /\ k <= K
      /\ \A j \in 1 .. K : CommittedLog[j] = Counted(j)
      /\ \A j \in 1 .. k : Counted(j) = lg[j]
  BY <1>0, CountedEntries, CommitCounted, CommittedCommands
<1>10. oracle = ApplyAll(FreshReplica, CommittedLog)
  BY DEF OracleReplays
<1> HIDE DEF k, K, lg
<1>11. Prefix(lg, k) = Prefix(CommittedLog, k)
  <2>1. \A j \in 1 .. k : lg[j] = CommittedLog[j]
    BY <1>3, <1>9
  <2> QED
    BY <1>3, <1>9, <2>1, SamePrefix
<1>12. oracle = ApplyAll(Held(t), rest)
  <2>1. ApplyAll(ApplyAll(FreshReplica, SubSeq(CommittedLog, 1, k)), rest)
           = ApplyAll(FreshReplica, SubSeq(CommittedLog, 1, K))
    BY <1>3, <1>9, ReplayOn
  <2>2. SubSeq(CommittedLog, 1, K) = CommittedLog
    BY <1>9
  <2> QED
    BY <1>5, <1>10, <1>11, <2>1, <2>2 DEF Prefix
<1>13. rest \in Seq(Entry)
  BY <1>3, <1>9, Between
<1> HIDE DEF rest
<1>14. oracle.results[x] = Held(t).results[x]
  <2>1. x \in DOMAIN Held(t).results
    BY <1>4 DEF Held
  <2> QED
    BY <1>3, <1>5, <1>12, <1>13, <2>1, ReplayAdds
<1> QED
  BY <1>1, <1>2, <1>8, <1>14 DEF Held

\* The answers stay true, and whoever calls after one acts after it: what is newly
\* counted is numbered after what was, and an answer carries a later tick than any
\* call so far.
LEMMA AnswersStay ==
    ASSUME ReplicaInv, StateMachineSafety, ClientInv, up' \subseteq Node,
           Watches \/ Runs \/ \E n \in Node : \E c \in Operation : Takes(n, c),
           oracle' = ApplyAll(oracle, Fresh), Fresh \in Seq(Entry), Apart',
           committed \subseteq committed',
           \A c \in committed' : c \notin committed =>
                 c.index \in Nat /\ c.index > Cardinality(committed)
    PROVE  AnswersTrue' /\ RealTime'
<1> DEFINE K == Cardinality(committed)
<1>0. /\ TypeInv /\ OpsShape /\ Apart /\ AllAsked /\ Numbered /\ OracleReplays
      /\ AnswersTrue /\ RealTime /\ K \in Nat /\ clock \in Nat
  BY CountedEntries DEF ClientInv, ReplicaInv, PlainInv, OpsShape
<1>1. /\ Taken \subseteq Taken' /\ Taken \subseteq DOMAIN ops /\ DOMAIN ops \subseteq DOMAIN ops'
      /\ \A i \in DOMAIN ops :
            /\ SameCall(i)
            /\ \/ SameAnswer(i)
               \/ (Answered(i) \/ GivenUp(i)) /\ ops'[i].finish = clock + 1 /\ UNCHANGED vars
      /\ \A i \in Taken' : i \notin Taken => i \notin DOMAIN ops /\ ops'[i].outcome = "Pending"
      /\ \A i \in DOMAIN ops' : i \notin DOMAIN ops => ops'[i].invoke = clock
  BY <1>0, OpsMove, TakenMoves
<1>2. \A i \in DOMAIN ops : ops[i].index \in Nat /\ ops[i].invoke \in 0 .. clock
  BY <1>0 DEF OpsShape, OpShape
<1>3. ASSUME NEW i \in Acted PROVE i \in Acted' /\ ops[i].index \in 1 .. K
  <2>1. i \in Acted'
    BY <1>1 DEF Acted, SameCall
  <2> QED
    BY <1>0, <2>1, ActedCounted
<1>4. \A x \in 1 .. K : oracle'.results[x] = oracle.results[x]
  <2>1. Applied(oracle, K) /\ DOMAIN oracle.results = 1 .. K
    BY <1>0, OracleCourse
  <2> HIDE DEF K
  <2>2. \A x \in DOMAIN oracle.results : ApplyAll(oracle, Fresh).results[x] = oracle.results[x]
    BY <1>0, <2>1, ReplayAdds
  <2> QED
    BY <2>1, <2>2
<1>5. ASSUME NEW i \in Taken', ops'[i].outcome = "Applied"
      PROVE  /\ i \in Taken /\ i \in Acted /\ ops'[i].index = ops[i].index
             /\ ops'[i].result = oracle.results[ops[i].index]
             /\ \/ ops[i].outcome = "Applied" /\ ops'[i].finish = ops[i].finish
                \/ ops'[i].finish = clock + 1
  <2>1. i \in Taken /\ i \in DOMAIN ops
    BY <1>1, <1>5
  <2>2. CASE SameAnswer(i)
    BY <1>0, <1>1, <1>5, <2>1, <2>2 DEF SameAnswer, SameCall, AnswersTrue
  <2>3. CASE Answered(i) /\ ops'[i].finish = clock + 1
    <3>1. i \in Resolvable /\ ops'[i].result = results[ops[i].target][ops[i].index]
      BY <2>3 DEF Answered
    <3>2. i \in Acted /\ results[ops[i].target][ops[i].index] = oracle.results[ops[i].index]
      BY <1>0, <3>1, ResolvableActed
    <3> QED
      BY <1>1, <2>1, <2>3, <3>1, <3>2 DEF SameCall
  <2> QED
    BY <1>1, <1>5, <2>1, <2>2, <2>3 DEF GivenUp
<1> HIDE DEF K
<1>6. AnswersTrue'
  BY <1>3, <1>4, <1>5 DEF AnswersTrue
<1>7. ASSUME NEW i \in Taken', NEW j \in Taken', ops'[i].outcome = "Applied",
             ops'[i].finish <= ops'[j].invoke, j \in Acted'
      PROVE  ops'[i].index < ops'[j].index
  <2>1. i \in Taken /\ ops'[i].index = ops[i].index /\ ops[i].index \in 1 .. K
    BY <1>3, <1>5, <1>7
  <2>2. ops'[j].invoke \in 0 .. clock
    BY <1>0, <1>1, <1>2, <1>7 DEF SameCall, Taken
  <2>3. ops[i].outcome = "Applied" /\ ops'[i].finish = ops[i].finish
    BY <1>0, <1>5, <1>7, <2>2
  <2>4. PICK c \in committed' : c.index = ops'[j].index /\ c.entry.term = ops'[j].term
    BY <1>7 DEF Acted
  <2>5. CASE j \in Taken /\ j \in Acted
    <3>1. ops'[j].index = ops[j].index /\ ops'[j].invoke = ops[j].invoke
      BY <1>1, <2>5 DEF SameCall
    <3> QED
      BY <1>0, <1>7, <2>1, <2>3, <2>5, <3>1 DEF RealTime
  <2>6. CASE ~ (j \in Taken /\ j \in Acted)
    <3>1. c \notin committed
      <4> SUFFICES ASSUME c \in committed PROVE FALSE
        OBVIOUS
      <4>1. PICK a \in Taken : ops[a].index = c.index /\ ops[a].term = c.entry.term
        BY <1>0 DEF AllAsked, EntryOf
      <4>2. a \in Taken' /\ ops'[a].index = ops'[j].index /\ ops'[a].term = ops'[j].term
        BY <1>1, <2>4, <4>1 DEF SameCall
      <4>3. a = j
        BY <1>7, <4>2 DEF Apart
      <4>4. j \in Acted
        BY <1>1, <4>1, <4>3 DEF Acted
      <4> QED
        BY <2>6, <4>1, <4>3, <4>4
    <3>2. c.index \in Nat /\ c.index > K
      BY <3>1 DEF K
    <3> QED
      BY <1>0, <2>1, <2>4, <3>2
  <2> QED
    BY <2>5, <2>6
<1>8. RealTime'
  BY <1>7 DEF RealTime
<1> QED
  BY <1>6, <1>8

\* Nobody takes anything when no node does a step.
LEMMA WatchesKeep ==
    ASSUME ReplicaInv, ClientInv, up' \subseteq Node, Watches
    PROVE  Apart' /\ TakenByLeader' /\ AllAsked' /\ Numbered' /\ committed' = committed
<1>0. /\ TypeInv /\ OpsShape /\ Apart /\ TakenByLeader /\ AllAsked /\ Numbered
      /\ log' = log /\ role' = role /\ currentTerm' = currentTerm /\ elected' = elected
      /\ committed' = committed /\ msgs' = msgs
  <2>1. UNCHANGED vars
    BY DEF Watches
  <2>2. /\ log' = log /\ role' = role /\ currentTerm' = currentTerm /\ elected' = elected
        /\ committed' = committed /\ msgs' = msgs
    BY <2>1 DEF vars, electionVars
  <2> QED
    BY <2>2 DEF ClientInv, ReplicaInv, PlainInv
<1>1. ASSUME NEW n \in Node, NEW c \in Operation, Takes(n, c) PROVE FALSE
  <2>1. Moves(n) /\ Extend(n) /\ Len(log[n]) \in Nat
    BY <1>1, NodeTypes DEF Takes, Goes, Moves
  <2>2. Len(log'[n]) = Len(log[n]) + 1
    BY <2>1, ExtendLog
  <2> QED
    BY <1>0, <2>1, <2>2
<1>2. /\ Taken' = Taken
      /\ \A i \in Taken : ops'[i].index = ops[i].index /\ ops'[i].term = ops[i].term
                          /\ ops'[i].command = ops[i].command
  <2>1. /\ Taken \subseteq Taken' /\ \A i \in Taken : SameCall(i)
        /\ \A i \in Taken' : i \notin Taken => \E n \in Node : \E c \in Operation : Takes(n, c)
    BY <1>0, TakenMoves
  <2>2. Taken' \subseteq Taken
    BY <1>1, <2>1
  <2> QED
    BY <2>1, <2>2 DEF SameCall
<1>3. Apart'
  BY <1>0, <1>2 DEF Apart
<1>4. TakenByLeader'
  BY <1>0, <1>2 DEF TakenByLeader, Won
<1>5. AllAsked'
  <2>1. Links' = Links
    BY <1>0 DEF Links
  <2>2. \A i, x, e : EntryOf(i, x, e) => EntryOf(i, x, e)'
    BY <1>2 DEF EntryOf
  <2>3. ASSUME NEW x \in Links PROVE \E i : EntryOf(i, x.index, x.entry)'
    BY <1>0, <2>2 DEF AllAsked
  <2>4. ASSUME NEW c \in committed PROVE \E i : EntryOf(i, c.index, c.entry)'
    BY <1>0, <2>2 DEF AllAsked
  <2> QED
    BY <1>0, <2>1, <2>3, <2>4 DEF AllAsked, EntryOf
<1>6. Numbered'
  BY <1>0 DEF Numbered
<1> QED
  BY <1>0, <1>3, <1>4, <1>5, <1>6

-----------------------------------------------------------------------------
(* The invariant *)

\* It holds at the start.
LEMMA InitClient == ASSUME Plain PROVE HarnessInit => ReplicaInv /\ ClientInv
<1> SUFFICES ASSUME HarnessInit PROVE ReplicaInv /\ ClientInv
  OBVIOUS
<1>1. ReplicaInv
  BY InitReplica DEF HarnessInit
<1>2. /\ \A n \in Node : log[n] = <<>>
      /\ msgs = {} /\ committed = {} /\ ops = <<>> /\ clock = 0 /\ up = Node
      /\ oracle = FreshReplica
  BY DEF HarnessInit, ReplicaInit, Init
<1>3. OpsShape /\ Taken = {}
  BY <1>2 DEF OpsShape, Taken
<1>4. Links = {}
  <2>1. \A n \in Node : DOMAIN log[n] = {}
    BY <1>2
  <2> QED
    BY <1>2, <2>1 DEF Links, LinksOf, LogLinks, MsgLinks
<1>5. Numbered /\ Cardinality(committed) = 0
  BY <1>2, FS_EmptySet DEF Numbered
<1>6. OracleReplays
  <2>1. CommittedLog = <<>>
    BY <1>5 DEF CommittedLog
  <2> QED
    BY <1>2, <2>1, ReplayNothing DEF OracleReplays
<1> QED
  BY <1>1, <1>2, <1>3, <1>4, <1>5, <1>6
     DEF ClientInv, Apart, TakenByLeader, AllAsked, AnswersTrue, RealTime

\* What a step of the harness does, to everything the properties are about.
LEMMA HarnessMoves ==
    ASSUME Plain, ReplicaInv, ClientInv, HarnessNext
    PROVE  /\ ReplicaInv' /\ ClientInv' /\ StateMachineSafety /\ StateMachineSafety'
           /\ up' \subseteq Node
           /\ Watches \/ Runs \/ \E n \in Node : \E c \in Operation : Takes(n, c)
           /\ committed \subseteq committed'
           /\ Cardinality(committed) \in Nat /\ Cardinality(committed') \in Nat
           /\ Cardinality(committed) <= Cardinality(committed')
           /\ \A c \in committed' : c \notin committed =>
                 c.index \in Nat /\ c.index > Cardinality(committed)
           /\ Fresh \in Seq(Entry) /\ Len(Fresh) = Cardinality(committed') - Cardinality(committed)
           /\ \A k \in 1 .. Len(Fresh) : Fresh[k] = CommittedLog'[Cardinality(committed) + k]
<1>0. /\ TypeInv /\ Recorded /\ OpsShape /\ Apart /\ TakenByLeader /\ AllAsked /\ Numbered
      /\ OracleReplays
      /\ HarnessStep /\ oracle' = ApplyAll(oracle, Fresh)
  BY DEF ClientInv, ReplicaInv, PlainInv, HarnessNext
<1>1. StateMachineSafety
  BY OnceCommitted DEF ReplicaInv
<1>2. /\ Watches \/ (Next /\ ReplicasAct /\ (Runs \/ \E n \in Node : \E c \in Operation : Takes(n, c)))
      /\ up' \subseteq Node
  BY <1>0, HarnessSteps
<1>3. ReplicaInv'
  BY <1>2, ActsKeep, RestKeeps DEF Watches
<1>4. StateMachineSafety' /\ TypeInv' /\ NodeCommit'
  <2>1. PlainInv' /\ CommitInv'
    BY <1>3 DEF ReplicaInv
  <2>2. PlainInv' /\ CommitInv' => StateMachineSafety'
    BY OnceCommitted, PTL
  <2> QED
    BY <2>1, <2>2 DEF PlainInv, CommitInv
<1>5. OpsShape'
  BY <1>0, <1>2, OpsMove
<1>6. /\ Apart' /\ TakenByLeader' /\ AllAsked' /\ Numbered' /\ committed \subseteq committed'
      /\ Cardinality(committed) \in Nat /\ Cardinality(committed') \in Nat
      /\ Cardinality(committed) <= Cardinality(committed')
      /\ \A c \in committed' : c \notin committed =>
            c.index \in Nat /\ c.index > Cardinality(committed)
  <2>1. CASE Watches
    <3>1. Apart' /\ TakenByLeader' /\ AllAsked' /\ Numbered' /\ committed' = committed
      BY <1>2, <2>1, WatchesKeep
    <3>2. Cardinality(committed) \in Nat
      BY <1>0, <1>1, CountedEntries
    <3> QED
      BY <3>1, <3>2
  <2>2. CASE Runs \/ \E n \in Node : \E c \in Operation : Takes(n, c)
    <3>1. PICK n \in Node : Goes(n) /\ ((~ Extend(n) /\ Runs) \/ \E c \in Operation : Takes(n, c))
      BY <2>2 DEF Runs, Takes
    <3>2. /\ Numbered' /\ committed \subseteq committed'
          /\ Cardinality(committed) \in Nat /\ Cardinality(committed)' \in Nat
          /\ Cardinality(committed) <= Cardinality(committed)'
          /\ \A c \in committed' : c \notin committed =>
                /\ c.index \in Nat /\ c.index > Cardinality(committed)
                /\ c.index \in DOMAIN log'[n] /\ c.entry = log'[n][c.index]
      BY <1>0, <1>1, <1>4, <3>1, CommittedMoves
    <3>3. Apart' /\ TakenByLeader'
      BY <1>0, <1>2, <1>5, <3>1, NamesStay
    <3>4. AllAsked'
      BY <1>0, <1>2, <3>1, <3>2, AskedStays
    <3> QED
      BY <3>2, <3>3, <3>4
  <2> QED
    BY <1>2, <2>1, <2>2
<1>7. /\ OracleReplays'
      /\ Fresh \in Seq(Entry) /\ Len(Fresh) = Cardinality(committed') - Cardinality(committed)
      /\ \A k \in 1 .. Len(Fresh) : Fresh[k] = CommittedLog'[Cardinality(committed) + k]
  BY <1>0, <1>1, <1>4, <1>6, OracleMoves
<1>8. AnswersTrue' /\ RealTime'
  BY <1>0, <1>1, <1>2, <1>6, <1>7, AnswersStay
<1> QED
  BY <1>1, <1>2, <1>3, <1>4, <1>5, <1>6, <1>7, <1>8 DEF ClientInv

\* It holds from the start on.
LEMMA ClientAlways ==
    ASSUME Plain
    PROVE  HarnessSpec => [](ReplicaInv /\ ClientInv)
<1>1. ASSUME ReplicaInv, ClientInv, UNCHANGED allVars PROVE ReplicaInv' /\ ClientInv'
  <2>1. UNCHANGED <<vars, replicaVars, ops, clock, up, oracle>>
    BY <1>1 DEF allVars, harnessVars
  <2>2. /\ UNCHANGED <<vars, replicaVars>> /\ UNCHANGED <<ops, clock>>
        /\ ops' = ops /\ clock' = clock /\ up' = up /\ oracle' = oracle
    BY <2>1
  <2>3. ReplicaInv'
    BY <1>1, <2>1, RestKeeps
  <2>4. ClientInv'
    <3>1. /\ OpsShape /\ up' \subseteq Node /\ Watches
          /\ OracleReplays /\ AnswersTrue /\ RealTime
      BY <1>1, <2>2 DEF ClientInv, OpsShape, Watches
    <3>2. Apart' /\ TakenByLeader' /\ AllAsked' /\ Numbered' /\ committed' = committed
      BY <1>1, <3>1, WatchesKeep
    <3>3. OpsShape'
      BY <2>2, <3>1 DEF OpsShape, OpShape
    <3>4. Taken' = Taken /\ Acted' = Acted
      BY <2>2, <3>2 DEF Taken, Acted
    <3>5. CommittedLog' = CommittedLog
      BY <3>2 DEF CommittedLog, Counted
    <3>6. OracleReplays' /\ AnswersTrue' /\ RealTime'
      BY <2>2, <3>1, <3>4, <3>5 DEF OracleReplays, AnswersTrue, RealTime
    <3> QED
      BY <3>2, <3>3, <3>6 DEF ClientInv
  <2> QED
    BY <2>3, <2>4
<1>2. ReplicaInv /\ ClientInv /\ [HarnessNext]_allVars => ReplicaInv' /\ ClientInv'
  BY <1>1, HarnessMoves
<1> QED
  BY <1>2, InitClient, PTL DEF HarnessSpec

-----------------------------------------------------------------------------
(* The order operations act in *)

\* The operations whose entries are numbered from a + 1 to b.
ActedIn(a, b) == {i \in Acted : ops[i].index > a /\ ops[i].index <= b}

\* Operation order[k] is the one whose entry is the k-th after a.
InTurn(order, a) ==
    \A k \in DOMAIN order :
        /\ order[k] \in Taken /\ order[k] \in Acted /\ ops[order[k]].index = a + k
        /\ ops[order[k]].command = Asked(CommittedLog, a + k)

\* What has acted was taken.
LEMMA ActedTaken ==
    ASSUME TypeInv, StateMachineSafety, OpsShape, Numbered
    PROVE  Acted \subseteq Taken
<1> SUFFICES ASSUME NEW i \in Acted PROVE i \in Taken
  OBVIOUS
<1>1. i \in DOMAIN ops /\ (ops[i].outcome = "Rejected" <=> ops[i].index = 0)
  BY DEF Acted, OpsShape, OpShape
<1>2. ops[i].index \in 1 .. Cardinality(committed)
  BY ActedCounted
<1>3. ops[i].index # 0
  BY <1>2, CountedEntries
<1> QED
  BY <1>1, <1>3 DEF Taken

\* Their entries put them in an order.
LEMMA Turns ==
    ASSUME TypeInv, StateMachineSafety, OpsShape, Apart, AllAsked, Numbered,
           NEW a \in Nat, NEW b \in Nat, a <= b, b <= Cardinality(committed)
    PROVE  \E order \in SetToSeqs(ActedIn(a, b)) :
              /\ DOMAIN order = 1 .. (b - a) /\ Len(order) = b - a /\ InTurn(order, a)
              /\ \A i \in ActedIn(a, b) : \E k \in 1 .. (b - a) : order[k] = i
<1> DEFINE S == ActedIn(a, b)
           M == b - a
           Own(k, i) == /\ i \in Taken /\ i \in S /\ ops[i].index = a + k
                        /\ ops[i].command = Asked(CommittedLog, a + k)
           f == [k \in 1 .. M |-> CHOOSE i : Own(k, i)]
<1>0. Cardinality(committed) \in Nat /\ M \in Nat
  BY CountedEntries
<1>1. ASSUME NEW k \in 1 .. M PROVE \E i : Own(k, i)
  <2>1. PICK x \in 1 .. Cardinality(committed) : x = a + k /\ x > a /\ x <= b
    BY <1>0
  <2>2. PICK i \in Taken : EntryOf(i, x, Counted(x)) /\ Asked(CommittedLog, x) = ops[i].command
    BY CommittedCommands
  <2> DEFINE c == [index |-> x, entry |-> Counted(x)]
  <2>3. c \in committed /\ c.index = x /\ c.entry = Counted(x)
    BY CountedEntries
  <2> HIDE DEF c
  <2>4. i \in Acted
    BY <2>2, <2>3 DEF EntryOf, Acted, Taken
  <2> QED
    BY <2>1, <2>2, <2>4 DEF EntryOf, ActedIn
<1>2. ASSUME NEW k \in 1 .. M PROVE Own(k, f[k])
  BY <1>1
<1> HIDE DEF f
<1>3. f = [k \in 1 .. M |-> f[k]]
  BY DEF f
<1>4. f \in [1 .. M -> S]
  BY <1>2, <1>3
<1>5. \A k, l \in 1 .. M : f[k] = f[l] => k = l
  <2> SUFFICES ASSUME NEW k \in 1 .. M, NEW l \in 1 .. M, f[k] = f[l] PROVE k = l
    OBVIOUS
  <2>1. a + k = a + l
    BY <1>2
  <2> QED
    BY <1>0, <2>1
<1>6. \A i \in S : \E k \in 1 .. M : f[k] = i
  <2> SUFFICES ASSUME NEW i \in S PROVE \E k \in 1 .. M : f[k] = i
    OBVIOUS
  <2>1. /\ i \in Acted /\ i \in Taken
        /\ ops[i].index \in 1 .. Cardinality(committed) /\ ops[i].index > a /\ ops[i].index <= b
        /\ Counted(ops[i].index).term = ops[i].term
    BY ActedCounted, ActedTaken DEF ActedIn
  <2>2. PICK k \in 1 .. M : a + k = ops[i].index
    <3>1. PICK x \in Nat : x = ops[i].index /\ x > a /\ x <= b
      BY <1>0, <2>1
    <3>2. x - a \in 1 .. M /\ a + (x - a) = x
      BY <1>0, <3>1
    <3> QED
      BY <3>1, <3>2
  <2>3. Own(k, f[k])
    BY <1>2
  <2>4. Counted(ops[f[k]].index).term = ops[f[k]].term
    BY <2>3, ActedCounted DEF ActedIn
  <2>5. f[k] = i
    BY <2>1, <2>2, <2>3, <2>4 DEF Apart
  <2> QED
    BY <2>5
<1>7. Cardinality(S) = M
  <2>1. f \in Bijection(1 .. M, S)
    BY <1>4, <1>5, <1>6 DEF Bijection, Injection, Surjection, IsInjective
  <2>2. ExistsBijection(1 .. M, S)
    BY <2>1 DEF ExistsBijection
  <2> HIDE DEF M, S
  <2> QED
    BY <1>0, <2>2, FS_CountingElements, FS_NatBijection
<1>8. f \in SetToSeqs(S)
  BY <1>4, <1>5, <1>7 DEF SetToSeqs
<1>9. DOMAIN f = 1 .. M /\ Len(f) = M
  <2>1. f \in Seq(S)
    BY <1>0, <1>4
  <2> QED
    BY <1>0, <1>4, <2>1
<1>10. InTurn(f, a)
  BY <1>2, <1>9 DEF InTurn, ActedIn
<1> QED
  BY <1>6, <1>8, <1>9, <1>10

\* What explains an order: the machines it goes through, and the answers they give.
LEMMA ExplainedBy ==
    ASSUME NEW hs, NEW order, NEW N \in Nat, DOMAIN order = 1 .. N, Len(order) = N,
           NEW m, m[0] = EmptyMachine,
           \A k \in 1 .. N :
               /\ m[k] = Apply(m[k - 1], hs[order[k]].command).machine
               /\ hs[order[k]].expected
                     \in {None, Some(Apply(m[k - 1], hs[order[k]].command).result)}
    PROVE  Explains(hs, order)
<1> DEFINE Made(k, s) == Apply(s, hs[order[k]].command)
           f == CHOOSE f : f = [k \in 0 .. N |-> IF k = 0 THEN EmptyMachine ELSE Made(k, f[k - 1]).machine]
<1>1. Explains(hs, order) <=>
         \A k \in DOMAIN order : hs[order[k]].expected \in {None, Some(Made(k, f[k - 1]).result)}
  BY DEF Explains
<1>2. \A k \in 1 .. N : /\ m[k] = Made(k, m[k - 1]).machine
                        /\ hs[order[k]].expected \in {None, Some(Made(k, m[k - 1]).result)}
  OBVIOUS
<1>3. \A k \in 0 .. N : k # 0 => k \in 1 .. N /\ k - 1 \in 0 .. N
  OBVIOUS
<1> HIDE DEF Made
<1>4. \E g : g = [k \in 0 .. N |-> IF k = 0 THEN EmptyMachine ELSE Made(k, g[k - 1]).machine]
  <2> DEFINE g == [k \in 0 .. N |-> m[k]]
  <2>1. \A k \in 0 .. N : g[k] = IF k = 0 THEN EmptyMachine ELSE Made(k, g[k - 1]).machine
    BY <1>2, <1>3
  <2>2. g = [k \in 0 .. N |-> g[k]]
    OBVIOUS
  <2> HIDE DEF g
  <2>3. g = [k \in 0 .. N |-> IF k = 0 THEN EmptyMachine ELSE Made(k, g[k - 1]).machine]
    BY <2>1, <2>2
  <2> QED
    BY <2>3
<1>5. f = [k \in 0 .. N |-> IF k = 0 THEN EmptyMachine ELSE Made(k, f[k - 1]).machine]
  BY <1>4
<1> HIDE DEF f
<1> DEFINE S == {k \in 0 .. N : f[k] = m[k]}
<1>6. 0 \in S
  BY <1>5
<1>7. ASSUME NEW k \in 0 .. (N - 1), k \in S PROVE k + 1 \in S
  <2>1. PICK i \in 1 .. N : i = k + 1 /\ i - 1 = k /\ i # 0 /\ i \in 0 .. N
    OBVIOUS
  <2>2. f[i] = Made(i, f[i - 1]).machine
    BY <1>5, <2>1
  <2> QED
    BY <1>2, <1>7, <2>1, <2>2
<1>8. \A k \in S : f[k] = m[k]
  OBVIOUS
<1> HIDE DEF S
<1>9. \A k \in 0 .. N : f[k] = m[k]
  BY <1>6, <1>7, <1>8, Induction
<1>10. ASSUME NEW k \in DOMAIN order
       PROVE  hs[order[k]].expected \in {None, Some(Made(k, f[k - 1]).result)}
  <2>1. k \in 1 .. N /\ k - 1 \in 0 .. N
    OBVIOUS
  <2> QED
    BY <1>2, <1>9, <2>1
<1> QED
  BY <1>1, <1>10

-----------------------------------------------------------------------------
(* Histories *)

\* The operations that acted, in the order of their entries, explain every answer,
\* keep real time, and leave out none that was answered.
LEMMA ActedExplain ==
    ASSUME ReplicaInv, StateMachineSafety, ClientInv
    PROVE  HistoryLinearizable
<1> DEFINE hs == [i \in Taken |-> Op(Finish[i])]
           K == Cardinality(committed)
<1>0. /\ TypeInv /\ OpsShape /\ Apart /\ AllAsked /\ Numbered /\ OracleReplays
      /\ AnswersTrue /\ RealTime /\ K \in Nat
  BY CountedEntries DEF ClientInv, ReplicaInv, PlainInv
<1>1. Acted \subseteq Taken
  BY <1>0, ActedTaken
<1>2. ASSUME NEW i \in DOMAIN ops
      PROVE  /\ Finish[i].outcome = "Rejected" <=> ops[i].outcome = "Rejected"
             /\ Finish[i].outcome = "Applied" <=> ops[i].outcome = "Applied"
             /\ Finish[i].command = ops[i].command /\ Finish[i].invoke = ops[i].invoke
             /\ ops[i].outcome = "Applied" => /\ Finish[i].finish = ops[i].finish
                                              /\ Finish[i].result = ops[i].result
  <2>1. DOMAIN ops[i] = {"invoke", "finish", "command", "outcome", "result", "target", "index", "term"}
    BY <1>0 DEF OpsShape, OpShape, OpFields
  <2>2. CASE ops[i].outcome = "Pending"
    <3>1. Finish[i] = [ops[i] EXCEPT !.outcome = "Indeterminate"]
      BY <2>2 DEF Finish, Pending
    <3> QED
      BY <2>1, <2>2, <3>1
  <2>3. CASE ops[i].outcome # "Pending"
    BY <2>3 DEF Finish, Pending
  <2> QED
    BY <2>2, <2>3
<1>3. DOMAIN Finish = DOMAIN ops
  BY DEF Finish
<1>4. {i \in DOMAIN Finish : Finish[i].outcome # "Rejected"} = Taken
  BY <1>2, <1>3 DEF Taken
<1>5. ASSUME NEW i \in Taken
      PROVE  /\ hs[i].command = ops[i].command /\ hs[i].invoke = ops[i].invoke
             /\ ops[i].outcome = "Applied" =>
                   /\ hs[i].finish = ops[i].finish /\ hs[i].expected = Some(ops[i].result)
             /\ ops[i].outcome # "Applied" =>
                   /\ hs[i].finish = Never /\ hs[i].expected = None /\ hs[i].optional = TRUE
  BY <1>2 DEF Op, Taken
<1>6. Linearizable(Finish) <=>
         \E dropped \in SUBSET {i \in DOMAIN hs : hs[i].optional} :
            \E order \in SetToSeqs(DOMAIN hs \ dropped) :
                /\ \A j, k \in DOMAIN order : j < k => ~ OverBefore(hs[order[k]], hs[order[j]])
                /\ Explains(hs, order)
  BY <1>4 DEF Linearizable
<1>7. DOMAIN hs = Taken
  OBVIOUS
<1> HIDE DEF hs, K
<1>8. PICK order \in SetToSeqs(ActedIn(0, K)) :
         DOMAIN order = 1 .. (K - 0) /\ Len(order) = K - 0 /\ InTurn(order, 0)
  <2>1. K <= Cardinality(committed)
    BY <1>0 DEF K
  <2> QED
    BY <1>0, <2>1, Turns
<1>9. DOMAIN order = 1 .. K /\ Len(order) = K
  BY <1>0, <1>8
<1>10. ActedIn(0, K) = Acted
  <2>1. \A i \in Acted : ops[i].index \in 1 .. K
    BY <1>0, ActedCounted DEF K
  <2> QED
    BY <1>0, <2>1 DEF ActedIn
<1>11. \A k \in 1 .. K :
          /\ order[k] \in Taken /\ order[k] \in Acted /\ ops[order[k]].index = k
          /\ ops[order[k]].command = Asked(CommittedLog, k)
  BY <1>0, <1>8, <1>9 DEF InTurn
<1>12. \A j, k \in DOMAIN order : j < k => ~ OverBefore(hs[order[k]], hs[order[j]])
  <2> SUFFICES ASSUME NEW j \in 1 .. K, NEW k \in 1 .. K, j < k,
                      OverBefore(hs[order[k]], hs[order[j]])
               PROVE  FALSE
    BY <1>9
  <2>1. /\ order[k] \in Taken /\ order[j] \in Taken /\ order[j] \in Acted
        /\ ops[order[k]].index = k /\ ops[order[j]].index = j
    BY <1>11
  <2>2. hs[order[k]].finish # Never /\ hs[order[k]].finish <= hs[order[j]].invoke
    BY DEF OverBefore
  <2>3. ops[order[k]].outcome = "Applied" /\ ops[order[k]].finish <= ops[order[j]].invoke
    BY <1>5, <2>1, <2>2
  <2>4. k < j
    BY <1>0, <2>1, <2>3 DEF RealTime
  <2> QED
    BY <1>0, <2>4
<1>13. Explains(hs, order)
  <2>1. PICK f : /\ f[0] = FreshReplica
                 /\ \A k \in 1 .. K :
                       LET out == Apply(f[k - 1].machine, Asked(CommittedLog, k))
                       IN  f[k].machine = out.machine /\ oracle.results[k] = out.result
    BY <1>0, OracleCourse DEF K
  <2> DEFINE m == [k \in 0 .. K |-> f[k].machine]
  <2>2. m[0] = EmptyMachine
    BY <1>0, <2>1 DEF FreshReplica
  <2>3. \A k \in 1 .. K : m[k] = f[k].machine /\ m[k - 1] = f[k - 1].machine
    BY <1>0
  <2> HIDE DEF m
  <2>4. ASSUME NEW k \in 1 .. K
        PROVE  /\ m[k] = Apply(m[k - 1], hs[order[k]].command).machine
               /\ hs[order[k]].expected
                     \in {None, Some(Apply(m[k - 1], hs[order[k]].command).result)}
    <3>1. /\ order[k] \in Taken /\ hs[order[k]].command = Asked(CommittedLog, k)
          /\ ops[order[k]].index = k
      BY <1>5, <1>11
    <3>2. /\ m[k] = Apply(m[k - 1], hs[order[k]].command).machine
          /\ oracle.results[k] = Apply(m[k - 1], hs[order[k]].command).result
      BY <2>1, <2>3, <3>1
    <3>3. CASE ops[order[k]].outcome = "Applied"
      <4>1. ops[order[k]].result = oracle.results[k]
        BY <1>0, <3>1, <3>3 DEF AnswersTrue
      <4>2. hs[order[k]].expected = Some(oracle.results[k])
        BY <1>5, <3>1, <3>3, <4>1
      <4> QED
        BY <3>2, <4>2
    <3>4. CASE ops[order[k]].outcome # "Applied"
      BY <1>5, <3>1, <3>2, <3>4
    <3> QED
      BY <3>3, <3>4
  <2> QED
    BY <1>0, <1>9, <2>2, <2>4, ExplainedBy
<1> DEFINE dropped == Taken \ Acted
<1>14. dropped \in SUBSET {i \in DOMAIN hs : hs[i].optional}
  BY <1>0, <1>5, <1>7 DEF AnswersTrue
<1>15. DOMAIN hs \ dropped = ActedIn(0, K)
  BY <1>1, <1>7, <1>10
<1> QED
  BY <1>6, <1>8, <1>12, <1>13, <1>14, <1>15 DEF HistoryLinearizable

\* Whenever the driver stops, what it recorded is linearizable: in a cluster whose
\* voters are never changed and that does not compact, no crash, election, lost
\* message or deadline lets a client be told what one copy of the map could not have
\* answered.
THEOREM HistoriesAreLinearizable ==
    ASSUME Plain
    PROVE  HarnessSpec => []HistoryLinearizable
<1>1. ReplicaInv /\ ClientInv => HistoryLinearizable
  BY OnceCommitted, ActedExplain DEF ReplicaInv
<1> QED
  BY <1>1, ClientAlways, PTL

-----------------------------------------------------------------------------
(* The atomic store *)

\* What AtomicStore says of the data is what the replicas do with it.
LEMMA SameData ==
    /\ Atomic!Operation = Operation
    /\ \A m, c : Atomic!Apply(m, c) = Apply(m, c)
    /\ \A f, k, v : Atomic!With(f, k, v) = With(f, k, v)
    /\ \A S : Atomic!SetToSeqs(S) = SetToSeqs(S)
<1>1. Atomic!Operation = Operation
  BY DEF Atomic!Operation, Operation, Atomic!Key, Key, Atomic!Range, Range
<1>2. ASSUME NEW m, NEW c PROVE Atomic!Apply(m, c) = Apply(m, c)
  BY DEF Atomic!Apply, Apply, Atomic!With, With, Atomic!Lookup, Lookup, Atomic!Some, Some,
         Atomic!None, None, Atomic!Restrict, Restrict
<1>3. ASSUME NEW f, NEW k, NEW v PROVE Atomic!With(f, k, v) = With(f, k, v)
  BY DEF Atomic!With, With
<1>4. ASSUME NEW S PROVE Atomic!SetToSeqs(S) = SetToSeqs(S)
  BY DEF Atomic!SetToSeqs, SetToSeqs, Atomic!Cardinality, Cardinality
<1> QED
  BY <1>1, <1>2, <1>3, <1>4

\* What a command does to a map does not depend on how many came before it.
LEMMA ApplyAnywhere ==
    ASSUME NEW m, NEW c, NEW a
    PROVE  LET there == Apply([entries |-> m.entries, lastApplied |-> a], c)
           IN  /\ there.machine.entries = Apply(m, c).machine.entries
               /\ there.result = Apply(m, c).result
<1> DEFINE es == m.entries
           after == CASE c.kind = "Set" -> With(es, c.key, c.value)
                      [] c.kind = "Delete" -> Restrict(es, DOMAIN es \ {c.key})
                      [] c.kind = "Get" -> es
<1>1. /\ Apply(m, c).machine.entries = after
      /\ Apply(m, c).result = [kind |-> c.kind, value |-> Lookup(es, c.key)]
  BY DEF Apply
<1> DEFINE x == [entries |-> es, lastApplied |-> a]
<1>2. x.entries = es
  OBVIOUS
<1> HIDE DEF x
<1>3. /\ Apply(x, c).machine.entries = after
      /\ Apply(x, c).result = [kind |-> c.kind, value |-> Lookup(es, c.key)]
  BY <1>2 DEF Apply
<1> QED
  BY <1>1, <1>3 DEF x

\* The indices of the operations that have acted.
LEMMA ActedNumbered ==
    TypeInv /\ StateMachineSafety /\ Numbered =>
        \A i \in Acted : ops[i].index \in 1 .. Cardinality(committed)
BY ActedCounted

\* The order those after a and up to b have acted in, after a step.
LEMMA TurnsTaken ==
    ASSUME NEW a \in Nat, NEW b \in Nat
    PROVE  (TypeInv /\ StateMachineSafety /\ OpsShape /\ Apart /\ AllAsked /\ Numbered
            /\ a <= b /\ b <= Cardinality(committed) =>
               \E order \in SetToSeqs(ActedIn(a, b)) :
                  /\ DOMAIN order = 1 .. (b - a) /\ Len(order) = b - a /\ InTurn(order, a)
                  /\ \A i \in ActedIn(a, b) : \E k \in 1 .. (b - a) : order[k] = i)'
<1>1. TypeInv /\ StateMachineSafety /\ OpsShape /\ Apart /\ AllAsked /\ Numbered
      /\ a <= b /\ b <= Cardinality(committed) =>
         \E order \in SetToSeqs(ActedIn(a, b)) :
            /\ DOMAIN order = 1 .. (b - a) /\ Len(order) = b - a /\ InTurn(order, a)
            /\ \A i \in ActedIn(a, b) : \E k \in 1 .. (b - a) : order[k] = i
  <2> SUFFICES ASSUME TypeInv, StateMachineSafety, OpsShape, Apart, AllAsked, Numbered,
                      a <= b, b <= Cardinality(committed)
               PROVE  \E order \in SetToSeqs(ActedIn(a, b)) :
                         /\ DOMAIN order = 1 .. (b - a) /\ Len(order) = b - a /\ InTurn(order, a)
                         /\ \A i \in ActedIn(a, b) : \E k \in 1 .. (b - a) : order[k] = i
    OBVIOUS
  <2> QED
    BY Turns
<1> QED
  BY <1>1, PTL

\* What acts in a step are the operations whose entries are newly counted.
LEMMA ActedMoves ==
    ASSUME Plain, ReplicaInv, ClientInv, HarnessNext,
           NEW a \in Nat, NEW b \in Nat, a = Cardinality(committed), b = Cardinality(committed')
    PROVE  /\ Acted \subseteq Acted' /\ Acted' \subseteq Taken' /\ Acted' \ Acted = ActedIn(a, b)'
           /\ \A i \in Acted : ops'[i].index = ops[i].index /\ ops[i].index \in 1 .. a
           /\ \A x \in 1 .. a : oracle'.results[x] = oracle.results[x]
           /\ \A i \in Acted' : ops'[i].index \in Nat
<1>0. /\ TypeInv /\ OpsShape /\ AllAsked /\ Numbered /\ OracleReplays
      /\ TypeInv' /\ OpsShape' /\ Apart' /\ Numbered'
      /\ StateMachineSafety /\ StateMachineSafety'
      /\ up' \subseteq Node
      /\ Watches \/ Runs \/ \E n \in Node : \E c \in Operation : Takes(n, c)
      /\ committed \subseteq committed'
      /\ \A c \in committed' : c \notin committed => c.index \in Nat /\ c.index > a
      /\ Fresh \in Seq(Entry) /\ oracle' = ApplyAll(oracle, Fresh)
  BY HarnessMoves DEF ClientInv, ReplicaInv, PlainInv, HarnessNext
<1>1. /\ Taken \subseteq Taken' /\ Taken \subseteq DOMAIN ops /\ DOMAIN ops \subseteq DOMAIN ops'
      /\ \A i \in DOMAIN ops : ops'[i].index = ops[i].index /\ ops'[i].term = ops[i].term
  BY <1>0, OpsMove, TakenMoves DEF SameCall
<1>2. \A i \in Acted : i \in Taken /\ ops[i].index \in 1 .. a
  BY <1>0, ActedTaken, ActedCounted
<1>3. Acted \subseteq Acted'
  BY <1>0, <1>1 DEF Acted
<1>4. Acted' \subseteq Taken' /\ \A i \in Acted' : ops'[i].index \in 1 .. b
  <2>1. TypeInv' /\ StateMachineSafety' /\ OpsShape' /\ Numbered' => (Acted \subseteq Taken)'
    BY ActedTaken, PTL
  <2>2. TypeInv' /\ StateMachineSafety' /\ Numbered' =>
           (\A i \in Acted : ops[i].index \in 1 .. Cardinality(committed))'
    BY ActedNumbered, PTL
  <2> QED
    BY <1>0, <2>1, <2>2
<1>5. ASSUME NEW i \in Acted', ops'[i].index <= a PROVE i \in Acted
  <2>1. PICK c \in committed' : c.index = ops'[i].index /\ c.entry.term = ops'[i].term
    BY DEF Acted
  <2>2. c \in committed
    BY <1>0, <1>5, <2>1
  <2>3. PICK j \in Taken : ops[j].index = c.index /\ ops[j].term = c.entry.term
    BY <1>0, <2>2 DEF AllAsked, EntryOf
  <2>4. j = i
    BY <1>0, <1>1, <1>4, <2>1, <2>3 DEF Apart
  <2> QED
    BY <1>1, <2>2, <2>3, <2>4 DEF Acted
<1>6. Acted' \ Acted = ActedIn(a, b)'
  <2>1. ASSUME NEW i \in Acted' PROVE i \notin Acted <=> ops'[i].index > a /\ ops'[i].index <= b
    BY <1>1, <1>2, <1>4, <1>5
  <2> QED
    BY <2>1 DEF ActedIn
<1>7. \A x \in 1 .. a : oracle'.results[x] = oracle.results[x]
  <2>1. Applied(oracle, a) /\ DOMAIN oracle.results = 1 .. a
    BY <1>0, OracleCourse
  <2>2. \A x \in DOMAIN oracle.results : ApplyAll(oracle, Fresh).results[x] = oracle.results[x]
    BY <1>0, <2>1, ReplayAdds
  <2> QED
    BY <1>0, <2>1, <2>2
<1> QED
  BY <1>1, <1>2, <1>3, <1>4, <1>6, <1>7

\* The entries newly counted take the map from what it was to what it is, and give
\* the operations they belong to their answers.
LEMMA FreshCourse ==
    ASSUME Plain, ReplicaInv, ClientInv, HarnessNext,
           NEW a \in Nat, NEW b \in Nat, a = Cardinality(committed), b = Cardinality(committed')
    PROVE  \E f : /\ f[0] = oracle /\ f[b - a] = oracle'
                  /\ \A k \in 1 .. (b - a) :
                        LET out == Apply(f[k - 1].machine, Asked(CommittedLog', a + k))
                        IN  f[k].machine = out.machine /\ oracle'.results[a + k] = out.result
<1> DEFINE N == b - a
<1>0. /\ TypeInv /\ OpsShape /\ AllAsked /\ Numbered /\ OracleReplays /\ StateMachineSafety
      /\ TypeInv' /\ OpsShape' /\ AllAsked' /\ Numbered' /\ StateMachineSafety' /\ a <= b
      /\ Fresh \in Seq(Entry) /\ Len(Fresh) = N /\ oracle' = ApplyAll(oracle, Fresh)
      /\ \A k \in 1 .. N : Fresh[k] = CommittedLog'[a + k]
  BY HarnessMoves DEF ClientInv, ReplicaInv, PlainInv, HarnessNext
<1>1. N \in Nat /\ \A k \in 1 .. N : a + k \in 1 .. b
  BY <1>0
<1>2. Commands(CommittedLog)' /\ DOMAIN CommittedLog' = 1 .. b
  <2>1. TypeInv' /\ StateMachineSafety' /\ OpsShape' /\ AllAsked' /\ Numbered' => Commands(CommittedLog)'
    BY CommittedCommands, PTL
  <2> QED
    BY <1>0, <2>1 DEF CommittedLog
<1>3. Commands(Fresh)
  BY <1>0, <1>1, <1>2 DEF Commands
<1>4. Applied(oracle, a) /\ DOMAIN oracle.results = 1 .. a
  BY <1>0, OracleCourse
<1>5. PICK f : Course(f, oracle, Fresh, Len(Fresh)) /\ ApplyAll(oracle, Fresh) = f[Len(Fresh)]
  <2>1. Len(Fresh) \in Nat
    BY <1>0
  <2> QED
    BY <2>1, ReplaySteps
<1>6. /\ \A i \in 1 .. N : f[N].results[a + i] = Apply(f[i - 1].machine, Asked(Fresh, i)).result
      /\ \A k \in 1 .. N : f[k].machine = Apply(f[k - 1].machine, Asked(Fresh, k)).machine
  <2>1. /\ \A k \in 0 .. Len(Fresh) :
              \A i \in 1 .. k :
                 f[k].results[a + i] = Apply(f[i - 1].machine, Asked(Fresh, i)).result
        /\ \A k \in 1 .. Len(Fresh) : f[k].machine = Apply(f[k - 1].machine, Asked(Fresh, k)).machine
    <3> HIDE DEF N
    <3>1. Fresh \in Seq(Entry) /\ Commands(Fresh)
      BY <1>0, <1>3
    <3> QED
      BY <1>4, <1>5, <3>1, CourseAnswers
  <2>2. N \in 0 .. N
    BY <1>1
  <2> HIDE DEF N
  <2> QED
    BY <1>0, <2>1, <2>2
<1>7. f[0] = oracle /\ f[N] = oracle'
  BY <1>0, <1>5 DEF Course
<1>8. \A k \in 1 .. N : Asked(Fresh, k) = Asked(CommittedLog', a + k)
  BY <1>0 DEF Asked
<1> HIDE DEF N
<1>9. \A k \in 1 .. N :
         LET out == Apply(f[k - 1].machine, Asked(CommittedLog', a + k))
         IN  f[k].machine = out.machine /\ oracle'.results[a + k] = out.result
  BY <1>6, <1>7, <1>8
<1> QED
  BY <1>7, <1>9 DEF N

\* Those that act do so in the order of their entries.
LEMMA ActsInOrder ==
    ASSUME Plain, ReplicaInv, ClientInv, HarnessNext
    PROVE  Atomic!Acts
<1>1. PICK a \in Nat, b \in Nat : /\ a = Cardinality(committed) /\ b = Cardinality(committed')
                                  /\ a <= b
  BY HarnessMoves
<1>2. /\ Acted \subseteq Acted' /\ Acted' \subseteq Taken' /\ Acted' \ Acted = ActedIn(a, b)'
      /\ \A i \in Acted : ops'[i].index = ops[i].index /\ ops[i].index \in 1 .. a
      /\ \A x \in 1 .. a : oracle'.results[x] = oracle.results[x]
  BY <1>1, ActedMoves
<1>3. PICK order \in SetToSeqs(ActedIn(a, b)') :
         /\ DOMAIN order = 1 .. (b - a) /\ Len(order) = b - a /\ InTurn(order, a)'
         /\ \A i \in ActedIn(a, b)' : \E k \in 1 .. (b - a) : order[k] = i
  <2>1. TypeInv' /\ StateMachineSafety' /\ OpsShape' /\ Apart' /\ AllAsked' /\ Numbered'
    BY HarnessMoves DEF ReplicaInv, ClientInv, PlainInv
  <2>3. (b <= Cardinality(committed))'
    BY <1>1
  <2>4. (TypeInv /\ StateMachineSafety /\ OpsShape /\ Apart /\ AllAsked /\ Numbered
           /\ a <= b /\ b <= Cardinality(committed) =>
              \E order \in SetToSeqs(ActedIn(a, b)) :
                 /\ DOMAIN order = 1 .. (b - a) /\ Len(order) = b - a /\ InTurn(order, a)
                 /\ \A i \in ActedIn(a, b) : \E k \in 1 .. (b - a) : order[k] = i)'
    BY TurnsTaken
  <2> QED
    BY <1>1, <2>1, <2>3, <2>4
<1>4. PICK f : /\ f[0] = oracle /\ f[b - a] = oracle'
               /\ \A k \in 1 .. (b - a) :
                     LET out == Apply(f[k - 1].machine, Asked(CommittedLog', a + k))
                     IN  f[k].machine = out.machine /\ oracle'.results[a + k] = out.result
  BY <1>1, FreshCourse
<1>5. PICK N \in Nat : N = b - a
  BY <1>1
<1> DEFINE Found(k) == [i \in Acted \cup {order[j] : j \in 1 .. k} |-> oracle'.results[ops'[i].index]]
           g == [k \in 0 .. N |-> [store |-> f[k].machine.entries, effect |-> Found(k)]]
           start == [store |-> oracle.machine.entries, effect |-> Effect]
           after == CHOOSE after : after = [k \in 0 .. N |-> IF k = 0 THEN start
                                                             ELSE Atomic!ActOne(after[k - 1], order[k])]
<1>6. ASSUME NEW k \in 1 .. N
      PROVE  /\ order[k] \in Taken' /\ order[k] \notin Acted
             /\ Called'[order[k]] = Asked(CommittedLog', a + k)
             /\ ops'[order[k]].index = a + k
  <2>1. /\ order[k] \in Taken' /\ order[k] \in Acted' /\ ops'[order[k]].index = a + k
        /\ ops'[order[k]].command = Asked(CommittedLog', a + k)
    BY <1>3, <1>5 DEF InTurn
  <2>2. order[k] \in DOMAIN ops'
    BY <2>1 DEF Taken
  <2>3. order[k] \notin Acted
    <3> SUFFICES ASSUME order[k] \in Acted PROVE FALSE
      OBVIOUS
    <3>1. a + k \in 1 .. a
      BY <1>2, <2>1
    <3> QED
      BY <1>1, <3>1
  <2> QED
    BY <2>1, <2>2, <2>3 DEF Called
<1>7. g[0] = start
  <2>1. Found(0) = [i \in Acted |-> oracle'.results[ops'[i].index]]
    BY <1>5
  <2>2. Found(0) = Effect
    BY <1>2, <2>1 DEF Effect
  <2> QED
    BY <1>4, <1>5, <2>2
<1>8. ASSUME NEW k \in 1 .. N PROVE g[k] = Atomic!ActOne(g[k - 1], order[k])
  <2> DEFINE c == Asked(CommittedLog', a + k)
             out == Apply(f[k - 1].machine, c)
  <2>1. k \in 0 .. N /\ k - 1 \in 0 .. N /\ k \in 1 .. (b - a)
    BY <1>5
  <2>2. f[k].machine = out.machine /\ oracle'.results[a + k] = out.result
    BY <1>4, <2>1
  <2>3. Called'[order[k]] = c /\ ops'[order[k]].index = a + k
    BY <1>6
  <2>4. Found(k) = With(Found(k - 1), order[k], out.result)
    <3> DEFINE before == Acted \cup {order[j] : j \in 1 .. (k - 1)}
               now == Acted \cup {order[j] : j \in 1 .. k}
    <3>1. now = before \cup {order[k]}
      <4>1. \A j : j \in 1 .. k <=> j \in 1 .. (k - 1) \/ j = k
        BY <1>5
      <4> QED
        BY <4>1
    <3>2. Found(k) = [i \in now |-> oracle'.results[ops'[i].index]]
          /\ Found(k - 1) = [i \in before |-> oracle'.results[ops'[i].index]]
      OBVIOUS
    <3> HIDE DEF Found, now, before, out
    <3>3. With(Found(k - 1), order[k], out.result)
             = [i \in now |-> IF i = order[k] THEN out.result ELSE Found(k - 1)[i]]
      BY <3>1, <3>2 DEF With
    <3> QED
      BY <2>2, <2>3, <3>1, <3>2, <3>3
  <2>5. g[k] = [store |-> f[k].machine.entries, effect |-> Found(k)]
        /\ g[k - 1] = [store |-> f[k - 1].machine.entries, effect |-> Found(k - 1)]
    BY <2>1
  <2> DEFINE there == Apply([entries |-> f[k - 1].machine.entries, lastApplied |-> 0], c)
  <2>6. there.machine.entries = out.machine.entries /\ there.result = out.result
    BY ApplyAnywhere
  <2> HIDE DEF g, Found, out
  <2>7. g[k - 1].store = f[k - 1].machine.entries /\ g[k - 1].effect = Found(k - 1)
    BY <2>5
  <2>8. Atomic!ActOne(g[k - 1], order[k])
           = [store |-> there.machine.entries,
              effect |-> With(Found(k - 1), order[k], there.result)]
    <3> HIDE DEF c
    <3> QED
      BY <2>3, <2>7, SameData DEF Atomic!ActOne
  <2> QED
    BY <2>2, <2>4, <2>5, <2>6, <2>8
<1>9. g[N] = [store |-> oracle'.machine.entries, effect |-> Effect']
  <2>1. Acted \cup {order[j] : j \in 1 .. N} = Acted'
    <3>1. \A i \in Acted' \ Acted : \E k \in 1 .. N : order[k] = i
      BY <1>2, <1>3, <1>5
    <3>2. \A k \in 1 .. N : order[k] \in Acted'
      BY <1>3, <1>5 DEF InTurn
    <3> QED
      BY <1>2, <3>1, <3>2
  <2>2. Found(N) = [i \in Acted' |-> oracle'.results[ops'[i].index]]
    BY <2>1
  <2>3. Found(N) = Effect'
    BY <2>2 DEF Effect
  <2> HIDE DEF Found
  <2> QED
    BY <1>4, <1>5, <2>3
<1>10. g = [k \in 0 .. N |-> g[k]]
  OBVIOUS
<1> HIDE DEF g, Found, start
<1>11. g = [k \in 0 .. N |-> IF k = 0 THEN start ELSE Atomic!ActOne(g[k - 1], order[k])]
  <2>1. \A k \in 0 .. N : g[k] = IF k = 0 THEN start ELSE Atomic!ActOne(g[k - 1], order[k])
    <3>1. \A k \in 0 .. N : k # 0 => k \in 1 .. N
      OBVIOUS
    <3> QED
      BY <1>7, <1>8, <3>1
  <2> QED
    BY <1>10, <2>1
<1>12. after = [k \in 0 .. N |-> IF k = 0 THEN start ELSE Atomic!ActOne(after[k - 1], order[k])]
  BY <1>11
<1> HIDE DEF after
<1> DEFINE S == {k \in 0 .. N : after[k] = g[k]}
<1>13. 0 \in S
  BY <1>7, <1>12
<1>14. ASSUME NEW k \in 0 .. (N - 1), k \in S PROVE k + 1 \in S
  <2>1. PICK i \in 1 .. N : i = k + 1 /\ i - 1 = k /\ i # 0 /\ i \in 0 .. N
    OBVIOUS
  <2>2. after[i] = Atomic!ActOne(after[i - 1], order[i])
    BY <1>12, <2>1
  <2> QED
    BY <1>8, <1>14, <2>1, <2>2
<1>15. \A k \in S : after[k] = g[k]
  OBVIOUS
<1> HIDE DEF S
<1>16. after[N] = [store |-> oracle'.machine.entries, effect |-> Effect']
  BY <1>5, <1>9, <1>13, <1>14, <1>15, Induction
<1>17. ASSUME NEW k \in DOMAIN order
       PROVE  /\ order[k] \in DOMAIN Called' \ DOMAIN Effect
              /\ order[k] \in DOMAIN Told => Told[order[k]] # Atomic!Unconfirmed("Rejected")
  <2>1. k \in 1 .. N /\ order[k] \in Taken' /\ order[k] \notin Acted
    BY <1>3, <1>5, <1>6
  <2>2. order[k] \in DOMAIN Called' \ DOMAIN Effect
    BY <2>1 DEF Called, Effect, Taken
  <2>3. ASSUME order[k] \in DOMAIN Told PROVE Told[order[k]] # Atomic!Unconfirmed("Rejected")
    <3>1. order[k] \in DOMAIN ops
      BY <2>3 DEF Told
    <3>2. \A i \in Taken' : i \notin Taken => i \notin DOMAIN ops
      BY HarnessMoves, TakenMoves DEF ReplicaInv, ClientInv, PlainInv
    <3>3. ops[order[k]].outcome # "Rejected"
      BY <2>1, <3>1, <3>2 DEF Taken
    <3>4. Told[order[k]].outcome = ops[order[k]].outcome
      BY <2>3 DEF Told
    <3> QED
      BY <3>3, <3>4 DEF Atomic!Unconfirmed
  <2> QED
    BY <2>2, <2>3
<1>18. Atomic!Act(order)
  <2>1. Len(order) = N
    BY <1>3, <1>5
  <2> QED
    BY <1>16, <1>17, <2>1 DEF Atomic!Act, after, start
<1>19. order \in Atomic!SetToSeqs(DOMAIN Effect' \ DOMAIN Effect)
  <2>1. DOMAIN Effect' \ DOMAIN Effect = ActedIn(a, b)'
    BY <1>2 DEF Effect
  <2> QED
    BY <1>3, <2>1, SameData
<1> QED
  BY <1>18, <1>19 DEF Atomic!Acts

\* If nothing acts the map stays: every entry newly counted is an operation's.
LEMMA NothingActs ==
    ASSUME Plain, ReplicaInv, ClientInv, HarnessNext, Acted' = Acted
    PROVE  oracle' = oracle
<1>1. PICK a \in Nat, b \in Nat : /\ a = Cardinality(committed) /\ b = Cardinality(committed')
                                  /\ a <= b
  BY HarnessMoves
<1>2. /\ Numbered /\ Numbered' /\ AllAsked' /\ oracle' = ApplyAll(oracle, Fresh)
      /\ committed \subseteq committed'
      /\ \A c \in committed' : c \notin committed => c.index \in Nat /\ c.index > a
      /\ \A i \in Acted : ops'[i].index = ops[i].index /\ ops[i].index \in 1 .. a
  BY <1>1, HarnessMoves, ActedMoves DEF ClientInv, HarnessNext
<1>3. committed' = committed
  <2> SUFFICES ASSUME NEW c \in committed', c \notin committed PROVE FALSE
    BY <1>2
  <2>1. PICK i \in Taken' : ops'[i].index = c.index /\ ops'[i].term = c.entry.term
    BY <1>2 DEF AllAsked, EntryOf
  <2>2. i \in Acted'
    BY <2>1 DEF Acted, Taken
  <2>3. c.index \in 1 .. a
    BY <1>2, <2>1, <2>2
  <2> QED
    BY <1>2, <2>3
<1> QED
  BY <1>2, <1>3, OracleRests

\* If nothing is newly counted nothing acts.
LEMMA EffectRests ==
    ASSUME Plain, ReplicaInv, ClientInv, HarnessNext, committed' = committed
    PROVE  oracle' = oracle /\ Effect' = Effect
<1>1. PICK a \in Nat : a = Cardinality(committed)
  BY HarnessMoves
<1>2. Numbered /\ oracle' = ApplyAll(oracle, Fresh)
  BY DEF ClientInv, HarnessNext
<1>3. oracle' = oracle
  BY <1>2, OracleRests
<1>4. /\ Acted \subseteq Acted' /\ Acted' \ Acted = ActedIn(a, a)'
      /\ \A i \in Acted : ops'[i].index = ops[i].index
      /\ \A i \in Acted' : ops'[i].index \in Nat
  BY <1>1, ActedMoves
<1>5. ActedIn(a, a)' = {}
  BY <1>4 DEF ActedIn
<1>6. Acted' = Acted
  BY <1>4, <1>5
<1> QED
  BY <1>3, <1>4, <1>6 DEF Effect

\* One more call.
LEMMA OneMoreCall ==
    ASSUME OpsShape, NEW o, ops' = Append(ops, o)
    PROVE  /\ Called' = Append(Called, o.command) /\ Called' # Called
           /\ Len(Called) \in Nat /\ DOMAIN ops = 1 .. Len(Called)
           /\ DOMAIN ops' = 1 .. (Len(Called) + 1)
           /\ \A i \in DOMAIN ops : ops'[i] = ops[i]
           /\ ops'[Len(Called) + 1] = o
<1>1. /\ Len(ops) \in Nat /\ DOMAIN ops = 1 .. Len(ops) /\ DOMAIN ops' = 1 .. (Len(ops) + 1)
      /\ \A i \in DOMAIN ops : ops'[i] = ops[i]
      /\ ops'[Len(ops) + 1] = o
  BY AppendAny DEF OpsShape
<1>2. PICK L \in Nat : L = Len(ops) /\ DOMAIN ops = 1 .. L /\ DOMAIN ops' = 1 .. (L + 1)
  BY <1>1
<1> DEFINE T == {ops[i].command : i \in 1 .. L} \cup {o.command}
<1>3. Called = [i \in 1 .. L |-> ops[i].command] /\ Called' = [i \in 1 .. (L + 1) |-> ops'[i].command]
  BY <1>2 DEF Called
<1>4. \A i \in 1 .. L : ops[i].command \in T
  OBVIOUS
<1>5. o.command \in T
  OBVIOUS
<1> HIDE DEF T
<1>6. Called \in Seq(T) /\ Len(Called) = L
  BY <1>3, <1>4
<1> DEFINE s == Append(Called, o.command)
<1>7. /\ s \in Seq(T) /\ Len(s) = L + 1 /\ \A i \in 1 .. L : s[i] = Called[i]
      /\ s[L + 1] = o.command
  BY <1>5, <1>6, AppendProperties
<1> HIDE DEF s
<1>8. s = [i \in 1 .. (L + 1) |-> s[i]]
  BY <1>7
<1>9. \A i \in 1 .. (L + 1) : s[i] = ops'[i].command
  <2>1. \A i \in 1 .. (L + 1) : i \in 1 .. L \/ i = L + 1
    OBVIOUS
  <2>2. \A i \in 1 .. L : s[i] = ops[i].command
    BY <1>3, <1>7
  <2> QED
    BY <1>1, <1>2, <1>7, <2>1, <2>2
<1>10. Called' = s
  BY <1>3, <1>8, <1>9
<1>11. Called' # Called
  <2>1. L + 1 \in DOMAIN Called' /\ L + 1 \notin DOMAIN Called
    BY <1>3
  <2> QED
    BY <2>1
<1> QED
  BY <1>1, <1>2, <1>6, <1>10, <1>11 DEF s

\* Every step of the harness is one of the atomic store, or nothing to it.
LEMMA StoreSteps ==
    ASSUME Plain, ReplicaInv, ClientInv, HarnessNext
    PROVE  [Atomic!AtomicNext]_(Atomic!AtomicVars)
<1>0. /\ TypeInv /\ StateMachineSafety /\ OpsShape /\ AllAsked /\ Numbered /\ OracleReplays
      /\ Watches \/ Runs \/ \E n \in Node : \E c \in Operation : Takes(n, c)
  BY HarnessMoves DEF ReplicaInv, PlainInv, ClientInv
<1>1. CASE UNCHANGED ops
  <2>1. Called' = Called /\ Told' = Told
    BY <1>1 DEF Called, Told, Pending
  <2>2. CASE Effect' = Effect
    <3>1. Acted' = Acted
      <4>1. DOMAIN Effect' = Acted' /\ DOMAIN Effect = Acted
        BY DEF Effect
      <4> QED
        BY <2>2, <4>1
    <3>2. oracle' = oracle
      BY <3>1, NothingActs
    <3> QED
      BY <2>1, <2>2, <3>2 DEF Atomic!AtomicVars
  <2>3. CASE Effect' # Effect
    BY <2>1, <2>3, ActsInOrder DEF Atomic!AtomicNext
  <2> QED
    BY <2>2, <2>3
<1>2. CASE UNCHANGED vars /\ Refused
  <2>1. oracle' = oracle /\ Effect' = Effect
    BY <1>2, EffectRests DEF vars
  <2>2. PICK c \in Operation : ops' = Append(ops, Submitted(Nil, c, "Rejected", clock, 0, 0))
    BY <1>2 DEF Refused
  <2> DEFINE o == Submitted(Nil, c, "Rejected", clock, 0, 0)
             x == Len(Called) + 1
  <2>3. o.command = c /\ o.outcome = "Rejected"
    BY DEF Submitted
  <2> HIDE DEF o
  <2>4. /\ Called' = Append(Called, c) /\ Called' # Called
        /\ DOMAIN ops' = DOMAIN ops \cup {x} /\ x \notin DOMAIN ops
        /\ \A i \in DOMAIN ops : ops'[i] = ops[i]
        /\ ops'[x] = o
    <3>1. ops' = Append(ops, o)
      BY <2>2 DEF o
    <3>2. /\ Called' = Append(Called, c) /\ Called' # Called
          /\ Len(Called) \in Nat /\ DOMAIN ops = 1 .. Len(Called) /\ DOMAIN ops' = 1 .. x
          /\ \A i \in DOMAIN ops : ops'[i] = ops[i]
          /\ ops'[x] = o
      BY <1>0, <2>3, <3>1, OneMoreCall
    <3> QED
      BY <3>2
  <2> HIDE DEF x
  <2>5. Told' = With(Told, x, Atomic!Unconfirmed("Rejected"))
    <3>1. Pending' = Pending
      BY <2>3, <2>4 DEF Pending
    <3>2. DOMAIN ops' \ Pending' = (DOMAIN ops \ Pending) \cup {x}
      BY <2>4, <3>1 DEF Pending
    <3>3. Told' = [i \in (DOMAIN ops \ Pending) \cup {x} |->
                      IF i = x THEN Atomic!Unconfirmed("Rejected") ELSE Told[i]]
      BY <2>3, <2>4, <3>2 DEF Told, Atomic!Unconfirmed
    <3>4. DOMAIN Told = DOMAIN ops \ Pending
      BY DEF Told
    <3> QED
      BY <3>3, <3>4 DEF With
  <2>6. c \in Atomic!Operation /\ Atomic!Refuse(c)
    BY <2>1, <2>4, <2>5, SameData DEF Atomic!Refuse, x
  <2> QED
    BY <2>4, <2>6 DEF Atomic!AtomicNext
<1>3. ASSUME NEW n \in Node, NEW c \in Operation, Takes(n, c) PROVE Atomic!AtomicNext
  <2> DEFINE o == Submitted(n, c, "Pending", Never, Len(log[n]) + 1, currentTerm[n])
             x == Len(Called) + 1
  <2>1. o.command = c /\ o.outcome = "Pending"
    BY DEF Submitted
  <2>2. ops' = Append(ops, o)
    BY <1>3 DEF Takes
  <2> HIDE DEF o
  <2>3. /\ Called' = Append(Called, c) /\ Called' # Called
        /\ DOMAIN ops' = DOMAIN ops \cup {x} /\ x \notin DOMAIN ops
        /\ \A i \in DOMAIN ops : ops'[i] = ops[i]
        /\ ops'[x] = o
    <3>1. /\ Called' = Append(Called, c) /\ Called' # Called
          /\ Len(Called) \in Nat /\ DOMAIN ops = 1 .. Len(Called) /\ DOMAIN ops' = 1 .. x
          /\ \A i \in DOMAIN ops : ops'[i] = ops[i]
          /\ ops'[x] = o
      BY <1>0, <2>1, <2>2, OneMoreCall
    <3> QED
      BY <3>1
  <2> HIDE DEF x
  <2>4. Told' = Told
    <3>1. Pending' = Pending \cup {x}
      BY <2>1, <2>3 DEF Pending
    <3>2. DOMAIN ops' \ Pending' = DOMAIN ops \ Pending
      BY <2>3, <3>1
    <3> QED
      BY <2>3, <3>2 DEF Told
  <2>5. c \in Atomic!Operation /\ Atomic!Call(c)
    BY <2>3, <2>4, ActsInOrder, SameData DEF Atomic!Call
  <2> QED
    BY <2>3, <2>5 DEF Atomic!AtomicNext
<1>4. CASE ResolvePending
  <2>1. /\ UNCHANGED vars /\ DOMAIN ops' = DOMAIN ops
        /\ \A i \in DOMAIN ops : /\ SameCall(i)
                                 /\ SameAnswer(i) \/ Answered(i) \/ GivenUp(i)
    BY <1>0, <1>4, ResolveOps
  <2>2. oracle' = oracle /\ Effect' = Effect
    BY <2>1, EffectRests DEF vars
  <2>3. Called' = Called
    BY <2>1 DEF Called, SameCall
  <2>4. Told' # Told => Atomic!Answer
    <3>1. /\ DOMAIN Told = DOMAIN ops \ Pending /\ DOMAIN Told' = DOMAIN ops' \ Pending'
          /\ DOMAIN Called = DOMAIN ops /\ DOMAIN Effect = Acted
      BY DEF Told, Called, Effect
    <3>2. ASSUME NEW i \in DOMAIN Told PROVE i \in DOMAIN Told' /\ Told'[i] = Told[i]
      <4>1. i \in DOMAIN ops /\ SameAnswer(i)
        BY <2>1, <3>1 DEF Answered, Resolvable, GivenUp, Pending
      <4>2. i \in DOMAIN ops' \ Pending'
        BY <2>1, <3>1, <4>1 DEF SameAnswer, Pending
      <4> QED
        BY <3>1, <4>1, <4>2 DEF Told, SameAnswer
    <3>3. ASSUME NEW i \in DOMAIN Told', i \notin DOMAIN Told
          PROVE  \/ Told'[i] = Atomic!Unconfirmed("Indeterminate")
                 \/ i \in DOMAIN Effect /\ Told'[i] = Atomic!Applied(Effect[i])
      <4>1. i \in DOMAIN ops /\ ~ SameAnswer(i)
        BY <2>1, <3>1, <3>3 DEF SameAnswer, Pending
      <4>2. Told'[i] = IF ops'[i].outcome = "Applied"
                       THEN [outcome |-> "Applied", result |-> ops'[i].result]
                       ELSE [outcome |-> ops'[i].outcome]
        BY <3>1, <3>3 DEF Told
      <4>3. CASE Answered(i)
        <5>1. i \in Resolvable
          BY <4>3 DEF Answered
        <5>2. /\ ops'[i].outcome = "Applied" /\ i \in Acted
              /\ ops'[i].result = oracle.results[ops[i].index]
          BY <1>0, <4>3, <5>1, ResolvableActed DEF Answered
        <5> QED
          BY <3>1, <4>2, <5>2 DEF Effect, Atomic!Applied
      <4>4. CASE GivenUp(i)
        BY <4>2, <4>4 DEF GivenUp, Atomic!Unconfirmed
      <4> QED
        BY <2>1, <4>1, <4>3, <4>4
    <3>4. DOMAIN Told' \subseteq DOMAIN Called
      BY <2>1, <3>1
    <3> QED
      BY <2>2, <2>3, <3>2, <3>3, <3>4 DEF Atomic!Answer
  <2> QED
    BY <2>2, <2>3, <2>4 DEF Atomic!AtomicNext, Atomic!AtomicVars
<1> QED
  BY <1>0, <1>1, <1>2, <1>3, <1>4 DEF Watches, Runs

\* The replicated store is one atomic map: in a cluster whose voters are never
\* changed and that does not compact, every step of every replica, client, crash and
\* message is a step of AtomicStore, or nothing to it.
THEOREM ReplicasImplementAtomicStore ==
    ASSUME Plain
    PROVE  HarnessSpec => ImplementsAtomicStore
<1>1. HarnessInit => Atomic!Start
  <2> SUFFICES ASSUME HarnessInit PROVE Atomic!Start
    OBVIOUS
  <2>1. ops = <<>> /\ committed = {} /\ oracle = FreshReplica
    BY DEF HarnessInit, ReplicaInit, Init
  <2>2. DOMAIN ops = {} /\ Acted = {} /\ oracle.machine.entries = <<>>
    BY <2>1 DEF Acted, FreshReplica, EmptyMachine
  <2>3. Called = <<>> /\ Effect = <<>> /\ Told = <<>>
    BY <2>2 DEF Called, Effect, Told
  <2> QED
    BY <2>2, <2>3 DEF Atomic!Start
<1>2. ASSUME UNCHANGED allVars PROVE UNCHANGED Atomic!AtomicVars
  <2>1. UNCHANGED <<ops, committed, oracle>>
    BY <1>2 DEF allVars, harnessVars, vars
  <2> QED
    BY <2>1 DEF Atomic!AtomicVars, Called, Effect, Told, Acted, Pending
<1>3. ReplicaInv /\ ClientInv /\ [HarnessNext]_allVars => [Atomic!AtomicNext]_(Atomic!AtomicVars)
  BY <1>2, StoreSteps
<1> QED
  BY <1>1, <1>3, ClientAlways, PTL DEF HarnessSpec, ImplementsAtomicStore, Atomic!AtomicSpec

=============================================================================
