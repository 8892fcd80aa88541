---------------------------- MODULE RaftLogProofs ---------------------------
(***************************************************************************)
(* Logs, in a cluster whose voters are never changed and whose owners do   *)
(* not compact: what an AppendEntries request, an acknowledgement and a    *)
(* vote request say about the logs they were made from, and what the       *)
(* entries in the logs and in flight, the requests of a leader and the     *)
(* acknowledgements it gets have to do with each other, however late they  *)
(* are received, whatever crashed in between.                              *)
(***************************************************************************)
EXTENDS RaftStateProofs

Plain == Static /\ CompactPoints = {}

\* Nobody replicates to itself.
PlainMsg(m) ==
    /\ m.type \notin {"InstallSnapshot", "InstallSnapshotResponse"}
    /\ m.type \in {"AppendEntries", "AppendEntriesResponse"} => m.from # m.to

\* Without compaction every log starts at index 1 and no snapshot is sent.
PlainState ==
    /\ \A n \in Node : snapshot[n].index = 0 /\ snapshot[n].term = 0
    /\ \A m \in msgs : PlainMsg(m)

IsAppend(m) == m.type = "AppendEntries"
IsAck(m) == m.type = "AppendEntriesResponse" /\ m.success

LastTerm(lg) == IF lg = <<>> THEN 0 ELSE lg[Len(lg)].term

\* The index and the term of the last entry a request speaks of.
End(m) == m.prevLogIndex + Len(m.entries)
EndTerm(m) == IF m.entries = <<>> THEN m.prevLogTerm ELSE m.entries[Len(m.entries)].term

\* Node n has an entry of term t at index j.
Has(n, j, t) == j \in DOMAIN log[n] /\ log[n][j].term = t

\* The order in which on_request_vote compares the ends of two logs.
NotNewer(t, j, u, k) == t < u \/ (t = u /\ j <= k)

\* An entry with its index and the term of the one before it: the k-th of the
\* entries es, the first of which follows an entry of term u at index b.
Link(b, u, es, k) ==
    [index |-> b + k, entry |-> es[k], prev |-> IF k = 1 THEN u ELSE es[k - 1].term]

LogLinks(lg) == {Link(0, 0, lg, k) : k \in DOMAIN lg}

MsgLinks(m) == {Link(m.prevLogIndex, m.prevLogTerm, m.entries, k) : k \in DOMAIN m.entries}

\* Every link in the logs lgs or in the requests among ms.
LinksOf(lgs, ms) ==
    (UNION {LogLinks(lgs[n]) : n \in Node})
        \cup (UNION {MsgLinks(m) : m \in {x \in ms : IsAppend(x)}})

Links == LinksOf(log, msgs)

-----------------------------------------------------------------------------
(* The kinds of steps *)

Same(c) ==
    /\ role'[c] = role[c] /\ currentTerm'[c] = currentTerm[c]
    /\ votesGranted'[c] = votesGranted[c] /\ log'[c] = log[c]
    /\ commitIndex'[c] = commitIndex[c]
    /\ nextIndex'[c] = nextIndex[c] /\ matchIndex'[c] = matchIndex[c]

\* A message that says nothing about logs or votes.
Harmless(m) ==
    /\ m.type \in {"RequestVoteResponse", "AppendEntriesResponse"}
    /\ ~ Granted(m) /\ ~ IsAck(m) /\ PlainMsg(m)

\* A request leader n builds in its new state.
Sent(n, m) ==
    /\ role'[n] = Leader
    /\ \E p \in Node \ {n} : nextIndex'[n][p] >= 1 /\ m = ReplicateTo(n, p)'

\* Node n keeps its log, and its term or else no office.
Eases(n) ==
    /\ log'[n] = log[n]
    /\ currentTerm'[n] >= currentTerm[n]
    /\ role'[n] \in {role[n], Follower}
    /\ votesGranted'[n] \in {votesGranted[n], {}}
    /\ currentTerm'[n] # currentTerm[n] => role'[n] = Follower /\ votesGranted'[n] = {}
    /\ commitIndex'[n] \in {commitIndex[n], 0}
    /\ \A p \in Node : matchIndex'[n][p] \in {matchIndex[n][p], 0}
    /\ role'[n] = Leader =>
          \A p \in Node : \/ nextIndex'[n][p] <= nextIndex[n][p]
                          \/ nextIndex'[n][p] <= Len(log[n]) + 1
    /\ elected' = elected /\ committed' = committed

Calm(n) ==
    /\ Eases(n)
    /\ \A x \in msgs' : x \in msgs \/ Harmless(x) \/ Sent(n, x)

\* Node n grants its vote.
Grant(n, m) ==
    /\ Eases(n)
    /\ m.type = "RequestVote" /\ m.to = n /\ m.term = currentTerm'[n]
    /\ NotNewer(LastTerm(log[n]), Len(log[n]), m.lastLogTerm, m.lastLogIndex)
    /\ \A x \in msgs' : \/ x \in msgs
                        \/ Granted(x) /\ x.from = n /\ x.to = m.from /\ x.term = m.term

Majority(Q) == Q \subseteq Bootstrap /\ Cardinality(Q) >= QuorumSize(Bootstrap)

\* A candidate stays one or wins.
Elects(n) ==
    \/ role'[n] = Candidate /\ elected' = elected
    \/ /\ role'[n] = Leader
       /\ Majority(votesGranted'[n])
       /\ elected' = elected \cup {[term |-> currentTerm'[n], leader |-> n,
                                    votes |-> votesGranted'[n], config |-> Genesis]}
       /\ \A p \in Node : matchIndex'[n][p] = 0 /\ nextIndex'[n][p] <= Len(log[n]) + 1

Campaign(n) ==
    /\ role[n] # Leader /\ log'[n] = log[n] /\ commitIndex'[n] = commitIndex[n]
    /\ currentTerm'[n] = currentTerm[n] + 1 /\ votesGranted'[n] = {n}
    /\ Elects(n) /\ committed' = committed
    /\ \A x \in msgs' :
          \/ x \in msgs \/ Sent(n, x)
          \/ /\ x.type = "RequestVote" /\ x.from = n /\ x.term = currentTerm'[n]
             /\ x.lastLogIndex = Len(log[n]) /\ x.lastLogTerm = LastTerm(log[n])

Tally(n, m) ==
    /\ Granted(m) /\ m.to = n /\ m.term = currentTerm[n] /\ role[n] = Candidate
    /\ log'[n] = log[n] /\ commitIndex'[n] = commitIndex[n]
    /\ currentTerm'[n] = currentTerm[n]
    /\ votesGranted'[n] = votesGranted[n] \cup {m.from}
    /\ Elects(n) /\ committed' = committed
    /\ \A x \in msgs' : x \in msgs \/ Sent(n, x)

\* What a step of n adds to the committed entries.
Records(n) ==
    committed' = committed \cup {[index |-> i, entry |-> log'[n][i]] :
                                    i \in (commitIndex[n] + 1) .. commitIndex'[n]}

\* A leader's commit index moves only to an entry of its own term that a
\* majority is known to hold.
Counts(n) ==
    \/ commitIndex'[n] = commitIndex[n]
    \/ /\ commitIndex'[n] \in DOMAIN log'[n]
       /\ log'[n][commitIndex'[n]].term = currentTerm[n]
       /\ \E Q : /\ Majority(Q)
                 /\ \A v \in Q : v = n \/ matchIndex'[n][v] >= commitIndex'[n]

\* A leader appends, or hears an acknowledgement.
Leads(n) ==
    /\ role[n] = Leader /\ role'[n] = Leader /\ currentTerm'[n] = currentTerm[n]
    /\ votesGranted'[n] = votesGranted[n]
    /\ elected' = elected /\ Counts(n) /\ Records(n)

Extend(n) ==
    /\ Leads(n)
    /\ \E e \in Entry : e.term = currentTerm[n] /\ log'[n] = Append(log[n], e)
    /\ nextIndex'[n] = nextIndex[n] /\ matchIndex'[n] = matchIndex[n] /\ msgs' = msgs

Ack(n, m) ==
    /\ Leads(n)
    /\ IsAck(m) /\ m.to = n /\ m.term = currentTerm[n] /\ log'[n] = log[n]
    /\ \A p \in Node :
          \/ matchIndex'[n][p] = matchIndex[n][p] /\ nextIndex'[n][p] = nextIndex[n][p]
          \/ /\ p = m.from
             /\ matchIndex'[n][p] \in {matchIndex[n][p], m.matchIndex}
             /\ nextIndex'[n][p] = matchIndex'[n][p] + 1
    /\ \A x \in msgs' : x \in msgs \/ Sent(n, x)

\* new is the first cut entries of lg and m's after them: the cut is before the
\* first entry that lg misses.
Splices(lg, m, new, cut) ==
    /\ cut <= Len(lg) /\ Len(new) = End(m)
    /\ \A i \in 1 .. cut : new[i] = lg[i]
    /\ \A i \in (cut + 1) .. End(m) : new[i] = m.entries[i - m.prevLogIndex]
    /\ \A i \in (m.prevLogIndex + 1) .. cut : lg[i].term = m.entries[i - m.prevLogIndex].term
    /\ cut < Len(lg) => lg[cut + 1].term # m.entries[cut + 1 - m.prevLogIndex].term

\* lg has all of m's entries.
HoldsAll(lg, m) ==
    \A k \in DOMAIN m.entries : /\ m.prevLogIndex + k \in DOMAIN lg
                                /\ lg[m.prevLogIndex + k].term = m.entries[k].term

\* new is what the merge loop makes of lg.
Merge(lg, m, new) ==
    /\ m.prevLogIndex # 0 =>
          m.prevLogIndex \in DOMAIN lg /\ lg[m.prevLogIndex].term = m.prevLogTerm
    /\ \/ new = lg /\ HoldsAll(lg, m)
       \/ \E cut \in m.prevLogIndex .. (End(m) - 1) : Splices(lg, m, new, cut)

Accept(n, m) ==
    /\ IsAppend(m) /\ m.to = n
    /\ m.term >= currentTerm[n] /\ currentTerm'[n] = m.term
    /\ role'[n] \in {role[n], Follower} /\ role'[n] # Candidate
    /\ m.term # currentTerm[n] => role'[n] = Follower
    /\ votesGranted'[n] \in {votesGranted[n], {}}
    /\ role'[n] = Leader => nextIndex'[n] = nextIndex[n] /\ matchIndex'[n] = matchIndex[n]
    /\ Merge(log[n], m, log'[n])
    /\ \/ commitIndex'[n] = commitIndex[n]
       \/ commitIndex'[n] <= m.leaderCommit /\ commitIndex'[n] <= Len(log'[n])
    /\ elected' = elected /\ Records(n)
    /\ \A x \in msgs' : \/ x \in msgs
                        \/ /\ IsAck(x) /\ x.from = n /\ x.to = m.from /\ x.term = m.term
                           /\ x.matchIndex = End(m)

\* Whatever node n does.
Acts(n) ==
    \/ Calm(n)
    \/ \E m \in msgs : Grant(n, m)
    \/ Campaign(n)
    \/ \E m \in msgs : Tally(n, m)
    \/ Extend(n)
    \/ \E m \in msgs : Ack(n, m)
    \/ \E m \in msgs : Accept(n, m)

\* Node n acts; the others are as they were.
PlainBy(n) ==
    /\ Acts(n)
    /\ \A c \in Node \ {n} : Same(c)
    /\ \A c \in Node : snapshot'[c].index = 0 /\ snapshot'[c].term = 0

-----------------------------------------------------------------------------
(* Every action is a step of one of these kinds *)

\* What a node's state is made of, before and after a step.
LEMMA NodeTypes ==
    ASSUME TypeInv, NEW n \in Node
    PROVE  /\ role[n] \in {Follower, Candidate, Leader} /\ currentTerm[n] \in Nat
           /\ votesGranted[n] \subseteq Node /\ log[n] \in Seq(Entry) /\ Len(log[n]) \in Nat
           /\ DOMAIN log[n] = 1 .. Len(log[n]) /\ commitIndex[n] \in Nat
           /\ nextIndex[n] \in [Node -> Nat] /\ matchIndex[n] \in [Node -> Nat]
<1>1. log[n] \in Seq(Entry)
  BY DEF TypeInv, TypeOK
<1>2. Len(log[n]) \in Nat /\ DOMAIN log[n] = 1 .. Len(log[n])
  BY <1>1
<1> QED
  BY <1>1, <1>2 DEF TypeInv, TypeOK

\* The same of the next state.
LEMMA NodeTypesNext ==
    ASSUME TypeInv', NEW n \in Node
    PROVE  /\ role'[n] \in {Follower, Candidate, Leader} /\ currentTerm'[n] \in Nat
           /\ votesGranted'[n] \subseteq Node /\ log'[n] \in Seq(Entry) /\ Len(log'[n]) \in Nat
           /\ DOMAIN log'[n] = 1 .. Len(log'[n]) /\ commitIndex'[n] \in Nat
           /\ nextIndex'[n] \in [Node -> Nat] /\ matchIndex'[n] \in [Node -> Nat]
<1>1. log'[n] \in Seq(Entry)
  BY DEF TypeInv, TypeOK
<1>2. Len(log'[n]) \in Nat /\ DOMAIN log'[n] = 1 .. Len(log'[n])
  BY <1>1
<1> QED
  BY <1>1, <1>2 DEF TypeInv, TypeOK

\* Nothing but the messages changes.
LEMMA AllSame ==
    ASSUME TypeInv, PlainState, NEW n \in Node,
           UNCHANGED <<role, currentTerm, votesGranted, log, commitIndex, nextIndex,
                       matchIndex, snapshot, elected, committed>>,
           \A x \in msgs' : x \in msgs \/ Harmless(x) \/ Sent(n, x)
    PROVE  PlainBy(n)
<1>0. currentTerm[n] \in Nat /\ \A p \in Node : nextIndex[n][p] \in Nat
  BY DEF TypeInv, TypeOK
<1>1. Eases(n)
  BY <1>0 DEF Eases
<1>2. \A c \in Node : Same(c)
  BY DEF Same
<1> QED
  BY <1>1, <1>2 DEF PlainBy, Acts, Calm, PlainState

\* What replicate_to builds in a new state.
LEMMA SentOnes ==
    ASSUME NEW n \in Node, role'[n] = Leader, NEW p \in Node, p # n,
           nextIndex'[n][p] >= 1
    PROVE  Sent(n, ReplicateTo(n, p)')
  BY DEF Sent

\* The heartbeat.
LEMMA PlainHeartbeat ==
    ASSUME TypeInv, PlainState, NEW n \in Node, Heartbeat(n)
    PROVE  PlainBy(n)
<1>1. /\ role[n] = Leader /\ ReplicationTargets(n) \subseteq Tracked(n)
      /\ msgs' = msgs \cup {ReplicateTo(n, p) : p \in ReplicationTargets(n)}
      /\ UNCHANGED <<role, currentTerm, votesGranted, log, commitIndex, nextIndex,
                     matchIndex, snapshot, elected, committed>>
  BY DEF Heartbeat, Send, electionVars, leaderVars
<1>2. ASSUME NEW p \in ReplicationTargets(n) PROVE Sent(n, ReplicateTo(n, p))
  <2>1. p \in Node /\ p # n /\ nextIndex[n][p] # 0 /\ nextIndex[n][p] \in Nat
    BY <1>1 DEF Tracked, ReplicationTargets, TypeInv, TypeOK
  <2>2. nextIndex'[n][p] >= 1
    BY <1>1, <2>1
  <2>3. ReplicateTo(n, p)' = ReplicateTo(n, p)
    BY <1>1 DEF ReplicateTo, Replication, PrevLogTerm, TermIn
  <2>4. Sent(n, ReplicateTo(n, p)')
    BY <1>1, <2>1, <2>2, SentOnes
  <2> QED
    BY <2>3, <2>4
<1> QED
  BY <1>1, <1>2, AllSame

\* A node leaves its office, or keeps its office and its term.
LEMMA StepDownEases ==
    ASSUME TypeInv, PlainState, NEW n \in Node, NEW t \in Nat,
           (StepDown(n, t) /\ t > currentTerm[n]) \/ ObserveLeader(n, t),
           UNCHANGED <<log, commitIndex, snapshot, elected, committed>>,
           \A x \in msgs' : x \in msgs \/ Harmless(x)
    PROVE  PlainBy(n)
<1>0. currentTerm[n] \in Nat /\ \A p \in Node : nextIndex[n][p] \in Nat
  BY DEF TypeInv, TypeOK
<1>1. CASE StepDown(n, t) /\ t > currentTerm[n]
  <2>1. /\ role'[n] = Follower /\ currentTerm'[n] = t /\ votesGranted'[n] = {}
        /\ matchIndex'[n] = NoProgress
        /\ \A c \in Node \ {n} : Same(c)
    BY <1>1 DEF StepDown, Same, TypeInv, TypeOK
  <2>2. Eases(n)
    BY <1>0, <1>1, <2>1 DEF Eases, NoProgress, Follower, Leader
  <2> QED
    BY <2>1, <2>2 DEF PlainBy, Acts, Calm, PlainState
<1>2. CASE ~ (StepDown(n, t) /\ t > currentTerm[n])
  <2>1. /\ role'[n] \in {role[n], Follower}
        /\ UNCHANGED <<currentTerm, votesGranted, nextIndex, matchIndex>>
        /\ \A c \in Node \ {n} : Same(c)
    BY <1>2 DEF ObserveLeader, Same, TypeInv, TypeOK, leaderVars
  <2>2. Eases(n)
    BY <1>0, <2>1 DEF Eases
  <2> QED
    BY <2>1, <2>2 DEF PlainBy, Acts, Calm, PlainState
<1> QED
  BY <1>1, <1>2

\* A crash loses what the disk does not hold: the office and the commit index.
LEMMA PlainRestart ==
    ASSUME TypeInv, VoteInv, LockInv, PlainState, NEW n \in Node, Restart(n)
    PROVE  PlainBy(n)
<1> DEFINE snap == [disk[n].snapshot EXCEPT !.config = RecoveredConfig(n)]
<1>1. /\ role' = [role EXCEPT ![n] = Follower]
      /\ currentTerm' = [currentTerm EXCEPT ![n] = disk[n].term]
      /\ votesGranted' = [votesGranted EXCEPT ![n] = {}]
      /\ log' = [log EXCEPT ![n] = disk[n].log]
      /\ commitIndex' = [commitIndex EXCEPT ![n] = disk[n].snapshot.index]
      /\ nextIndex' = [nextIndex EXCEPT ![n] = NoProgress]
      /\ matchIndex' = [matchIndex EXCEPT ![n] = NoProgress]
      /\ snapshot' = [snapshot EXCEPT ![n] = snap]
      /\ UNCHANGED <<msgs, elected, committed>>
  BY DEF Restart
<1>2. Mirrored(n)
  BY DEF LockInv
<1>3. /\ disk[n].log = log[n] /\ disk[n].term = currentTerm[n]
      /\ disk[n].snapshot.index = 0 /\ disk[n].snapshot.term = 0
  BY <1>2 DEF Mirrored, PlainState, VoteInv, HardStateDurable
<1>4. snap.index = 0 /\ snap.term = 0
  <2>1. disk[n].snapshot \in Snapshot
    BY DEF TypeInv, TypeOK, Durable
  <2> QED
    BY <1>3, <2>1 DEF Snapshot
<1> HIDE DEF snap
<1>5. /\ role'[n] = Follower /\ currentTerm'[n] = currentTerm[n] /\ votesGranted'[n] = {}
      /\ log'[n] = log[n] /\ commitIndex'[n] = 0 /\ matchIndex'[n] = NoProgress
      /\ snapshot'[n] = snap
      /\ \A c \in Node \ {n} : snapshot'[c] = snapshot[c]
  BY <1>1, <1>3 DEF TypeInv, TypeOK
<1>6. \A c \in Node \ {n} : Same(c)
  BY <1>1 DEF Same, TypeInv, TypeOK
<1>7. Eases(n)
  <2>1. currentTerm[n] \in Nat
    BY DEF TypeInv, TypeOK
  <2> QED
    BY <1>1, <1>5, <2>1 DEF Eases, NoProgress, Follower, Leader
<1> QED
  BY <1>1, <1>4, <1>5, <1>6, <1>7 DEF PlainBy, Acts, Calm, PlainState

\* A learner is added or removed.
LEMMA PlainLearner ==
    ASSUME TypeInv, PlainState, NEW n \in Node, NEW id \in Node,
           AddLearner(n, id) \/ RemoveLearner(n, id)
    PROVE  PlainBy(n)
<1>1. UNCHANGED <<role, currentTerm, votesGranted, log, commitIndex, snapshot, msgs,
                  elected, committed>>
  BY DEF AddLearner, RemoveLearner, SetLearners, electionVars
<1>2. \/ UNCHANGED <<nextIndex, matchIndex>>
      \/ /\ nextIndex' = [nextIndex EXCEPT ![n][id] = LastLogIndex(n) + 1]
         /\ matchIndex' = [matchIndex EXCEPT ![n][id] = 0]
  BY DEF AddLearner, RemoveLearner, leaderVars
<1>3. CASE UNCHANGED <<nextIndex, matchIndex>>
  BY <1>1, <1>3, AllSame
<1>4. CASE ~ UNCHANGED <<nextIndex, matchIndex>>
  <2>1. LastLogIndex(n) = Len(log[n]) /\ Len(log[n]) \in Nat
    BY SMTT(30) DEF LastLogIndex, PlainState, TypeInv, TypeOK
  <2>a. /\ nextIndex' = [nextIndex EXCEPT ![n][id] = Len(log[n]) + 1]
        /\ matchIndex' = [matchIndex EXCEPT ![n][id] = 0]
    BY <1>2, <1>4, <2>1
  <2>2. /\ \A p \in Node :
              /\ nextIndex'[n][p] = IF p = id THEN Len(log[n]) + 1 ELSE nextIndex[n][p]
              /\ matchIndex'[n][p] = IF p = id THEN 0 ELSE matchIndex[n][p]
        /\ \A c \in Node \ {n} : nextIndex'[c] = nextIndex[c]
                                  /\ matchIndex'[c] = matchIndex[c]
    BY <2>a DEF TypeInv, TypeOK
  <2>3. currentTerm[n] \in Nat /\ \A p \in Node : nextIndex[n][p] \in Nat
    BY DEF TypeInv, TypeOK
  <2>4. Eases(n)
    BY <1>1, <2>1, <2>2, <2>3 DEF Eases
  <2>5. \A c \in Node \ {n} : Same(c)
    BY <1>1, <2>2 DEF Same
  <2> QED
    BY <1>1, <2>4, <2>5 DEF PlainBy, Acts, Calm, PlainState
<1> QED
  BY <1>3, <1>4

\* Refusals, and answers that are not votes.
LEMMA RefusalsAreHarmless ==
    ASSUME NEW n, NEW p
    PROVE  /\ \A t : Harmless(RequestVoteResponse(n, p, t, FALSE))
           /\ n # p => \A t : Harmless(AppendEntriesResponse(n, p, t, FALSE, 0))
  BY DEF Harmless, RequestVoteResponse, AppendEntriesResponse, Granted, IsAck, PlainMsg

\* What on_request_vote compares.
LEMMA LastOfLog ==
    ASSUME TypeInv, PlainState, NEW n \in Node
    PROVE  /\ LastLogIndex(n) = Len(log[n]) /\ LastLogTerm(n) = LastTerm(log[n])
           /\ Len(log[n]) \in Nat /\ LastTerm(log[n]) \in Nat
<1>1. log[n] \in Seq(Entry) /\ snapshot[n].index = 0 /\ snapshot[n].term = 0
  BY DEF TypeInv, TypeOK, PlainState
<1>2. Len(log[n]) \in Nat /\ (log[n] # <<>> => Len(log[n]) \in DOMAIN log[n])
  BY <1>1
<1>3. log[n] # <<>> => log[n][Len(log[n])].term \in Nat
  BY <1>1, <1>2, EntryFields
<1> QED
  BY <1>1, <1>2, <1>3 DEF LastLogIndex, LastLogTerm, LastTerm

\* A vote request is refused, or its sender is granted the vote.
LEMMA PlainOnRequestVote ==
    ASSUME TypeInv, PlainState, NEW m \in msgs, OnRequestVote(m)
    PROVE  PlainBy(m.to)
<1> DEFINE n == m.to
<1>1. n \in Node /\ m.term \in Nat /\ m.type = "RequestVote"
  BY MessageFields DEF OnRequestVote, TypeInv, TypeOK
<1>2. CASE DisregardRequestVote(m)
  <2>1. /\ UNCHANGED <<role, currentTerm, votesGranted, log, commitIndex, nextIndex,
                       matchIndex, snapshot, elected, committed>>
        /\ msgs' = (msgs \ {m}) \cup {RequestVoteResponse(n, m.from, currentTerm[n], FALSE)}
    BY <1>2 DEF DisregardRequestVote, Reply, electionVars, leaderVars
  <2>2. \A x \in msgs' : x \in msgs \/ Harmless(x)
    BY <2>1, RefusalsAreHarmless
  <2> QED
    BY <1>1, <2>1, <2>2, AllSame
<1>3. CASE AnswerRequestVote(m)
  <2> DEFINE newer == m.term > currentTerm[n]
             grant == LogIsUpToDate(n, m)
                        /\ (IF newer THEN Nil ELSE votedFor[n]) \in {Nil, m.from}
  <2>1. /\ m.term >= currentTerm[n] /\ role[n] # Leader
        /\ role' = [role EXCEPT ![n] = IF newer THEN Follower ELSE @]
        /\ currentTerm' = [currentTerm EXCEPT ![n] = m.term]
        /\ votesGranted' = [votesGranted EXCEPT ![n] = IF newer THEN {} ELSE @]
        /\ nextIndex' = [nextIndex EXCEPT ![n] = IF newer THEN NoProgress ELSE @]
        /\ matchIndex' = [matchIndex EXCEPT ![n] = IF newer THEN NoProgress ELSE @]
        /\ msgs' = (msgs \ {m}) \cup {RequestVoteResponse(n, m.from, m.term, grant)}
        /\ UNCHANGED <<log, commitIndex, snapshot, elected, committed>>
    BY <1>3 DEF AnswerRequestVote, Reply
  <2>2. grant \in BOOLEAN /\ (grant => LogIsUpToDate(n, m))
    OBVIOUS
  <2> HIDE DEF grant, n
  <2>3. currentTerm[n] \in Nat /\ \A p \in Node : nextIndex[n][p] \in Nat
    BY <1>1 DEF TypeInv, TypeOK
  <2>4. /\ role'[n] = (IF newer THEN Follower ELSE role[n]) /\ currentTerm'[n] = m.term
        /\ votesGranted'[n] = (IF newer THEN {} ELSE votesGranted[n])
        /\ matchIndex'[n] = (IF newer THEN NoProgress ELSE matchIndex[n])
        /\ \A c \in Node \ {n} : Same(c)
    BY <1>1, <2>1 DEF TypeInv, TypeOK, Same
  <2>5. Eases(n)
    BY <2>1, <2>3, <2>4, <1>1 DEF Eases, NoProgress, Follower, Leader
  <2>6. CASE grant
    <3>1. NotNewer(LastTerm(log[n]), Len(log[n]), m.lastLogTerm, m.lastLogIndex)
      BY <1>1, <2>2, <2>6, LastOfLog DEF LogIsUpToDate, NotNewer
    <3>2. \A x \in msgs' : \/ x \in msgs
                           \/ Granted(x) /\ x.from = n /\ x.to = m.from /\ x.term = m.term
      BY <2>1, <2>6 DEF Granted, RequestVoteResponse
    <3>3. Grant(n, m)
      BY <1>1, <2>4, <2>5, <3>1, <3>2 DEF Grant, n
    <3> QED
      BY <2>1, <2>4, <3>3 DEF PlainBy, Acts, PlainState, n
  <2>7. CASE ~ grant
    <3>1. grant = FALSE
      BY <2>2, <2>7
    <3>2. \A x \in msgs' : x \in msgs \/ Harmless(x)
      BY <2>1, <3>1, RefusalsAreHarmless
    <3>3. Calm(n)
      BY <2>5, <3>2 DEF Calm
    <3> QED
      BY <2>1, <2>4, <3>3 DEF PlainBy, Acts, PlainState, n
  <2> QED
    BY <2>6, <2>7
<1> QED
  BY <1>2, <1>3 DEF OnRequestVote

\* Who wins has a majority of the genesis voters, no acknowledgements yet, and
\* starts to replicate from the end of its log.
LEMMA PlainWin ==
    ASSUME TypeInv, LockInv, StaticInv, PlainState, NEW n \in Node, n \in Bootstrap,
           NEW t, NEW votes \in SUBSET Bootstrap, WinWith(n, t, votes),
           votesGranted'[n] = votes, currentTerm'[n] = t, log'[n] = log[n],
           role'[n] = (IF HasQuorum(currentConfig[n], votes) THEN Leader ELSE Candidate)
    PROVE  /\ Elects(n)
           /\ \A c \in Node \ {n} : nextIndex'[c] = nextIndex[c] /\ matchIndex'[c] = matchIndex[c]
           /\ role'[n] = Leader => \A p \in ReplicationTargets(n) : Sent(n, ReplicateTo(n, p)')
<1>1. currentConfig[n] = Genesis /\ ReplicationTargets(n) \subseteq Node \ {n}
  BY ConfigIsKnown DEF ReplicationTargets, TypeInv, TypeOK, Config
<1>2. LastLogIndex(n) = Len(log[n]) /\ Len(log[n]) \in Nat
  BY LastOfLog
<1>3. CASE HasQuorum(currentConfig[n], votes)
  <2> DEFINE Seed(v) == [p \in Node |-> IF p \in ReplicationTargets(n) THEN v ELSE 0]
  <2>1. /\ nextIndex' = [nextIndex EXCEPT ![n] = Seed(Len(log[n]) + 1)]
        /\ matchIndex' = [matchIndex EXCEPT ![n] = Seed(0)]
        /\ elected' = elected \cup {[term |-> t, leader |-> n, votes |-> votes,
                                     config |-> currentConfig[n]]}
    BY <1>2, <1>3 DEF WinWith
  <2>2. /\ nextIndex'[n] = Seed(Len(log[n]) + 1) /\ matchIndex'[n] = Seed(0)
        /\ \A c \in Node \ {n} : nextIndex'[c] = nextIndex[c] /\ matchIndex'[c] = matchIndex[c]
    BY <2>1 DEF TypeInv, TypeOK
  <2>3. \A p \in Node : matchIndex'[n][p] = 0 /\ nextIndex'[n][p] <= Len(log[n]) + 1
    BY <1>2, <2>2
  <2>4. Majority(votes)
    BY <1>1, <1>3 DEF Majority, HasQuorum, Genesis, Stable
  <2>5. Elects(n)
    BY <1>1, <1>3, <2>1, <2>3, <2>4 DEF Elects
  <2>6. \A p \in ReplicationTargets(n) : nextIndex'[n][p] >= 1
    BY <1>1, <1>2, <2>2
  <2>7. \A p \in ReplicationTargets(n) : Sent(n, ReplicateTo(n, p)')
    BY <1>1, <1>3, <2>6, SentOnes
  <2> QED
    BY <2>2, <2>5, <2>7
<1>4. CASE ~ HasQuorum(currentConfig[n], votes)
  BY <1>4 DEF WinWith, Elects, leaderVars, Leader, Candidate
<1> QED
  BY <1>3, <1>4

\* The election timeout.
LEMMA PlainStartElection ==
    ASSUME TypeInv, TypeInv', LockInv, StaticInv, PlainState, NEW n \in Node, StartElection(n)
    PROVE  PlainBy(n)
<1> DEFINE t == currentTerm[n] + 1
           won == HasQuorum(currentConfig[n], {n})
<1>1. /\ role[n] # Leader
      /\ role' = [role EXCEPT ![n] = IF won THEN Leader ELSE Candidate]
      /\ currentTerm' = [currentTerm EXCEPT ![n] = t]
      /\ votesGranted' = [votesGranted EXCEPT ![n] = {n}]
      /\ WinWith(n, t, {n})
      /\ UNCHANGED <<log, commitIndex, snapshot, committed>>
      /\ msgs' = msgs \cup IF won
                THEN {ReplicateTo(n, p)' : p \in ReplicationTargets(n)}
                ELSE {RequestVote(n, p)' : p \in currentConfig[n].voters \ {n}}
      /\ IsVoter(currentConfig[n], n)
  BY DEF StartElection, Send
<1>2. n \in Bootstrap
  BY <1>1, ConfigIsKnown DEF IsVoter
<1>3. /\ role'[n] = (IF won THEN Leader ELSE Candidate) /\ currentTerm'[n] = t
      /\ votesGranted'[n] = {n}
      /\ \A c \in Node \ {n} : /\ role'[c] = role[c] /\ votesGranted'[c] = votesGranted[c]
                               /\ currentTerm'[c] = currentTerm[c]
  BY <1>1 DEF TypeInv, TypeOK
<1> HIDE DEF t
<1>4. /\ Elects(n)
      /\ \A c \in Node \ {n} : nextIndex'[c] = nextIndex[c] /\ matchIndex'[c] = matchIndex[c]
      /\ role'[n] = Leader => \A p \in ReplicationTargets(n) : Sent(n, ReplicateTo(n, p)')
  BY <1>1, <1>2, <1>3, PlainWin
<1>5. LastLogIndex(n)' = Len(log[n]) /\ LastLogTerm(n)' = LastTerm(log[n])
  <2>1. LastLogIndex(n)' = LastLogIndex(n) /\ LastLogTerm(n)' = LastLogTerm(n)
    BY <1>1 DEF LastLogIndex, LastLogTerm
  <2> QED
    BY <2>1, LastOfLog
<1>6. \A x \in msgs' :
          \/ x \in msgs \/ Sent(n, x)
          \/ /\ x.type = "RequestVote" /\ x.from = n /\ x.term = currentTerm'[n]
             /\ x.lastLogIndex = Len(log[n]) /\ x.lastLogTerm = LastTerm(log[n])
  <2>1. CASE won
    BY <1>1, <1>3, <1>4, <2>1
  <2>2. CASE ~ won
    BY <1>1, <1>5, <2>2 DEF RequestVote
  <2> QED
    BY <2>1, <2>2
<1>7. Campaign(n)
  BY <1>1, <1>3, <1>4, <1>6 DEF Campaign, t
<1>8. \A c \in Node \ {n} : Same(c)
  BY <1>1, <1>3, <1>4 DEF Same
<1> QED
  BY <1>1, <1>7, <1>8 DEF PlainBy, Acts, PlainState

\* A vote is counted.
LEMMA PlainCountVote ==
    ASSUME TypeInv, TypeInv', LockInv, StaticInv, PlainState, NEW m \in msgs,
           m.type = "RequestVoteResponse", CountVote(m)
    PROVE  PlainBy(m.to)
<1> DEFINE n == m.to
           votes == votesGranted[n] \cup {m.from}
           won == HasQuorum(currentConfig[n], votes)
<1>1. /\ n \in Node /\ role[n] = Candidate /\ m.granted /\ m.term = currentTerm[n]
      /\ votesGranted' = [votesGranted EXCEPT ![n] = votes]
      /\ role' = [role EXCEPT ![n] = IF won THEN Leader ELSE @]
      /\ WinWith(n, m.term, votes)
      /\ UNCHANGED <<currentTerm, log, commitIndex, snapshot, committed>>
      /\ msgs' = (msgs \ {m}) \cup IF won
                THEN {ReplicateTo(n, p)' : p \in ReplicationTargets(n)} ELSE {}
  BY MessageFields DEF CountVote, Reply, TypeInv, TypeOK
<1>2. n \in Bootstrap /\ votes \in SUBSET Bootstrap
  BY <1>1 DEF StaticInv, StaticNode, StaticMsg, Granted, Candidate, Follower
<1> HIDE DEF n, votes
<1>3. /\ votesGranted'[n] = votes /\ role'[n] = (IF won THEN Leader ELSE Candidate)
      /\ \A c \in Node \ {n} : role'[c] = role[c] /\ votesGranted'[c] = votesGranted[c]
  BY <1>1 DEF TypeInv, TypeOK
<1>4. /\ Elects(n)
      /\ \A c \in Node \ {n} : nextIndex'[c] = nextIndex[c] /\ matchIndex'[c] = matchIndex[c]
      /\ role'[n] = Leader => \A p \in ReplicationTargets(n) : Sent(n, ReplicateTo(n, p)')
  BY <1>1, <1>2, <1>3, PlainWin
<1>5. \A x \in msgs' : x \in msgs \/ Sent(n, x)
  BY <1>1, <1>3, <1>4
<1>6. Tally(n, m)
  BY <1>1, <1>3, <1>4, <1>5 DEF Tally, Granted, votes, n
<1>7. \A c \in Node \ {n} : Same(c)
  BY <1>1, <1>3, <1>4 DEF Same
<1> QED
  BY <1>1, <1>6, <1>7 DEF PlainBy, Acts, PlainState, n

\* One pass of the majority rule of advance_commit_index.
LEMMA PlainPass ==
    ASSUME TypeInv, PlainState, NEW n \in Node, NEW lg \in Seq(Entry),
           NEW match \in [Node -> Nat],
           NEW commit, commit = CommitPass(n, lg, Genesis, match, commitIndex[n])
    PROVE  \/ commit = commitIndex[n]
           \/ /\ commit \in DOMAIN lg /\ lg[commit].term = currentTerm[n]
              /\ \E Q : Majority(Q) /\ \A v \in Q : v = n \/ match[v] >= commit
<1> DEFINE last == snapshot[n].index + Len(lg)
           Holders(i) == {p \in Node : IF p = n THEN last >= i ELSE match[p] >= i}
           reached == {i \in (commitIndex[n] + 1) .. (last + 1) :
                          CommitQuorum(Genesis, Holders(i))}
<1>1. /\ snapshot[n] \in Snapshot /\ snapshot[n].index = 0 /\ last = Len(lg)
      /\ Len(lg) \in Nat /\ last + 1 \in Nat /\ commitIndex[n] \in Nat
      /\ currentTerm[n] \in Nat
  BY DEF TypeInv, TypeOK, PlainState
<1>2. SUFFICES ASSUME commit # commitIndex[n]
               PROVE  /\ commit \in DOMAIN lg /\ lg[commit].term = currentTerm[n]
                      /\ \E Q : Majority(Q) /\ \A v \in Q : v = n \/ match[v] >= commit
  OBVIOUS
<1>3. /\ reached # {} /\ OfOwnTerm(n, lg, Max(reached)) /\ commit = Max(reached)
  BY <1>2 DEF CommitPass
<1>4. commit \in reached
  <2>1. reached \in SUBSET Nat /\ \A y \in reached : y <= last + 1
    BY <1>1
  <2> HIDE DEF reached, last
  <2> QED
    BY <1>1, <1>3, <2>1, MaxProperties
<1>5. commit \in Nat /\ commit >= 1 /\ CommitQuorum(Genesis, Holders(commit))
  <2>1. /\ commit \in (commitIndex[n] + 1) .. (last + 1)
        /\ CommitQuorum(Genesis, Holders(commit))
    BY <1>4
  <2> HIDE DEF Holders, last
  <2> QED
    BY <1>1, <2>1
<1>6. TermIn(lg, snapshot[n], commit) = currentTerm[n]
  BY <1>3 DEF OfOwnTerm
<1>7. commit \in DOMAIN lg /\ lg[commit].term = currentTerm[n]
  <2>1. commit - snapshot[n].index = commit
    BY <1>1, <1>5
  <2> QED
    BY <1>1, <1>5, <1>6, <2>1 DEF TermIn, NoTerm
<1>8. Majority(Bootstrap \cap Holders(commit))
  BY <1>5 DEF Majority, CommitQuorum, MajorityReached, Genesis, Stable
<1> QED
  BY <1>7, <1>8

\* advance_commit_index on a leader, who is a genesis voter and so never retires.
LEMMA PlainAdvance ==
    ASSUME TypeInv, StaticInv, PlainState, NEW n \in Node, role[n] = Leader,
           NEW lg \in Seq(Entry), NEW active, active.config = Genesis,
           NEW next, NEW match \in [Node -> Nat], NEW d,
           LeaderAdvance(n, lg, active, next, match, d)
    PROVE  /\ Leads(n) /\ log'[n] = lg /\ nextIndex'[n] = next /\ matchIndex'[n] = match
           /\ \A c \in Node \ {n} : Same(c)
           /\ \A c \in Node : snapshot'[c].index = 0 /\ snapshot'[c].term = 0
<1> DEFINE adv == AdvanceCommitIndex(n, lg, active, match)
<1>1. n \in Bootstrap
  BY DEF StaticInv, StaticNode, Leader, Follower
<1>2. /\ adv.log = lg /\ adv.retired = FALSE
      /\ adv.commit = CommitPass(n, lg, Genesis, match, commitIndex[n])
  BY <1>1 DEF AdvanceCommitIndex, IsJoint, Genesis, Stable
<1>3. /\ log' = [log EXCEPT ![n] = adv.log]
      /\ commitIndex' = [commitIndex EXCEPT ![n] = adv.commit]
      /\ role' = [role EXCEPT ![n] = IF adv.retired THEN Follower ELSE @]
      /\ votesGranted' = [votesGranted EXCEPT ![n] = IF adv.retired THEN {} ELSE @]
      /\ nextIndex' = [nextIndex EXCEPT ![n] = IF adv.retired THEN NoProgress ELSE next]
      /\ matchIndex' = [matchIndex EXCEPT ![n] = IF adv.retired THEN NoProgress ELSE match]
      /\ committed' = committed \cup NewlyCommitted(n, adv.log, adv.commit)
      /\ UNCHANGED <<currentTerm, snapshot, elected>>
  BY DEF LeaderAdvance
<1> HIDE DEF adv
<1>4. /\ log'[n] = lg /\ commitIndex'[n] = adv.commit /\ role'[n] = Leader
      /\ votesGranted'[n] = votesGranted[n] /\ nextIndex'[n] = next /\ matchIndex'[n] = match
  BY <1>2, <1>3 DEF TypeInv, TypeOK
<1>5. \A c \in Node \ {n} : Same(c)
  BY <1>3 DEF TypeInv, TypeOK, Same
<1>6. Counts(n)
  <2>1. \/ adv.commit = commitIndex[n]
        \/ /\ adv.commit \in DOMAIN lg /\ lg[adv.commit].term = currentTerm[n]
           /\ \E Q : Majority(Q) /\ \A v \in Q : v = n \/ match[v] >= adv.commit
    BY <1>2, PlainPass
  <2> QED
    BY <1>4, <2>1 DEF Counts
<1>7. Records(n)
  <2>1. \A i \in (commitIndex[n] + 1) .. adv.commit : i - snapshot[n].index = i
    BY DEF PlainState
  <2> QED
    BY <1>2, <1>3, <1>4, <2>1 DEF Records, NewlyCommitted
<1>8. Leads(n)
  BY <1>3, <1>4, <1>6, <1>7 DEF Leads
<1> QED
  BY <1>3, <1>4, <1>5, <1>8 DEF PlainState

\* A client's command.
LEMMA PlainPropose ==
    ASSUME TypeInv, LockInv, StaticInv, PlainState, NEW n \in Node, NEW c \in Command,
           Propose(n, c)
    PROVE  /\ PlainBy(n) /\ Extend(n)
           /\ log'[n] = Append(log[n], [term |-> currentTerm[n], payload |-> CommandPayload(c)])
<1> DEFINE e == [term |-> currentTerm[n], payload |-> CommandPayload(c)]
           lg == Append(log[n], e)
           active == LatestConfiguration(lg, snapshot[n])
<1>1. /\ role[n] = Leader /\ msgs' = msgs
      /\ LeaderAdvance(n, lg, active, nextIndex[n], matchIndex[n], disk[n])
  BY DEF Propose, AppendAndAdvance
<1>2. log[n] \in Seq(Entry) /\ e \in Entry /\ matchIndex[n] \in [Node -> Nat]
  BY DEF TypeInv, TypeOK, Entry, CommandPayload, Payload
<1>3. e.payload.type = "Command" /\ e.term = currentTerm[n]
  BY DEF CommandPayload
<1>4. StaticNode(n) /\ n \in Bootstrap
  BY <1>1 DEF StaticInv, StaticNode, Leader, Follower
<1> HIDE DEF e
<1>5. lg \in Seq(Entry)
  BY <1>2, AppendProperties
<1>6. active.config = Genesis
  <2>1. NoConfigurations(lg)
    <3>1. /\ Len(log[n]) \in Nat
          /\ \A i \in 1 .. Len(log[n]) : lg[i] = log[n][i]
          /\ lg[Len(log[n]) + 1] = e /\ DOMAIN lg = 1 .. Len(log[n]) + 1
          /\ DOMAIN log[n] = 1 .. Len(log[n])
      BY <1>2, AppendProperties
    <3> HIDE DEF lg
    <3>2. \A i \in 1 .. Len(log[n]) : log[n][i].payload.type # "Configuration"
      BY <1>4, <3>1 DEF StaticNode, NoConfigurations
    <3> QED
      BY <1>3, <3>1, <3>2 DEF NoConfigurations
  <2> QED
    BY <1>4, <2>1, LatestOfPlain DEF StaticNode, Known
<1> HIDE DEF active
<1>7. /\ Leads(n) /\ log'[n] = lg /\ nextIndex'[n] = nextIndex[n]
      /\ matchIndex'[n] = matchIndex[n]
      /\ \A x \in Node \ {n} : Same(x)
      /\ \A x \in Node : snapshot'[x].index = 0 /\ snapshot'[x].term = 0
  <2> HIDE DEF lg
  <2> QED
    BY <1>1, <1>2, <1>5, <1>6, PlainAdvance
<1>8. Extend(n)
  BY <1>1, <1>2, <1>3, <1>7 DEF Extend
<1> QED
  BY <1>7, <1>8 DEF PlainBy, Acts, lg, e

\* The trailing replicate_to of a response handler.
LEMMA PlainBehind ==
    ASSUME TypeInv', NEW m \in msgs, m.to \in Node, m.from \in Node, m.from # m.to,
           role'[m.to] = Leader, nextIndex'[m.to][m.from] >= 1, ReplicateIfBehind(m)
    PROVE  \A x \in msgs' : x \in msgs \/ Sent(m.to, x)
<1>1. Sent(m.to, ReplicateTo(m.to, m.from)')
  BY SentOnes
<1> QED
  BY <1>1 DEF ReplicateIfBehind, Reply

\* A refusal makes a leader try an earlier entry.
LEMMA PlainBackOff ==
    ASSUME TypeInv, TypeInv', PlainState, NEW m \in msgs, role[m.to] = Leader,
           m.from # m.to, BackOff(m)
    PROVE  PlainBy(m.to)
<1> DEFINE n == m.to
           back == Max({nextIndex[n][m.from] - 1, 1})
<1>1. n \in Node /\ m.from \in Node /\ m.from # n /\ role[n] = Leader
  BY MessageFields DEF TypeInv, TypeOK
<1>2. /\ nextIndex' = [nextIndex EXCEPT ![n][m.from] = back]
      /\ UNCHANGED <<role, currentTerm, votesGranted, log, commitIndex, matchIndex,
                     snapshot, elected, committed>>
      /\ ReplicateIfBehind(m)
  BY DEF BackOff, electionVars
<1>3. /\ back \in Nat /\ back >= 1
      /\ back <= nextIndex[n][m.from] \/ back <= 1
  <2> DEFINE less == nextIndex[n][m.from] - 1
  <2>0. nextIndex[n][m.from] \in Nat
    BY <1>1, NodeTypes
  <2>1. less \in Int /\ less <= nextIndex[n][m.from] /\ nextIndex[n][m.from] \in Nat
    BY <2>0
  <2> HIDE DEF less, n
  <2>2. Max({less, 1}) \in {less, 1} /\ Max({less, 1}) \in Nat /\ Max({less, 1}) >= 1
    BY <2>1, MaxIsNat, PairExtrema
  <2> QED
    BY <2>1, <2>2 DEF less
<1> HIDE DEF back, n
<1>4. /\ \A p \in Node : nextIndex'[n][p] = IF p = m.from THEN back ELSE nextIndex[n][p]
      /\ \A c \in Node \ {n} : nextIndex'[c] = nextIndex[c]
  BY <1>1, <1>2 DEF TypeInv, TypeOK
<1>5. /\ currentTerm[n] \in Nat /\ Len(log[n]) \in Nat
      /\ \A p \in Node : nextIndex[n][p] \in Nat
  BY <1>1, NodeTypes
<1>6. \A p \in Node : \/ nextIndex'[n][p] <= nextIndex[n][p]
                      \/ nextIndex'[n][p] <= Len(log[n]) + 1
  BY <1>1, <1>3, <1>4, <1>5
<1>7. Eases(n)
  BY <1>2, <1>5, <1>6 DEF Eases
<1>8. \A c \in Node \ {n} : Same(c)
  BY <1>2, <1>4 DEF Same
<1>9. \A x \in msgs' : x \in msgs \/ Sent(n, x)
  BY <1>1, <1>2, <1>3, <1>4, PlainBehind DEF n
<1> QED
  BY <1>2, <1>7, <1>8, <1>9 DEF PlainBy, Acts, Calm, PlainState, n

\* An acknowledgement is recorded.
LEMMA PlainRecordMatch ==
    ASSUME TypeInv, TypeInv', LockInv, StaticInv, PlainState, NEW m \in msgs, IsAck(m),
           role[m.to] = Leader, m.term = currentTerm[m.to], RecordMatch(m, m.matchIndex)
    PROVE  PlainBy(m.to)
<1> DEFINE n == m.to
           match == Max({matchIndex[n][m.from], m.matchIndex})
           active == [config |-> currentConfig[n], index |-> currentConfigIndex[n]]
           next == [nextIndex[n] EXCEPT ![m.from] = match + 1]
           seen == [matchIndex[n] EXCEPT ![m.from] = match]
<1>1. /\ n \in Node /\ m.from \in Node /\ m.matchIndex \in Nat /\ role[n] = Leader
      /\ nextIndex[n] \in [Node -> Nat] /\ matchIndex[n] \in [Node -> Nat]
      /\ log[n] \in Seq(Entry) /\ m.from # n
  BY MessageFields DEF TypeInv, TypeOK, IsAck, PlainState, PlainMsg
<1>2. /\ LeaderAdvance(n, log[n], active, next, seen, disk[n])
      /\ ReplicateIfBehind(m)
  BY DEF RecordMatch
<1>3. match \in Nat /\ match \in {matchIndex[n][m.from], m.matchIndex}
  <2> DEFINE old == matchIndex[n][m.from]
             new == m.matchIndex
  <2>1. old \in Nat /\ new \in Nat
    BY <1>1
  <2> HIDE DEF old, new
  <2>2. Max({old, new}) \in {old, new} /\ Max({old, new}) \in Nat
    BY <2>1, MaxIsNat, PairExtrema
  <2> QED
    BY <2>2 DEF old, new
<1> HIDE DEF match
<1>4. seen \in [Node -> Nat]
  BY <1>1, <1>3
<1>5. active.config = Genesis
  BY <1>1, ConfigIsKnown DEF StaticInv, StaticNode, Leader, Follower
<1>6. \A p \in Node : /\ next[p] = IF p = m.from THEN match + 1 ELSE nextIndex[n][p]
                      /\ seen[p] = IF p = m.from THEN match ELSE matchIndex[n][p]
  BY <1>1
<1> HIDE DEF n, active, next, seen
<1>7. /\ Leads(n) /\ log'[n] = log[n] /\ nextIndex'[n] = next /\ matchIndex'[n] = seen
      /\ \A c \in Node \ {n} : Same(c)
      /\ \A c \in Node : snapshot'[c].index = 0 /\ snapshot'[c].term = 0
  BY <1>1, <1>2, <1>4, <1>5, PlainAdvance
<1>8. \A x \in msgs' : x \in msgs \/ Sent(n, x)
  <2>1. nextIndex'[n][m.from] >= 1 /\ role'[n] = Leader
    BY <1>1, <1>3, <1>6, <1>7 DEF Leads
  <2> QED
    BY <1>1, <1>2, <2>1, PlainBehind DEF n
<1>9. \A p \in Node :
          \/ matchIndex'[n][p] = matchIndex[n][p] /\ nextIndex'[n][p] = nextIndex[n][p]
          \/ /\ p = m.from
             /\ matchIndex'[n][p] \in {matchIndex[n][p], m.matchIndex}
             /\ nextIndex'[n][p] = matchIndex'[n][p] + 1
  BY <1>1, <1>3, <1>6, <1>7
<1>10. Ack(n, m)
  BY <1>7, <1>8, <1>9 DEF Ack, n
<1> QED
  BY <1>7, <1>10 DEF PlainBy, Acts, n

\* term_at, for a log that starts at index 1.
LEMMA PlainTermAt ==
    ASSUME TypeInv, PlainState, NEW n \in Node, NEW i \in Nat
    PROVE  TermAt(n, i) = IF i \in DOMAIN log[n] THEN log[n][i].term ELSE NoTerm
<1>1. DOMAIN log[n] = 1 .. Len(log[n]) /\ Len(log[n]) \in Nat /\ snapshot[n].index = 0
  BY NodeTypes DEF PlainState
<1>2. i - snapshot[n].index = i
  BY <1>1
<1>3. CASE i = 0
  BY <1>1, <1>3 DEF TermAt, TermIn
<1>4. CASE i # 0
  BY <1>1, <1>2, <1>4 DEF TermAt, TermIn
<1> QED
  BY <1>3, <1>4

\* An entry that a follower holds or misses.
LEMMA PlainMissing ==
    ASSUME TypeInv, PlainState, NEW n \in Node, NEW m, m.prevLogIndex \in Nat,
           m.entries \in Seq(Entry), NEW k \in DOMAIN m.entries
    PROVE  k \notin Missing(n, m) <=> /\ m.prevLogIndex + k \in DOMAIN log[n]
                                     /\ log[n][m.prevLogIndex + k].term = m.entries[k].term
<1>1. k \in Nat /\ k >= 1 /\ m.prevLogIndex + k \in Nat /\ m.prevLogIndex + k > 0
  OBVIOUS
<1>2. m.entries[k].term \in Nat
  BY EntryFields
<1>3. k \in Missing(n, m) <=> TermAt(n, m.prevLogIndex + k) # m.entries[k].term
  BY <1>1 DEF Missing, PlainState
<1> QED
  BY <1>1, <1>2, <1>3, PlainTermAt DEF NoTerm

\* The merge loop of on_append_entries.
LEMMA PlainMerge ==
    ASSUME TypeInv, PlainState, NEW n \in Node, NEW m, m.prevLogIndex \in Nat,
           m.prevLogTerm \in Nat, m.entries \in Seq(Entry), PrevLogSatisfied(n, m)
    PROVE  Merge(log[n], m, MergedLog(n, m))
<1> DEFINE b == m.prevLogIndex
           es == m.entries
           k == Min(Missing(n, m))
           cut == b + k - 1
           new == MergedLog(n, m)
<1>1. /\ log[n] \in Seq(Entry) /\ Len(log[n]) \in Nat /\ DOMAIN log[n] = 1 .. Len(log[n])
      /\ snapshot[n] \in Snapshot /\ snapshot[n].index = 0
      /\ Len(es) \in Nat /\ DOMAIN es = 1 .. Len(es) /\ b \in Nat
  BY NodeTypes DEF PlainState, TypeInv, TypeOK
<1>2. b # 0 => b \in DOMAIN log[n] /\ log[n][b].term = m.prevLogTerm
  <2>1. b # 0 => TermAt(n, b) = m.prevLogTerm
    BY <1>1 DEF PrevLogSatisfied
  <2> QED
    BY <1>1, <2>1, PlainTermAt DEF NoTerm
<1>3. CASE Missing(n, m) = {}
  <2>1. new = log[n]
    BY <1>3 DEF MergedLog
  <2> QED
    BY <1>2, <1>3, <2>1, PlainMissing DEF Merge, HoldsAll
<1>4. CASE Missing(n, m) # {}
  <2>1. /\ k \in DOMAIN es /\ k \in Missing(n, m)
        /\ \A i \in DOMAIN es : i < k => i \notin Missing(n, m)
    <3>1. Missing(n, m) \in SUBSET Nat /\ Missing(n, m) \subseteq DOMAIN es
      BY <1>1 DEF Missing
    <3>2. k \in Missing(n, m) /\ \A y \in Missing(n, m) : k <= y
      BY <1>4, <3>1, MinProperties
    <3> HIDE DEF k
    <3> QED
      BY <1>1, <3>1, <3>2
  <2>2. k \in Nat /\ k >= 1 /\ k <= Len(es)
    BY <1>1, <2>1
  <2>3. MergeCut(n, m) = cut
    <3> HIDE DEF k
    <3>1. MergeCut(n, m) = b + k - 1 - 0
      BY <1>1 DEF MergeCut, k
    <3> QED
      BY <1>1, <2>2, <3>1
  <2>4. /\ cut \in Nat /\ cut <= Len(log[n]) /\ \A i \in 1 .. cut : new[i] = log[n][i]
    BY <1>1, <1>4, <2>3, MergedLogPrefix
  <2>5. new = SubSeq(log[n], 1, cut) \o SubSeq(es, k, Len(es))
    BY <1>4, <2>3 DEF MergedLog, MergeCut
  <2> HIDE DEF k
  <2>6. cut >= b /\ cut <= b + Len(es) - 1
    BY <1>1, <2>2
  <2>7. /\ SubSeq(log[n], 1, cut) \in Seq(Entry) /\ Len(SubSeq(log[n], 1, cut)) = cut
    BY <1>1, <2>4, PrefixType
  <2>8. /\ SubSeq(es, k, Len(es)) \in Seq(Entry)
        /\ Len(SubSeq(es, k, Len(es))) = Len(es) - k + 1
        /\ \A i \in 1 .. Len(es) - k + 1 : SubSeq(es, k, Len(es))[i] = es[k + i - 1]
    <3>1. \A i \in k .. Len(es) : es[i] \in Entry
      BY <1>1, <2>2
    <3> QED
      BY <1>1, <2>2, <3>1, SubSeqProperties
  <2>9. /\ Len(new) = b + Len(es)
        /\ \A i \in (cut + 1) .. (b + Len(es)) : new[i] = es[i - b]
    <3> DEFINE p == SubSeq(log[n], 1, cut)
               q == SubSeq(es, k, Len(es))
    <3>1. /\ p \in Seq(Entry) /\ q \in Seq(Entry) /\ Len(p) = cut
          /\ Len(q) = Len(es) - k + 1 /\ new = p \o q
          /\ \A i \in 1 .. Len(es) - k + 1 : q[i] = es[k + i - 1]
      BY <2>5, <2>7, <2>8
    <3> HIDE DEF p, q, new
    <3>2. /\ Len(new) = Len(p) + Len(q)
          /\ \A i \in 1 .. Len(p) + Len(q) : new[i] = IF i <= Len(p) THEN p[i] ELSE q[i - Len(p)]
      BY <3>1, ConcatProperties
    <3>3. cut + (Len(es) - k + 1) = b + Len(es)
      BY <1>1, <2>2
    <3>4. ASSUME NEW i \in (cut + 1) .. (b + Len(es)) PROVE new[i] = es[i - b]
      <4> DEFINE h == i - cut
                 z == Len(es)
      <4>a. z \in Nat /\ b \in Nat /\ k \in Nat /\ 1 <= k /\ k <= z /\ cut = b + k - 1
            /\ cut \in Nat /\ i \in (cut + 1) .. (b + z)
        BY <1>1, <2>2, <2>4
      <4> HIDE DEF z, b, cut
      <4>b. h \in 1 .. z - k + 1 /\ k + h - 1 = i - b /\ ~ (i <= cut)
            /\ i \in 1 .. cut + (z - k + 1)
        BY <4>a
      <4>1. h \in 1 .. Len(es) - k + 1 /\ k + h - 1 = i - b /\ ~ (i <= cut)
            /\ i \in 1 .. cut + (Len(es) - k + 1)
        BY <4>b DEF z
      <4>2. new[i] = q[h]
        BY <3>1, <3>2, <4>1
      <4> HIDE DEF h
      <4>3. q[h] = es[k + h - 1]
        BY <3>1, <4>1
      <4> QED
        BY <4>1, <4>2, <4>3
    <3> QED
      BY <3>1, <3>2, <3>3, <3>4
  <2> HIDE DEF new
  <2>10. \A i \in (b + 1) .. cut : log[n][i].term = es[i - b].term
    <3> SUFFICES ASSUME NEW i \in (b + 1) .. cut PROVE log[n][i].term = es[i - b].term
      OBVIOUS
    <3> DEFINE h == i - b
    <3>1. h \in DOMAIN es /\ h < k /\ b + h = i
      BY <1>1, <2>2, <2>4
    <3> HIDE DEF h
    <3>2. log[n][b + h].term = es[h].term
      BY <2>1, <3>1, PlainMissing
    <3> QED
      BY <3>1, <3>2 DEF h
  <2>11. cut < Len(log[n]) => log[n][cut + 1].term # es[cut + 1 - b].term
    <3> SUFFICES ASSUME cut < Len(log[n]) PROVE log[n][cut + 1].term # es[cut + 1 - b].term
      OBVIOUS
    <3>1. b + k = cut + 1 /\ cut + 1 - b = k /\ b + k \in DOMAIN log[n]
      BY <1>1, <2>2, <2>4
    <3> HIDE DEF cut
    <3>2. log[n][b + k].term # es[k].term
      BY <2>1, <3>1, PlainMissing
    <3> QED
      BY <3>1, <3>2
  <2> HIDE DEF cut
  <2>12. cut \in b .. (b + Len(es) - 1)
    BY <1>1, <2>4, <2>6
  <2>13. Splices(log[n], m, new, cut)
    BY <2>4, <2>9, <2>10, <2>11, <2>12 DEF Splices, End
  <2>14. cut \in m.prevLogIndex .. (End(m) - 1)
    BY <2>12 DEF End
  <2> QED
    BY <1>2, <2>13, <2>14 DEF Merge, new
<1> QED
  BY <1>3, <1>4

\* An AppendEntries request is refused, or its entries are merged.
LEMMA PlainOnAppendEntries ==
    ASSUME TypeInv, PlainState, NEW m \in msgs, OnAppendEntries(m)
    PROVE  PlainBy(m.to)
<1> DEFINE n == m.to
           lg == MergedLog(n, m)
<1>1. /\ n \in Node /\ m.from \in Node /\ m.term \in Nat /\ m.type = "AppendEntries"
      /\ m.prevLogIndex \in Nat /\ m.prevLogTerm \in Nat /\ m.entries \in Seq(Entry)
      /\ m.leaderCommit \in Nat /\ m.from # n
  BY MessageFields DEF OnAppendEntries, TypeInv, TypeOK, PlainState, PlainMsg
<1>2. CASE RejectAppendEntries(m)
  <2>1. /\ UNCHANGED <<log, commitIndex, snapshot, elected, committed>>
        /\ msgs' = (msgs \ {m}) \cup
                     {AppendEntriesResponse(n, m.from, currentTerm'[n], FALSE, 0)}
        /\ \/ UNCHANGED <<role, currentTerm, votesGranted, nextIndex, matchIndex>>
           \/ ObserveLeader(n, m.term)
    BY <1>2 DEF RejectAppendEntries, Reply, electionVars, leaderVars
  <2>2. \A x \in msgs' : x \in msgs \/ Harmless(x)
    BY <1>1, <2>1, RefusalsAreHarmless
  <2>3. CASE ObserveLeader(n, m.term)
    BY <1>1, <2>1, <2>2, <2>3, StepDownEases
  <2>4. CASE UNCHANGED <<role, currentTerm, votesGranted, nextIndex, matchIndex>>
    BY <1>1, <2>1, <2>2, <2>4, AllSame
  <2> QED
    BY <2>1, <2>3, <2>4
<1>3. CASE AcceptAppendEntries(m)
  <2> DEFINE commit == IF m.leaderCommit > commitIndex[n]
                       THEN Min({m.leaderCommit, snapshot[n].index + Len(lg)})
                       ELSE commitIndex[n]
  <2>1. /\ PrevLogSatisfied(n, m) /\ ObserveLeader(n, m.term)
        /\ log' = [log EXCEPT ![n] = lg]
        /\ commitIndex' = [commitIndex EXCEPT ![n] = commit]
        /\ committed' = committed \cup NewlyCommitted(n, lg, commit)
        /\ UNCHANGED <<snapshot, elected>>
        /\ msgs' = (msgs \ {m}) \cup {AppendEntriesResponse(n, m.from, m.term, TRUE,
                                       m.prevLogIndex + Len(m.entries))}
    BY <1>3 DEF AcceptAppendEntries, Reply
  <2>2. Merge(log[n], m, lg) /\ lg \in Seq(Entry)
    <3>1. snapshot[n] \in Snapshot /\ log[n] \in Seq(Entry)
      BY <1>1 DEF TypeInv, TypeOK
    <3> QED
      BY <1>1, <2>1, <3>1, PlainMerge, MergedLogType
  <2>3. commit = commitIndex[n] \/ (commit <= m.leaderCommit /\ commit <= Len(lg))
    <3>1. snapshot[n].index = 0 /\ Len(lg) \in Nat
      BY <1>1, <2>2 DEF PlainState
    <3>2. snapshot[n].index + Len(lg) = Len(lg)
      BY <3>1
    <3> HIDE DEF lg, n
    <3> DEFINE a == m.leaderCommit
               z == Len(lg)
    <3>a. a \in Int /\ z \in Int
      BY <1>1, <3>1
    <3> HIDE DEF a, z
    <3>b. Min({a, z}) <= a /\ Min({a, z}) <= z
      BY <3>a, PairExtrema
    <3>3. Min({m.leaderCommit, Len(lg)}) <= m.leaderCommit /\ Min({m.leaderCommit, Len(lg)}) <= Len(lg)
      BY <3>b DEF a, z
    <3> QED
      BY <3>2, <3>3
  <2> HIDE DEF n, lg, commit
  <2>4. /\ log'[n] = lg /\ commitIndex'[n] = commit
        /\ \A c \in Node \ {n} : log'[c] = log[c] /\ commitIndex'[c] = commitIndex[c]
    BY <1>1, <2>1 DEF TypeInv, TypeOK
  <2>5. currentTerm[n] \in Nat /\ role[n] \in {Follower, Candidate, Leader}
    BY <1>1, NodeTypes
  <2>6. /\ m.term >= currentTerm[n] /\ currentTerm'[n] = m.term
        /\ role'[n] \in {role[n], Follower} /\ role'[n] # Candidate
        /\ m.term # currentTerm[n] => role'[n] = Follower
        /\ votesGranted'[n] \in {votesGranted[n], {}}
        /\ role'[n] = Leader => nextIndex'[n] = nextIndex[n] /\ matchIndex'[n] = matchIndex[n]
        /\ \A c \in Node \ {n} : /\ role'[c] = role[c] /\ currentTerm'[c] = currentTerm[c]
                                 /\ votesGranted'[c] = votesGranted[c]
                                 /\ nextIndex'[c] = nextIndex[c] /\ matchIndex'[c] = matchIndex[c]
    <3>1. CASE m.term > currentTerm[n] /\ StepDown(n, m.term)
      BY <1>1, <2>5, <3>1 DEF StepDown, TypeInv, TypeOK, Follower, Candidate, Leader
    <3>2. CASE ~ (m.term > currentTerm[n] /\ StepDown(n, m.term))
      <4>1. /\ m.term = currentTerm[n]
            /\ role' = [role EXCEPT ![n] = IF @ = Candidate THEN Follower ELSE @]
            /\ UNCHANGED <<currentTerm, votesGranted, nextIndex, matchIndex>>
        BY <2>1, <3>2 DEF ObserveLeader, leaderVars
      <4>2. /\ role'[n] = (IF role[n] = Candidate THEN Follower ELSE role[n])
            /\ \A c \in Node \ {n} : role'[c] = role[c]
        BY <1>1, <4>1 DEF TypeInv, TypeOK
      <4> QED
        BY <2>5, <4>1, <4>2 DEF Follower, Candidate, Leader
    <3> QED
      BY <3>1, <3>2
  <2>7. Records(n)
    <3>1. \A i \in (commitIndex[n] + 1) .. commit : i - snapshot[n].index = i
      BY <1>1 DEF PlainState
    <3> QED
      BY <2>1, <2>4, <3>1 DEF Records, NewlyCommitted
  <2>8. \A x \in msgs' : \/ x \in msgs
                         \/ /\ IsAck(x) /\ x.from = n /\ x.to = m.from /\ x.term = m.term
                            /\ x.matchIndex = End(m)
    BY <2>1 DEF IsAck, AppendEntriesResponse, End
  <2>9. Accept(n, m)
    BY <1>1, <2>1, <2>2, <2>3, <2>4, <2>6, <2>7, <2>8 DEF Accept, IsAppend, n
  <2>10. \A c \in Node \ {n} : Same(c)
    BY <2>4, <2>6 DEF Same
  <2> QED
    BY <2>1, <2>9, <2>10 DEF PlainBy, Acts, PlainState, n
<1> QED
  BY <1>2, <1>3 DEF OnAppendEntries

\* A request built in the new state carries the leader's log from some entry on.
LEMMA SentShape ==
    ASSUME TypeInv', NEW n \in Node, snapshot'[n].index = 0, NEW x, Sent(n, x)
    PROVE  /\ IsAppend(x) /\ x.from = n /\ x.to \in Node \ {n}
           /\ x.term = currentTerm'[n] /\ x.leaderCommit = commitIndex'[n]
           /\ x.prevLogIndex \in Nat /\ x.prevLogIndex + 1 = nextIndex'[n][x.to]
           /\ x.prevLogTerm = IF x.prevLogIndex \in DOMAIN log'[n]
                              THEN log'[n][x.prevLogIndex].term ELSE 0
           /\ x.entries = SubSeq(log'[n], x.prevLogIndex + 1, Len(log'[n]))
<1>1. PICK p \in Node \ {n} : nextIndex'[n][p] >= 1 /\ x = ReplicateTo(n, p)'
  BY DEF Sent
<1> DEFINE next == nextIndex'[n][p]
           lg == log'[n]
           snap == snapshot'[n]
<1>2. /\ next \in Nat /\ next >= 1 /\ snap.index = 0 /\ lg \in Seq(Entry)
      /\ DOMAIN lg = 1 .. Len(lg) /\ Len(lg) \in Nat
  BY <1>1, NodeTypesNext
<1>3. x = Replication(n, p, currentTerm'[n], lg, snap, next, commitIndex'[n])
  BY <1>1 DEF ReplicateTo
<1>4. next - 1 \in Nat /\ (next - 1) + 1 = next /\ next - snap.index = next
      /\ ~ (next <= snap.index)
  BY <1>2
<1>5. x = [type |-> "AppendEntries", from |-> n, to |-> p, term |-> currentTerm'[n],
           prevLogIndex |-> next - 1, prevLogTerm |-> PrevLogTerm(lg, snap, next - 1),
           entries |-> SubSeq(lg, next, Len(lg)), leaderCommit |-> commitIndex'[n]]
  BY <1>3, <1>4 DEF Replication
<1>6. PrevLogTerm(lg, snap, next - 1) = IF next - 1 \in DOMAIN lg THEN lg[next - 1].term ELSE 0
  <2> DEFINE i == next - 1
  <2>1. i \in Nat /\ i - snap.index = i
    BY <1>2, <1>4
  <2>2. \A k \in DOMAIN lg : lg[k].term # NoTerm
    <3>1. \A k \in DOMAIN lg : lg[k].term \in Nat
      BY <1>2, EntryFields
    <3> QED
      BY <3>1 DEF NoTerm
  <2> HIDE DEF i, next, lg, snap
  <2>3. PrevLogTerm(lg, snap, i) = IF i \in DOMAIN lg THEN lg[i].term ELSE 0
    BY <1>2, <2>1, <2>2 DEF PrevLogTerm, TermIn
  <2> QED
    BY <2>3 DEF i
<1> HIDE DEF next, lg, snap
<1>7. x.to = p /\ x.prevLogIndex = next - 1
  BY <1>5
<1> QED
  BY <1>4, <1>5, <1>6, <1>7 DEF IsAppend, next, lg

\* What PlainStep leaves of PlainState.
LEMMA PlainStays ==
    ASSUME TypeInv, TypeInv', PlainState, NEW n \in Node, PlainBy(n)
    PROVE  PlainState'
<1>1. Acts(n) /\ \A c \in Node : snapshot'[c].index = 0 /\ snapshot'[c].term = 0
  BY DEF PlainBy
<1>2. \A m \in msgs : PlainMsg(m)
  BY DEF PlainState
<1>3. \A x : Sent(n, x) => PlainMsg(x)
  BY <1>1, SentShape DEF PlainMsg, IsAppend
<1>4. ASSUME NEW x \in msgs' PROVE PlainMsg(x)
  <2>1. CASE Calm(n)
    BY <1>2, <1>3, <2>1 DEF Calm, Harmless
  <2>2. CASE \E m \in msgs : Grant(n, m)
    BY <1>2, <2>2 DEF Grant, Granted, PlainMsg
  <2>3. CASE Campaign(n)
    BY <1>2, <1>3, <2>3 DEF Campaign, PlainMsg
  <2>4. CASE \E m \in msgs : Tally(n, m)
    BY <1>2, <1>3, <2>4 DEF Tally
  <2>5. CASE Extend(n)
    BY <1>2, <2>5 DEF Extend
  <2>6. CASE \E m \in msgs : Ack(n, m)
    BY <1>2, <1>3, <2>6 DEF Ack
  <2>7. CASE \E m \in msgs : Accept(n, m)
    BY <1>2, <2>7 DEF Accept, IsAck, IsAppend, PlainMsg
  <2> QED
    BY <1>1, <2>1, <2>2, <2>3, <2>4, <2>5, <2>6, <2>7 DEF Acts
<1>5. PlainState' <=> /\ \A c \in Node : snapshot'[c].index = 0 /\ snapshot'[c].term = 0
                      /\ \A m \in msgs' : PlainMsg(m)
  BY DEF PlainState, PlainMsg
<1> QED
  BY <1>1, <1>4, <1>5

\* A step of a cluster whose voters are never changed and whose owners do not
\* compact is a step of one node of one of the kinds above.
LEMMA PlainSteps ==
    ASSUME Plain, TypeInv, TypeInv', VoteInv, LockInv, StaticInv, PlainState, Next
    PROVE  \E n \in Node : PlainBy(n)
<1>0. \A m \in msgs : m.to \in Node /\ m.from \in Node /\ m.term \in Nat /\ PlainMsg(m)
  BY MessageFields DEF TypeInv, TypeOK, PlainState
<1>1. ASSUME NEW n \in Node, StartElection(n) PROVE PlainBy(n)
  BY <1>1, PlainStartElection
<1>2. ASSUME NEW n \in Node, Heartbeat(n) PROVE PlainBy(n)
  BY <1>2, PlainHeartbeat
<1>3. ASSUME NEW n \in Node, Restart(n) PROVE PlainBy(n)
  BY <1>3, PlainRestart
<1>4. ASSUME NEW n \in Node, NEW c \in Command, Propose(n, c) PROVE PlainBy(n)
  BY <1>4, PlainPropose
<1>5. ASSUME NEW n \in Node, NEW id \in Node, AddLearner(n, id) \/ RemoveLearner(n, id)
      PROVE  PlainBy(n)
  BY <1>5, PlainLearner
<1>6. ASSUME NEW m \in msgs, Lose(m) PROVE PlainBy(m.to)
  BY <1>0, <1>6, AllSame DEF Lose, electionVars, leaderVars
<1>7. ASSUME NEW m \in msgs, OnRequestVote(m) PROVE PlainBy(m.to)
  BY <1>7, PlainOnRequestVote
<1>8. ASSUME NEW m \in msgs, AdoptTerm(m) PROVE PlainBy(m.to)
  <2>1. /\ StepDown(m.to, m.term) /\ m.term > currentTerm[m.to] /\ msgs' \subseteq msgs
        /\ UNCHANGED <<log, commitIndex, snapshot, elected, committed>>
    BY <1>8 DEF AdoptTerm, Reply
  <2> QED
    BY <1>0, <2>1, StepDownEases
<1>9. ASSUME NEW m \in msgs, OnRequestVoteResponse(m) PROVE PlainBy(m.to)
  BY <1>8, <1>9, PlainCountVote DEF OnRequestVoteResponse
<1>10. ASSUME NEW m \in msgs, OnAppendEntries(m) PROVE PlainBy(m.to)
  BY <1>10, PlainOnAppendEntries
<1>11. ASSUME NEW m \in msgs, OnAppendEntriesResponse(m) PROVE PlainBy(m.to)
  <2>1. CASE AdoptTerm(m)
    BY <1>8, <2>1
  <2>2. CASE ~ AdoptTerm(m)
    <3>1. /\ m.type = "AppendEntriesResponse" /\ role[m.to] = Leader
          /\ m.term = currentTerm[m.to] /\ m.from # m.to
          /\ (m.success /\ RecordMatch(m, m.matchIndex)) \/ BackOff(m)
      BY <1>0, <1>11, <2>2 DEF OnAppendEntriesResponse, PlainMsg
    <3>2. CASE BackOff(m)
      BY <3>1, <3>2, PlainBackOff
    <3>3. CASE m.success /\ RecordMatch(m, m.matchIndex)
      BY <3>1, <3>3, PlainRecordMatch DEF IsAck
    <3> QED
      BY <3>1, <3>2, <3>3
  <2> QED
    BY <2>1, <2>2
<1>12. ASSUME NEW m \in msgs
       PROVE  ~ OnInstallSnapshot(m) /\ ~ OnInstallSnapshotResponse(m)
  BY <1>0 DEF OnInstallSnapshot, OnInstallSnapshotResponse, PlainMsg
<1>13. VoterSets = {} /\ CompactPoints = {} /\ Crashable \subseteq Node
  BY InputAssumption DEF Plain, Static
<1> QED
  BY <1>0, <1>1, <1>2, <1>3, <1>4, <1>5, <1>6, <1>7, <1>9, <1>10, <1>11, <1>12, <1>13
     DEF Next, Step

-----------------------------------------------------------------------------
(* The invariant of the logs *)

Won(l, t) == \E e \in elected : e.leader = l /\ e.term = t

\* Terms do not decrease along a log.
LinkShape(L) == \A x \in L : x.entry.term >= 1 /\ x.prev <= x.entry.term

\* An index and a term determine the entry and the term of the one before it.
LinkUnique(L) ==
    \A x, y \in L : x.index = y.index /\ x.entry.term = y.entry.term => x = y

\* The entries of a term start where the first of them was appended.
FirstLow(L) ==
    \A x, y \in L :
        x.entry.term = y.entry.term /\ x.prev < x.entry.term => x.index <= y.index

LinkElected == \A x \in Links : \E l \in Node : Won(l, x.entry.term)

\* A sitting leader has every entry of its term.
LeaderHolds ==
    \A l \in Node : \A x \in Links :
        role[l] = Leader /\ x.entry.term = currentTerm[l] => Has(l, x.index, currentTerm[l])

TermBound == \A n \in Node : \A k \in DOMAIN log[n] : log[n][k].term <= currentTerm[n]

Offices ==
    \A n \in Node : /\ role[n] # Follower => currentTerm[n] >= 1
                    /\ role[n] = Leader => Won(n, currentTerm[n])

\* Nobody campaigns in a term it has won.
ElectedPast ==
    \A e \in elected : /\ e.term <= currentTerm[e.leader]
                       /\ e.term = currentTerm[e.leader] => role[e.leader] # Candidate

\* The request m was built from a log that starts like lg.
Window(m, lg) ==
    /\ End(m) <= Len(lg)
    /\ m.prevLogIndex > 0 => lg[m.prevLogIndex].term = m.prevLogTerm
    /\ \A k \in DOMAIN m.entries : lg[m.prevLogIndex + k] = m.entries[k]

\* A request comes from the leader of its term; if it has no entry of that term,
\* the term's entries start right after it.
RequestShape ==
    \A m \in msgs : IsAppend(m) =>
        /\ Won(m.from, m.term)
        /\ m.prevLogIndex = 0 => m.prevLogTerm = 0
        /\ EndTerm(m) <= m.term /\ \A k \in DOMAIN m.entries : m.entries[k].term <= m.term
        /\ \A x \in Links :
              x.entry.term = m.term /\ x.prev < m.term /\ EndTerm(m) < m.term =>
                  x.index = End(m) + 1 /\ x.prev = EndTerm(m)

\* A sitting leader's requests are parts of its log.
RequestWindow ==
    \A m \in msgs :
        IsAppend(m) /\ role[m.from] = Leader /\ m.term = currentTerm[m.from] =>
            /\ Window(m, log[m.from])
            /\ LastTerm(log[m.from]) < m.term => End(m) = Len(log[m.from])

NextBound ==
    \A l, p \in Node : role[l] = Leader => nextIndex[l][p] <= Len(log[l]) + 1

AckShape ==
    \A m \in msgs : IsAck(m) => Won(m.to, m.term) /\ m.term <= currentTerm[m.from]

\* Node p has told leader l that it holds the entries up to index i.
Acks(p, l, i) ==
    \/ matchIndex[l][p] = i
    \/ \E m \in msgs : /\ IsAck(m) /\ m.from = p /\ m.to = l /\ m.term = currentTerm[l]
                        /\ m.matchIndex = i

\* While its term lasts, p still does.
AckSound ==
    \A l, p \in Node : \A i \in Nat \ {0} :
        role[l] = Leader /\ Acks(p, l, i) =>
            /\ i <= Len(log[l]) /\ currentTerm[p] >= currentTerm[l]
            /\ currentTerm[p] = currentTerm[l] => Has(p, i, log[l][i].term)

\* Votes are asked for by candidates of that term or a past one, with the ends of
\* their logs, and only then granted.
VotePast ==
    \A m \in msgs :
        /\ Granted(m) => m.term <= currentTerm[m.to]
        /\ m.type = "RequestVote" =>
              /\ m.term <= currentTerm[m.from]
              /\ role[m.from] = Candidate /\ currentTerm[m.from] = m.term =>
                    m.lastLogIndex = Len(log[m.from]) /\ m.lastLogTerm = LastTerm(log[m.from])

LinkInv == LinkShape(Links) /\ LinkUnique(Links) /\ FirstLow(Links)

LogInv ==
    /\ LinkInv /\ LinkElected /\ LeaderHolds
    /\ TermBound /\ Offices /\ ElectedPast
    /\ RequestShape /\ RequestWindow /\ NextBound
    /\ AckShape /\ AckSound /\ VotePast

\* A step of node n, from a state in which all of this holds.
Moves(n) ==
    /\ TypeInv /\ PlainState /\ ElectionSafety /\ LogInv
    /\ TypeInv' /\ PlainState' /\ ElectionSafety'
    /\ PlainBy(n)

-----------------------------------------------------------------------------
(* Links *)

\* The parts of a link.
LEMMA LinkTypes ==
    ASSUME NEW lgs \in [Node -> Seq(Entry)], NEW ms \in SUBSET Message,
           NEW x \in LinksOf(lgs, ms)
    PROVE  /\ x.index \in Nat /\ x.index >= 1 /\ x.entry \in Entry /\ x.entry.term \in Nat
           /\ x.prev \in Nat
<1>1. ASSUME NEW b \in Nat, NEW u \in Nat, NEW es \in Seq(Entry), NEW k \in DOMAIN es,
             x = Link(b, u, es, k)
      PROVE  /\ x.index \in Nat /\ x.index >= 1 /\ x.entry \in Entry /\ x.entry.term \in Nat
             /\ x.prev \in Nat
  <2>1. x.index = b + k /\ x.entry = es[k] /\ x.prev = IF k = 1 THEN u ELSE es[k - 1].term
    BY <1>1 DEF Link
  <2>2. k \in Nat /\ k >= 1 /\ (k # 1 => k - 1 \in DOMAIN es)
    OBVIOUS
  <2>3. es[k] \in Entry /\ es[k].term \in Nat /\ (k # 1 => es[k - 1].term \in Nat)
    BY <2>2, EntryFields
  <2> QED
    BY <2>1, <2>2, <2>3
<1>2. CASE \E n \in Node : x \in LogLinks(lgs[n])
  <2>1. PICK n \in Node : x \in LogLinks(lgs[n])
    BY <1>2
  <2>3. PICK k \in DOMAIN lgs[n] : x = Link(0, 0, lgs[n], k)
    BY <2>1 DEF LogLinks
  <2>2. lgs[n] \in Seq(Entry)
    OBVIOUS
  <2> QED
    BY <1>1, <2>2, <2>3
<1>3. CASE \E m \in ms : IsAppend(m) /\ x \in MsgLinks(m)
  <2>1. PICK m \in ms : IsAppend(m) /\ x \in MsgLinks(m)
    BY <1>3
  <2>2. PICK k \in DOMAIN m.entries : x = Link(m.prevLogIndex, m.prevLogTerm, m.entries, k)
    BY <2>1 DEF MsgLinks
  <2>3. m.prevLogIndex \in Nat /\ m.prevLogTerm \in Nat /\ m.entries \in Seq(Entry)
    BY <2>1, MessageFields DEF IsAppend
  <2> QED
    BY <1>1, <2>2, <2>3
<1> QED
  BY <1>2, <1>3 DEF LinksOf

\* Terms do not decrease along a log whose links are of that shape.
LEMMA ChainMono ==
    ASSUME NEW L, LinkShape(L), NEW lg \in Seq(Entry), LogLinks(lg) \subseteq L,
           NEW i \in DOMAIN lg, NEW j \in DOMAIN lg, i <= j
    PROVE  lg[i].term <= lg[j].term
<1> DEFINE S == {k \in DOMAIN lg : k >= i /\ lg[k].term < lg[i].term}
<1>1. SUFFICES ASSUME S # {} PROVE FALSE
  <2>1. lg[i].term \in Nat /\ lg[j].term \in Nat
    BY EntryFields
  <2> QED
    BY <2>1
<1>2. DOMAIN lg = 1 .. Len(lg) /\ Len(lg) \in Nat
  OBVIOUS
<1>3. PICK k \in S : \A y \in S : k <= y
  <2>1. S \in SUBSET Nat
    BY <1>2
  <2> HIDE DEF S
  <2> QED
    BY <1>1, <2>1, MinProperties
<1>4. /\ k \in DOMAIN lg /\ k >= i /\ lg[k].term < lg[i].term /\ lg[i].term \in Nat
      /\ lg[k].term \in Nat
  BY EntryFields
<1> HIDE DEF S
<1>5. k # i /\ k - 1 \in DOMAIN lg /\ k - 1 >= i /\ k # 1 /\ k \in Nat
  BY <1>2, <1>4
<1>6. k - 1 \notin S
  BY <1>3, <1>5
<1>7. lg[k - 1].term \in Nat
  BY <1>5, EntryFields
<1>8. lg[k - 1].term >= lg[i].term
  BY <1>4, <1>5, <1>6, <1>7 DEF S
<1>9. Link(0, 0, lg, k) \in L
  BY <1>4 DEF LogLinks
<1>10. Link(0, 0, lg, k).prev <= Link(0, 0, lg, k).entry.term
  BY <1>9 DEF LinkShape
<1>11. lg[k - 1].term <= lg[k].term
  BY <1>5, <1>10 DEF Link
<1> QED
  BY <1>4, <1>7, <1>8, <1>11

\* Two logs that have the same term at an index are the same up to it.
LEMMA ChainAgree ==
    ASSUME NEW L, LinkUnique(L), NEW f \in Seq(Entry), NEW g \in Seq(Entry),
           LogLinks(f) \subseteq L, LogLinks(g) \subseteq L,
           NEW k \in Nat, k \in DOMAIN f, k \in DOMAIN g, f[k].term = g[k].term
    PROVE  \A j \in 1 .. k : f[j] = g[j]
<1> DEFINE S == {j \in 1 .. k : f[j] # g[j]}
<1>1. SUFFICES ASSUME S # {} PROVE FALSE
  OBVIOUS
<1>2. /\ DOMAIN f = 1 .. Len(f) /\ Len(f) \in Nat
      /\ DOMAIN g = 1 .. Len(g) /\ Len(g) \in Nat
  OBVIOUS
<1>3. ASSUME NEW i \in 1 .. k, f[i].term = g[i].term
      PROVE  f[i] = g[i] /\ (i # 1 => f[i - 1].term = g[i - 1].term)
  <2>1. i \in DOMAIN f /\ i \in DOMAIN g /\ i \in Nat
    BY <1>2
  <2>2. Link(0, 0, f, i) \in L /\ Link(0, 0, g, i) \in L
    BY <2>1 DEF LogLinks
  <2>3. /\ Link(0, 0, f, i).index = Link(0, 0, g, i).index
        /\ Link(0, 0, f, i).entry.term = Link(0, 0, g, i).entry.term
    BY <1>3 DEF Link
  <2>4. Link(0, 0, f, i) = Link(0, 0, g, i)
    BY <2>2, <2>3 DEF LinkUnique
  <2>5. /\ Link(0, 0, f, i).entry = f[i] /\ Link(0, 0, g, i).entry = g[i]
        /\ i # 1 => Link(0, 0, f, i).prev = f[i - 1].term /\ Link(0, 0, g, i).prev = g[i - 1].term
    BY DEF Link
  <2> QED
    BY <2>4, <2>5
<1>4. PICK j \in S : \A y \in S : y <= j
  <2>1. S \in SUBSET Nat /\ \A y \in S : y <= k
    OBVIOUS
  <2> HIDE DEF S
  <2> QED
    BY <1>1, <2>1, MaxProperties
<1>5. j \in 1 .. k /\ f[j] # g[j]
  OBVIOUS
<1> HIDE DEF S
<1>6. CASE j = k
  BY <1>3, <1>5, <1>6
<1>7. CASE j # k
  <2>1. j + 1 \in 1 .. k /\ (j + 1) - 1 = j /\ j + 1 # 1 /\ j + 1 \notin S
    BY <1>4, <1>5, <1>7
  <2>2. f[j + 1] = g[j + 1]
    BY <2>1 DEF S
  <2>3. f[j].term = g[j].term
    BY <1>3, <2>1, <2>2
  <2> QED
    BY <1>3, <1>5, <2>3
<1> QED
  BY <1>6, <1>7

-----------------------------------------------------------------------------
(* What a step leaves, and what it brings *)

\* A node that wins a term wins it alone.
LEMMA WinnerIsOne ==
    ASSUME ElectionSafety, NEW l, NEW k, NEW t, Won(l, t), Won(k, t)
    PROVE  l = k
  BY DEF ElectionSafety, Won

\* No leader merges a request: it would be its own.
LEMMA AcceptorFollows ==
    ASSUME NEW n \in Node, Moves(n), NEW m \in msgs, Accept(n, m)
    PROVE  role'[n] = Follower
<1>1. SUFFICES ASSUME role'[n] = Leader PROVE FALSE
  BY NodeTypesNext DEF Moves, Accept
<1>2. role[n] = Leader /\ m.term = currentTerm[n] /\ m.to = n /\ IsAppend(m)
  BY <1>1 DEF Accept, Follower, Leader
<1>3. Won(n, m.term) /\ Won(m.from, m.term)
  BY <1>2 DEF Moves, LogInv, Offices, RequestShape
<1>4. m.from = n
  BY <1>3, WinnerIsOne DEF Moves
<1> QED
  BY <1>2, <1>4 DEF Moves, PlainState, PlainMsg, IsAppend

\* Terms grow and elections are remembered.
LEMMA TermsGrow ==
    ASSUME NEW n \in Node, Moves(n)
    PROVE  /\ \A c \in Node : currentTerm'[c] >= currentTerm[c]
           /\ elected \subseteq elected'
           /\ \A e \in elected' :
                 \/ e \in elected
                 \/ e.leader = n /\ e.term = currentTerm'[n] /\ role'[n] = Leader
<1>1. \A c \in Node : currentTerm[c] \in Nat /\ currentTerm'[c] \in Nat
  BY NodeTypes, NodeTypesNext DEF Moves
<1>2. Acts(n) /\ \A c \in Node \ {n} : currentTerm'[c] = currentTerm[c]
  BY DEF Moves, PlainBy, Same
<1>3. ASSUME Elects(n)
      PROVE  /\ elected \subseteq elected'
             /\ \A e \in elected' :
                   \/ e \in elected
                   \/ e.leader = n /\ e.term = currentTerm'[n] /\ role'[n] = Leader
  BY <1>3 DEF Elects
<1>4. CASE Calm(n) \/ \E m \in msgs : Grant(n, m)
  BY <1>1, <1>2, <1>4 DEF Calm, Grant, Eases
<1>5. CASE Campaign(n)
  BY <1>1, <1>2, <1>3, <1>5 DEF Campaign
<1>6. CASE \E m \in msgs : Tally(n, m)
  BY <1>1, <1>2, <1>3, <1>6 DEF Tally
<1>7. CASE Extend(n) \/ \E m \in msgs : Ack(n, m)
  BY <1>1, <1>2, <1>7 DEF Extend, Ack, Leads
<1>8. CASE \E m \in msgs : Accept(n, m)
  BY <1>1, <1>2, <1>8 DEF Accept
<1> QED
  BY <1>2, <1>4, <1>5, <1>6, <1>7, <1>8 DEF Acts

\* Who leads after the step led before it, in the same term, or has just won a
\* term that nobody had won.
LEMMA WhoLeads ==
    ASSUME NEW n \in Node, Moves(n), NEW l \in Node, role'[l] = Leader
    PROVE  \/ role[l] = Leader /\ currentTerm'[l] = currentTerm[l]
           \/ /\ l = n /\ log'[n] = log[n] /\ role[n] # Leader /\ commitIndex'[n] = commitIndex[n]
              /\ \A p \in Node : matchIndex'[n][p] = 0 /\ nextIndex'[n][p] <= Len(log[n]) + 1
              /\ \A k \in Node : ~ Won(k, currentTerm'[n])
              /\ Majority(votesGranted'[n])
              /\ \E e \in elected' : e.leader = n /\ e.term = currentTerm'[n]
              /\ Campaign(n) \/ \E m \in msgs : Tally(n, m)
<1>1. CASE l # n
  BY <1>1 DEF Moves, PlainBy, Same
<1>2. CASE l = n
  <2>1. Acts(n)
    BY DEF Moves, PlainBy
  <2>2. ASSUME Elects(n), log'[n] = log[n], role[n] # Leader, ~ Won(n, currentTerm'[n]),
               elected \subseteq elected', commitIndex'[n] = commitIndex[n]
        PROVE  /\ log'[n] = log[n] /\ role[n] # Leader /\ commitIndex'[n] = commitIndex[n]
               /\ \A p \in Node : matchIndex'[n][p] = 0 /\ nextIndex'[n][p] <= Len(log[n]) + 1
               /\ \A k \in Node : ~ Won(k, currentTerm'[n])
               /\ Majority(votesGranted'[n])
               /\ \E e \in elected' : e.leader = n /\ e.term = currentTerm'[n]
    <3>1. /\ Majority(votesGranted'[n])
          /\ \A p \in Node : matchIndex'[n][p] = 0 /\ nextIndex'[n][p] <= Len(log[n]) + 1
          /\ \E e \in elected' : e.leader = n /\ e.term = currentTerm'[n]
      <4> DEFINE w == [term |-> currentTerm'[n], leader |-> n,
                       votes |-> votesGranted'[n], config |-> Genesis]
      <4>1. w.leader = n /\ w.term = currentTerm'[n]
        OBVIOUS
      <4>2. /\ Majority(votesGranted'[n]) /\ elected' = elected \cup {w}
            /\ \A p \in Node : matchIndex'[n][p] = 0 /\ nextIndex'[n][p] <= Len(log[n]) + 1
        BY <1>2, <2>2 DEF Elects, Leader, Candidate
      <4> HIDE DEF w
      <4> QED
        BY <4>1, <4>2
    <3>2. \A k \in Node : ~ Won(k, currentTerm'[n])
      <4>1. ElectionSafety'
        BY DEF Moves
      <4>2. \A f \in elected : f.term = currentTerm'[n] => f.leader = n
        BY <2>2, <3>1, <4>1 DEF ElectionSafety
      <4> QED
        BY <2>2, <4>2 DEF Won
    <3> QED
      BY <2>2, <3>1, <3>2
  <2>3. CASE Calm(n) \/ \E m \in msgs : Grant(n, m)
    BY <1>2, <2>3 DEF Calm, Grant, Eases, Follower, Leader
  <2>4. CASE Campaign(n)
    <3>1. ~ Won(n, currentTerm'[n])
      <4>1. currentTerm[n] \in Nat /\ currentTerm'[n] = currentTerm[n] + 1
        BY <2>4, NodeTypes DEF Moves, Campaign
      <4> QED
        BY <4>1 DEF Won, Moves, LogInv, ElectedPast
    <3> QED
      <4>1. /\ Elects(n) /\ log'[n] = log[n] /\ role[n] # Leader /\ commitIndex'[n] = commitIndex[n]
            /\ elected \subseteq elected'
        BY <2>4, TermsGrow DEF Campaign
      <4> QED
        BY <1>2, <2>2, <2>4, <3>1, <4>1
  <2>5. CASE \E m \in msgs : Tally(n, m)
    <3>1. ~ Won(n, currentTerm'[n])
      BY <2>5 DEF Won, Moves, LogInv, ElectedPast, Tally
    <3> QED
      <4>1. /\ Elects(n) /\ log'[n] = log[n] /\ role[n] # Leader /\ commitIndex'[n] = commitIndex[n]
            /\ elected \subseteq elected'
        BY <2>5, TermsGrow DEF Tally, Candidate, Leader
      <4> QED
        BY <1>2, <2>2, <2>5, <3>1, <4>1
  <2>6. CASE Extend(n) \/ \E m \in msgs : Ack(n, m)
    BY <1>2, <2>6 DEF Extend, Ack, Leads
  <2>7. CASE \E m \in msgs : Accept(n, m)
    BY <1>2, <2>7, AcceptorFollows DEF Follower, Leader
  <2> QED
    BY <2>1, <2>3, <2>4, <2>5, <2>6, <2>7 DEF Acts
<1> QED
  BY <1>1, <1>2

\* Who campaigns after the step campaigned before it, or has just begun to.
LEMMA WhoCampaigns ==
    ASSUME NEW n \in Node, Moves(n), NEW c \in Node, role'[c] = Candidate
    PROVE  /\ log'[c] = log[c]
           /\ \/ role[c] = Candidate /\ currentTerm'[c] = currentTerm[c]
              \/ /\ c = n /\ role[n] # Leader /\ currentTerm'[n] = currentTerm[n] + 1
                 /\ votesGranted'[n] = {n}
<1>1. CASE c # n
  BY <1>1 DEF Moves, PlainBy, Same
<1>2. CASE c = n
  <2>1. Acts(n)
    BY DEF Moves, PlainBy
  <2>2. CASE Calm(n) \/ \E m \in msgs : Grant(n, m)
    BY <1>2, <2>2 DEF Calm, Grant, Eases, Follower, Candidate
  <2>3. CASE Campaign(n)
    BY <1>2, <2>3 DEF Campaign
  <2>4. CASE \E m \in msgs : Tally(n, m)
    BY <1>2, <2>4 DEF Tally
  <2>5. CASE Extend(n) \/ \E m \in msgs : Ack(n, m)
    BY <1>2, <2>5 DEF Extend, Ack, Leads, Candidate, Leader
  <2>6. CASE \E m \in msgs : Accept(n, m)
    BY <1>2, <2>6 DEF Accept
  <2> QED
    BY <2>1, <2>2, <2>3, <2>4, <2>5, <2>6 DEF Acts
<1> QED
  BY <1>1, <1>2

\* A log changes only by an append of its owner as a leader, or by a merge.
LEMMA LogMoves ==
    ASSUME NEW n \in Node, Moves(n)
    PROVE  /\ \A c \in Node \ {n} : log'[c] = log[c]
           /\ log'[n] = log[n] \/ Extend(n) \/ \E m \in msgs : Accept(n, m)
<1>1. Acts(n) /\ \A c \in Node \ {n} : log'[c] = log[c]
  BY DEF Moves, PlainBy, Same
<1> QED
  BY <1>1 DEF Acts, Calm, Grant, Eases, Campaign, Tally, Ack

\* The messages a step brings.
LEMMA NewMessages ==
    ASSUME NEW n \in Node, Moves(n), NEW x \in msgs', x \notin msgs
    PROVE  \/ Harmless(x)
           \/ Sent(n, x) /\ ~ Extend(n) /\ ~ (\E m \in msgs : Accept(n, m) \/ Grant(n, m))
           \/ \E m \in msgs : Grant(n, m) /\ Granted(x) /\ x.from = n /\ x.to = m.from /\ x.term = m.term
           \/ /\ Campaign(n) /\ x.type = "RequestVote" /\ x.from = n /\ x.term = currentTerm'[n]
              /\ x.lastLogIndex = Len(log[n]) /\ x.lastLogTerm = LastTerm(log[n])
           \/ \E m \in msgs : /\ Accept(n, m) /\ IsAck(x) /\ x.from = n /\ x.to = m.from
                               /\ x.term = m.term /\ x.matchIndex = End(m)
<1>1. Acts(n)
  BY DEF Moves, PlainBy
<1>2. CASE Extend(n)
  BY <1>2 DEF Extend
<1>3. CASE \E m \in msgs : Accept(n, m)
  BY <1>3 DEF Accept
<1>4. CASE \E m \in msgs : Grant(n, m)
  BY <1>4 DEF Grant
<1>5. CASE ~ Extend(n) /\ ~ (\E m \in msgs : Accept(n, m) \/ Grant(n, m))
  BY <1>1, <1>5 DEF Acts, Calm, Campaign, Tally, Ack
<1> QED
  BY <1>2, <1>3, <1>4, <1>5

\* A leader replicates only entries it has.
LEMMA NextBoundStays ==
    ASSUME NEW n \in Node, Moves(n)
    PROVE  NextBound'
<1> SUFFICES ASSUME NEW l \in Node, NEW p \in Node, role'[l] = Leader
             PROVE  nextIndex'[l][p] <= Len(log'[l]) + 1
  BY DEF NextBound
<1>1. /\ nextIndex[l][p] \in Nat /\ nextIndex'[l][p] \in Nat /\ Len(log[l]) \in Nat
      /\ log[l] \in Seq(Entry) /\ matchIndex[l][p] \in Nat /\ Len(log'[l]) \in Nat
  BY NodeTypes, NodeTypesNext DEF Moves
<1>2. CASE role[l] # Leader
  BY <1>2, WhoLeads
<1>3. CASE role[l] = Leader
  <2>0. nextIndex[l][p] <= Len(log[l]) + 1
    BY <1>3 DEF Moves, LogInv, NextBound
  <2>1. CASE l # n
    BY <2>0, <2>1 DEF Moves, PlainBy, Same
  <2>2. CASE l = n
    <3>1. Acts(n)
      BY DEF Moves, PlainBy
    <3>2. CASE Calm(n) \/ \E m \in msgs : Grant(n, m)
      BY <1>1, <2>0, <2>2, <3>2 DEF Calm, Grant, Eases
    <3>3. CASE Campaign(n) \/ \E m \in msgs : Tally(n, m)
      BY <1>3, <2>2, <3>3 DEF Campaign, Tally, Candidate, Leader
    <3>4. CASE Extend(n)
      <4>1. PICK e \in Entry : log'[n] = Append(log[n], e)
        BY <3>4 DEF Extend
      <4>2. Len(log'[n]) = Len(log[n]) + 1
        BY <1>1, <2>2, <4>1
      <4> QED
        BY <1>1, <2>0, <2>2, <3>4, <4>2 DEF Extend
    <3>5. CASE \E m \in msgs : Ack(n, m)
      <4>1. PICK m \in msgs : Ack(n, m)
        BY <3>5
      <4>2. /\ IsAck(m) /\ m.to = n /\ m.term = currentTerm[n] /\ log'[n] = log[n]
            /\ \/ nextIndex'[n][p] = nextIndex[n][p]
               \/ /\ p = m.from
                  /\ matchIndex'[n][p] \in {matchIndex[n][p], m.matchIndex}
                  /\ nextIndex'[n][p] = matchIndex'[n][p] + 1
        BY <4>1 DEF Ack
      <4>3. m.matchIndex \in Nat
        BY <4>2, MessageFields DEF IsAck, Moves, TypeInv, TypeOK
      <4>4. ASSUME NEW i \in Nat, p = m.from, i \in {matchIndex[n][p], m.matchIndex}
            PROVE  i <= Len(log[n])
        <5>1. Acks(p, n, i)
          BY <4>2, <4>4 DEF Acks
        <5> QED
          BY <1>1, <1>3, <2>2, <5>1 DEF Moves, LogInv, AckSound
      <4>5. CASE nextIndex'[n][p] = nextIndex[n][p]
        BY <2>0, <2>2, <4>2, <4>5
      <4>6. CASE nextIndex'[n][p] # nextIndex[n][p]
        <5> DEFINE i == matchIndex'[n][p]
        <5>1. /\ p = m.from /\ i \in {matchIndex[n][p], m.matchIndex}
              /\ nextIndex'[n][p] = i + 1 /\ log'[n] = log[n]
          BY <4>2, <4>6
        <5>2. i \in Nat
          BY <1>1, <2>2, <4>3, <5>1
        <5> HIDE DEF i
        <5>3. i <= Len(log[n])
          BY <4>4, <5>1, <5>2
        <5> QED
          BY <1>1, <2>2, <5>1, <5>2, <5>3
      <4> QED
        BY <4>5, <4>6
    <3>6. CASE \E m \in msgs : Accept(n, m)
      BY <2>2, <3>6, AcceptorFollows DEF Follower, Leader
    <3> QED
      BY <3>1, <3>2, <3>3, <3>4, <3>5, <3>6 DEF Acts
  <2> QED
    BY <2>1, <2>2
<1> QED
  BY <1>2, <1>3

\* What a leader sends in its new state is the end of its log.
LEMMA SentWindow ==
    ASSUME NEW n \in Node, Moves(n), NEW x, Sent(n, x)
    PROVE  /\ role'[n] = Leader /\ IsAppend(x) /\ x.from = n /\ x.to \in Node \ {n}
           /\ x.term = currentTerm'[n] /\ x.leaderCommit = commitIndex'[n]
           /\ x.prevLogIndex \in Nat /\ x.prevLogTerm \in Nat /\ x.entries \in Seq(Entry)
           /\ x.prevLogIndex = 0 => x.prevLogTerm = 0
           /\ Window(x, log'[n]) /\ End(x) = Len(log'[n]) /\ EndTerm(x) = LastTerm(log'[n])
<1> DEFINE lg == log'[n]
           b == x.prevLogIndex
<1>1. /\ IsAppend(x) /\ x.from = n /\ x.to \in Node \ {n}
      /\ x.term = currentTerm'[n] /\ x.leaderCommit = commitIndex'[n]
      /\ b \in Nat /\ b + 1 = nextIndex'[n][x.to]
      /\ x.prevLogTerm = IF b \in DOMAIN lg THEN lg[b].term ELSE 0
      /\ x.entries = SubSeq(lg, b + 1, Len(lg)) /\ role'[n] = Leader
  <2>1. TypeInv' /\ snapshot'[n].index = 0
    BY DEF Moves, PlainBy
  <2> QED
    BY <2>1, SentShape, SMTT(30) DEF Sent
<1>2. /\ lg \in Seq(Entry) /\ Len(lg) \in Nat /\ DOMAIN lg = 1 .. Len(lg)
  BY NodeTypesNext DEF Moves
<1>3. b <= Len(lg)
  <2>1. b + 1 <= Len(lg) + 1
    BY <1>1, NextBoundStays DEF NextBound
  <2> QED
    BY <1>1, <1>2, <2>1
<1>4. \A k \in DOMAIN lg : lg[k].term \in Nat
  BY <1>2, EntryFields
<1> HIDE DEF lg
<1>5. /\ x.entries \in Seq(Entry) /\ Len(x.entries) = Len(lg) - b
      /\ \A k \in 1 .. Len(lg) - b : x.entries[k] = lg[b + k]
  <2> DEFINE a == b + 1
             z == Len(lg)
  <2>1. a \in Int /\ z \in Int /\ a >= 1 /\ \A i \in a .. z : lg[i] \in Entry
    BY <1>1, <1>2
  <2>2. /\ SubSeq(lg, a, z) \in Seq(Entry)
        /\ Len(SubSeq(lg, a, z)) = IF a <= z THEN z - a + 1 ELSE 0
        /\ \A i \in 1 .. z - a + 1 : SubSeq(lg, a, z)[i] = lg[a + i - 1]
    <3> HIDE DEF a, z
    <3> QED
      BY <2>1, SubSeqProperties
  <2>3. /\ (IF a <= z THEN z - a + 1 ELSE 0) = z - b /\ z - a + 1 = z - b
        /\ \A i \in 1 .. z - b : a + i - 1 = b + i
    BY <1>1, <1>2, <1>3
  <2> QED
    BY <1>1, <2>2, <2>3
<1>6. End(x) = Len(lg)
  BY <1>1, <1>2, <1>5 DEF End
<1>7. DOMAIN x.entries = 1 .. Len(lg) - b
  BY <1>5
<1>8. b = 0 => x.prevLogTerm = 0
  BY <1>1, <1>2
<1>9. Window(x, lg)
  BY <1>1, <1>2, <1>3, <1>5, <1>6, <1>7, SMTT(30) DEF Window
<1>10. EndTerm(x) = LastTerm(lg)
  <2>1. CASE b = Len(lg)
    <3>1. x.entries = <<>>
      BY <1>5, <2>1, <1>1, EmptySeq
    <3>2. EndTerm(x) = x.prevLogTerm
      BY <3>1 DEF EndTerm
    <3>3. CASE lg = <<>>
      BY <1>1, <1>2, <2>1, <3>2, <3>3 DEF LastTerm
    <3>4. CASE lg # <<>>
      <4>1. Len(lg) \in DOMAIN lg
        BY <1>2, <3>4, EmptySeq
      <4> QED
        BY <1>1, <2>1, <3>2, <3>4, <4>1 DEF LastTerm
    <3> QED
      BY <3>3, <3>4
  <2>2. CASE b # Len(lg)
    <3> DEFINE z == Len(x.entries)
    <3>1. z \in 1 .. Len(lg) - b /\ b + z = Len(lg) /\ z = Len(lg) - b
      BY <1>1, <1>2, <1>3, <1>5, <2>2, SMTT(30)
    <3>2. x.entries # <<>> /\ lg # <<>>
      <4> HIDE DEF z
      <4>1. Len(lg) \in Nat /\ b \in Nat
        BY <1>1, <1>2
      <4>2. z # 0 /\ Len(lg) # 0
        BY <3>1, <4>1
      <4> QED
        BY <1>2, <1>5, <4>2, EmptySeq DEF z
    <3>3. x.entries[z] = lg[Len(lg)]
      <4> HIDE DEF z
      <4> QED
        BY <1>5, <3>1
    <3> QED
      BY <3>2, <3>3 DEF EndTerm, LastTerm
  <2> QED
    BY <2>1, <2>2
<1>11. x.prevLogTerm \in Nat
  BY <1>1, <1>4
<1> QED
  BY <1>1, <1>5, <1>6, <1>8, <1>9, <1>10, <1>11 DEF lg

\* The links of a part of a log are links of the log.
LEMMA WindowLinks ==
    ASSUME NEW m, m.prevLogIndex \in Nat, m.entries \in Seq(Entry), NEW lg \in Seq(Entry),
           Window(m, lg), m.prevLogIndex = 0 => m.prevLogTerm = 0
    PROVE  MsgLinks(m) \subseteq LogLinks(lg)
<1> SUFFICES ASSUME NEW k \in DOMAIN m.entries
             PROVE  Link(m.prevLogIndex, m.prevLogTerm, m.entries, k) \in LogLinks(lg)
  BY DEF MsgLinks
<1> DEFINE b == m.prevLogIndex
           i == b + k
<1>1. /\ k \in Nat /\ k >= 1 /\ k <= Len(m.entries) /\ Len(m.entries) \in Nat
      /\ (k # 1 => k - 1 \in DOMAIN m.entries)
  OBVIOUS
<1>2. i \in DOMAIN lg /\ i \in Nat /\ (b # 0 \/ k # 1 => i # 1) /\ (b = 0 /\ k = 1 => i = 1)
  BY <1>1, SMTT(30) DEF Window, End
<1>3. lg[i] = m.entries[k]
  BY DEF Window
<1>4. (IF i = 1 THEN 0 ELSE lg[i - 1].term)
        = IF k = 1 THEN m.prevLogTerm ELSE m.entries[k - 1].term
  <2>1. CASE k # 1
    <3>1. b + (k - 1) = i - 1 /\ i # 1
      BY <1>1, <1>2, <2>1
    <3>2. lg[b + (k - 1)] = m.entries[k - 1]
      BY <1>1, <2>1 DEF Window
    <3> QED
      BY <2>1, <3>1, <3>2
  <2>2. CASE k = 1 /\ b # 0
    <3>1. i - 1 = b /\ i # 1 /\ b > 0
      BY <1>1, <1>2, <2>2
    <3> QED
      BY <2>2, <3>1 DEF Window
  <2>3. CASE k = 1 /\ b = 0
    BY <1>2, <2>3
  <2> QED
    BY <2>1, <2>2, <2>3
<1>5. 0 + i = i
  BY <1>2
<1> HIDE DEF i
<1>6. Link(0, 0, lg, i) = Link(b, m.prevLogTerm, m.entries, k)
  BY <1>3, <1>4, <1>5 DEF Link, i
<1> QED
  BY <1>2, <1>6 DEF LogLinks

\* After a merge the log has what the request spoke of, and every entry is one
\* it had or one of the request's.
LEMMA MergeHolds ==
    ASSUME NEW m, m.prevLogIndex \in Nat, m.entries \in Seq(Entry),
           NEW lg \in Seq(Entry), NEW new \in Seq(Entry), Merge(lg, m, new)
    PROVE  /\ End(m) <= Len(new) /\ End(m) \in Nat
           /\ m.prevLogIndex > 0 => m.prevLogIndex \in DOMAIN new
                                    /\ new[m.prevLogIndex].term = m.prevLogTerm
           /\ \A k \in DOMAIN m.entries : new[m.prevLogIndex + k].term = m.entries[k].term
           /\ End(m) > 0 => End(m) \in DOMAIN new /\ new[End(m)].term = EndTerm(m)
           /\ \A i \in DOMAIN new : \/ i \in DOMAIN lg /\ new[i] = lg[i]
                                    \/ \E k \in DOMAIN m.entries : new[i] = m.entries[k]
<1> DEFINE b == m.prevLogIndex
           es == m.entries
           z == Len(es)
<1>1. /\ Len(lg) \in Nat /\ DOMAIN lg = 1 .. Len(lg) /\ b \in Nat
      /\ Len(new) \in Nat /\ DOMAIN new = 1 .. Len(new)
      /\ z \in Nat /\ DOMAIN es = 1 .. z /\ End(m) = b + z /\ (es = <<>> <=> z = 0)
  BY EmptySeq DEF End
<1>2. b > 0 => b \in DOMAIN lg /\ lg[b].term = m.prevLogTerm
  BY <1>1 DEF Merge
<1>3. ASSUME End(m) <= Len(new), b > 0 => b \in DOMAIN new /\ new[b].term = m.prevLogTerm,
             \A k \in DOMAIN es : new[b + k].term = es[k].term
      PROVE  End(m) > 0 => End(m) \in DOMAIN new /\ new[End(m)].term = EndTerm(m)
  <2>1. CASE z = 0
    BY <1>1, <1>3, <2>1 DEF EndTerm
  <2>2. CASE z # 0
    <3>1. z \in DOMAIN es
      BY <1>1, <2>2
    <3>2. new[b + z].term = es[z].term
      BY <1>3, <3>1
    <3> QED
      BY <1>1, <1>3, <2>2, <3>2 DEF EndTerm
  <2> QED
    BY <2>1, <2>2
<1>4. CASE new = lg /\ HoldsAll(lg, m)
  <2>1. \A k \in DOMAIN es : b + k \in DOMAIN lg /\ lg[b + k].term = es[k].term
    BY <1>4 DEF HoldsAll
  <2>2. End(m) <= Len(new)
    <3>1. CASE z = 0
      BY <1>1, <1>2, <1>4, <3>1
    <3>2. CASE z # 0
      <4>1. b + z \in DOMAIN lg
        BY <1>1, <2>1, <3>2
      <4> QED
        BY <1>1, <1>4, <4>1
    <3> QED
      BY <3>1, <3>2
  <2> QED
    BY <1>1, <1>2, <1>3, <1>4, <2>1, <2>2
<1>5. CASE \E cut \in b .. (End(m) - 1) : Splices(lg, m, new, cut)
  <2>1. PICK cut \in b .. (End(m) - 1) : Splices(lg, m, new, cut)
    BY <1>5
  <2>2. /\ cut \in Nat /\ b <= cut /\ cut <= Len(lg) /\ cut < b + z /\ Len(new) = b + z
    BY <1>1, <2>1 DEF Splices
  <2>3. /\ \A i \in 1 .. cut : new[i] = lg[i]
        /\ \A i \in (cut + 1) .. (b + z) : new[i] = es[i - b]
        /\ \A i \in (b + 1) .. cut : lg[i].term = es[i - b].term
    BY <1>1, <2>1 DEF Splices
  <2>4. b > 0 => b \in DOMAIN new /\ new[b].term = m.prevLogTerm
    BY <1>1, <1>2, <2>2, <2>3
  <2>5. ASSUME NEW k \in DOMAIN es PROVE new[b + k].term = es[k].term
    <3> DEFINE i == b + k
    <3>1. i \in Nat /\ i - b = k /\ i >= b + 1 /\ i <= b + z /\ i >= 1
      BY <1>1, SMTT(30)
    <3> HIDE DEF i
    <3>2. new[i].term = es[i - b].term
      <4>1. CASE i <= cut
        BY <1>1, <2>2, <2>3, <3>1, <4>1
      <4>2. CASE i > cut
        BY <1>1, <2>2, <2>3, <3>1, <4>2
      <4> QED
        BY <2>2, <3>1, <4>1, <4>2
    <3> QED
      BY <3>1, <3>2 DEF i
  <2>6. ASSUME NEW i \in DOMAIN new
        PROVE  \/ i \in DOMAIN lg /\ new[i] = lg[i]
               \/ \E k \in DOMAIN es : new[i] = es[k]
    <3>1. CASE i <= cut
      BY <1>1, <2>2, <2>3, <3>1
    <3>2. CASE i > cut
      <4>1. i \in (cut + 1) .. (b + z) /\ i - b \in DOMAIN es
        BY <1>1, <2>2, <3>2
      <4> QED
        BY <2>3, <4>1
    <3> QED
      BY <1>1, <2>2, <3>1, <3>2
  <2> QED
    BY <1>1, <1>3, <2>2, <2>4, <2>5, <2>6
<1> QED
  BY <1>4, <1>5 DEF Merge

\* A merge makes no links of its own.
LEMMA MergeLinks ==
    ASSUME NEW m, m.prevLogIndex \in Nat, m.entries \in Seq(Entry),
           m.prevLogIndex = 0 => m.prevLogTerm = 0,
           NEW lg \in Seq(Entry), NEW new \in Seq(Entry), Merge(lg, m, new)
    PROVE  LogLinks(new) \subseteq LogLinks(lg) \cup MsgLinks(m)
<1> DEFINE b == m.prevLogIndex
           es == m.entries
           z == Len(es)
<1>1. /\ Len(lg) \in Nat /\ DOMAIN lg = 1 .. Len(lg) /\ b \in Nat
      /\ Len(new) \in Nat /\ DOMAIN new = 1 .. Len(new)
      /\ z \in Nat /\ DOMAIN es = 1 .. z /\ End(m) = b + z
  BY DEF End
<1>2. /\ b > 0 => b \in DOMAIN new /\ new[b].term = m.prevLogTerm
      /\ \A k \in DOMAIN es : new[b + k].term = es[k].term
  BY MergeHolds
<1>3. CASE new = lg
  BY <1>3
<1>4. CASE new # lg
  <2>1. PICK cut \in Nat : cut \in b .. (End(m) - 1) /\ Splices(lg, m, new, cut)
    BY <1>1, <1>4 DEF Merge
  <2>2. /\ cut \in Nat /\ b <= cut /\ cut <= Len(lg) /\ cut < b + z /\ Len(new) = b + z
    BY <1>1, <2>1 DEF Splices
  <2>3. /\ \A i \in 1 .. cut : new[i] = lg[i]
        /\ \A i \in (cut + 1) .. (b + z) : new[i] = es[i - b]
    BY <1>1, <2>1 DEF Splices
  <2> SUFFICES ASSUME NEW i \in Nat, i \in DOMAIN new
               PROVE  Link(0, 0, new, i) \in LogLinks(lg) \cup MsgLinks(m)
    BY <1>1 DEF LogLinks
  <2>4. CASE i <= cut
    <3>1. i \in DOMAIN lg /\ new[i] = lg[i] /\ (i # 1 => new[i - 1] = lg[i - 1])
      BY <1>1, <2>2, <2>3, <2>4
    <3>2. Link(0, 0, new, i) = Link(0, 0, lg, i)
      BY <3>1 DEF Link
    <3> QED
      BY <3>1, <3>2 DEF LogLinks
  <2>5. CASE i > cut
    <3> DEFINE k == i - b
    <3>a. /\ i \in Nat /\ i <= b + z /\ i > cut /\ b <= cut /\ b \in Nat /\ z \in Nat /\ cut \in Nat
          /\ DOMAIN es = 1 .. z
      BY <1>1, <2>2, <2>5
    <3>1. /\ k \in DOMAIN es /\ b + k = i /\ 0 + i = i /\ i \in (cut + 1) .. (b + z)
          /\ k \in Nat /\ k >= 1 /\ i \in Nat
          /\ (k # 1 => k - 1 \in DOMAIN es /\ b + (k - 1) = i - 1 /\ i # 1)
          /\ (k = 1 /\ b > 0 => i - 1 = b /\ i # 1)
          /\ (k = 1 /\ b = 0 => i = 1)
      <4>1. /\ k \in Nat /\ k >= 1 /\ k <= z /\ b + k = i /\ b + (k - 1) = i - 1
            /\ (k # 1 => k - 1 \in 1 .. z) /\ (b # 0 \/ k # 1 => i # 1)
            /\ (k = 1 => i - 1 = b) /\ (k = 1 /\ b = 0 => i = 1)
        <5>1. ASSUME NEW bb \in Nat, NEW zz \in Nat, NEW ii \in Nat, ii > bb, ii <= bb + zz
              PROVE  /\ ii - bb \in Nat /\ ii - bb >= 1 /\ ii - bb <= zz /\ bb + (ii - bb) = ii
                     /\ bb + ((ii - bb) - 1) = ii - 1
                     /\ (ii - bb # 1 => (ii - bb) - 1 \in 1 .. zz)
                     /\ (bb # 0 \/ ii - bb # 1 => ii # 1)
                     /\ (ii - bb = 1 => ii - 1 = bb) /\ (ii - bb = 1 /\ bb = 0 => ii = 1)
          BY <5>1
        <5>2. i > b
          BY <3>a
        <5> HIDE DEF b, es, z
        <5> QED
          BY <3>a, <5>1, <5>2
      <4> HIDE DEF b, es, z, k
      <4> QED
        BY <3>a, <4>1
    <3>2. new[i] = es[k]
      BY <2>3, <3>1
    <3> HIDE DEF k
    <3>3. (IF i = 1 THEN 0 ELSE new[i - 1].term) = IF k = 1 THEN m.prevLogTerm ELSE es[k - 1].term
      <4>1. CASE k # 1
        <5>1. new[b + (k - 1)].term = es[k - 1].term
          BY <1>2, <3>1, <4>1
        <5> QED
          BY <3>1, <4>1, <5>1
      <4>2. CASE k = 1 /\ b > 0
        BY <1>2, <3>1, <4>2
      <4>3. CASE k = 1 /\ b = 0
        BY <3>1, <4>3
      <4> QED
        BY <1>1, <4>1, <4>2, <4>3
    <3>4. Link(0, 0, new, i) = Link(b, m.prevLogTerm, es, k)
      BY <3>1, <3>2, <3>3 DEF Link
    <3> QED
      BY <3>1, <3>4 DEF MsgLinks
  <2> QED
    BY <1>1, <2>2, <2>4, <2>5
<1> QED
  BY <1>3, <1>4

\* new is lg up to the index cut and the entries of m after it, none of which lg has.
Cuts(m, lg, new, cut) ==
    /\ cut < End(m) /\ cut <= Len(lg) /\ Len(new) = End(m) /\ cut >= m.prevLogIndex
    /\ \A k \in 1 .. cut : new[k] = lg[k]
    /\ \A k \in (cut + 1) .. End(m) : new[k] = m.entries[k - m.prevLogIndex]
    /\ \A k \in (cut + 1) .. End(m) : k \in DOMAIN lg => lg[k].term # new[k].term

\* A merge that drops an entry drops it for a conflict, and then the log differs
\* from the request from that entry on.
LEMMA MergeCases ==
    ASSUME NEW m, m.prevLogIndex \in Nat, m.entries \in Seq(Entry),
           NEW lg \in Seq(Entry), NEW new \in Seq(Entry), Merge(lg, m, new),
           NEW L, LinkUnique(L), LogLinks(lg) \subseteq L, LogLinks(new) \subseteq L
    PROVE  \/ new = lg
           \/ \E cut \in Nat : Cuts(m, lg, new, cut)
<1> DEFINE b == m.prevLogIndex
           es == m.entries
           z == Len(es)
<1>1. /\ Len(lg) \in Nat /\ DOMAIN lg = 1 .. Len(lg) /\ b \in Nat
      /\ Len(new) \in Nat /\ DOMAIN new = 1 .. Len(new)
      /\ z \in Nat /\ DOMAIN es = 1 .. z /\ End(m) = b + z
  BY DEF End
<1>2. SUFFICES ASSUME new # lg
               PROVE  \E cut \in Nat : Cuts(m, lg, new, cut)
  OBVIOUS
<1>3. PICK cut \in Nat : cut \in b .. (End(m) - 1) /\ Splices(lg, m, new, cut)
  BY <1>1, <1>2 DEF Merge
<1>4. /\ cut \in Nat /\ b <= cut /\ cut <= Len(lg) /\ cut < End(m) /\ Len(new) = End(m)
      /\ \A i \in 1 .. cut : new[i] = lg[i]
      /\ \A i \in (cut + 1) .. End(m) : new[i] = es[i - b]
      /\ cut < Len(lg) => lg[cut + 1].term # es[cut + 1 - b].term
  BY <1>1, <1>3 DEF Splices
<1>5. ASSUME NEW k \in (cut + 1) .. End(m), k \in DOMAIN lg, lg[k].term = new[k].term
      PROVE  FALSE
  <2>1. k \in Nat /\ k \in DOMAIN new /\ cut + 1 \in 1 .. k /\ cut < Len(lg)
        /\ cut + 1 \in (cut + 1) .. End(m)
    BY <1>1, <1>4, <1>5
  <2>2. lg[cut + 1] = new[cut + 1]
    BY <1>5, <2>1, ChainAgree, SMTT(30)
  <2>3. new[cut + 1] = es[cut + 1 - b]
    <3> DEFINE c == cut + 1
    <3>1. /\ \A i \in c .. End(m) : new[i] = es[i - b]
          /\ c \in c .. End(m)
      BY <1>4, <2>1
    <3> HIDE DEF c
    <3>2. new[c] = es[c - b]
      BY <3>1
    <3>3. c - b = cut + 1 - b
      <4>1. ASSUME NEW x \in Nat, NEW y \in Nat PROVE (x + 1) - y = x + 1 - y
        OBVIOUS
      <4>2. b \in Nat
        OBVIOUS
      <4> HIDE DEF b
      <4> QED
        BY <4>1, <4>2 DEF c
    <3> QED
      <4> HIDE DEF b, es
      <4>1. new[c] = es[cut + 1 - b]
        BY <3>2, <3>3
      <4> QED
        BY <4>1 DEF c
  <2> QED
    BY <1>4, <2>1, <2>2, <2>3
<1> QED
  BY <1>4, <1>5 DEF Cuts

\* The parts of an AppendEntries request.
LEMMA AppendFields ==
    ASSUME TypeInv, NEW m \in msgs, IsAppend(m)
    PROVE  /\ m.from \in Node /\ m.to \in Node /\ m.term \in Nat
           /\ m.prevLogIndex \in Nat /\ m.prevLogTerm \in Nat /\ m.entries \in Seq(Entry)
           /\ m.leaderCommit \in Nat /\ End(m) \in Nat /\ EndTerm(m) \in Nat
           /\ m.prevLogIndex <= End(m)
<1>1. /\ m.from \in Node /\ m.to \in Node /\ m.term \in Nat
      /\ m.prevLogIndex \in Nat /\ m.prevLogTerm \in Nat /\ m.entries \in Seq(Entry)
      /\ m.leaderCommit \in Nat
  BY MessageFields DEF TypeInv, TypeOK, IsAppend
<1>2. Len(m.entries) \in Nat /\ (m.entries # <<>> => Len(m.entries) \in DOMAIN m.entries)
  BY <1>1
<1>3. EndTerm(m) \in Nat
  BY <1>1, <1>2, EntryFields DEF EndTerm
<1> QED
  BY <1>1, <1>2, <1>3 DEF End

\* The same of the next state.
LEMMA AppendFieldsNext ==
    ASSUME TypeInv', NEW m \in msgs', IsAppend(m)
    PROVE  /\ m.from \in Node /\ m.to \in Node /\ m.term \in Nat
           /\ m.prevLogIndex \in Nat /\ m.prevLogTerm \in Nat /\ m.entries \in Seq(Entry)
           /\ m.leaderCommit \in Nat /\ End(m) \in Nat /\ EndTerm(m) \in Nat
           /\ m.prevLogIndex <= End(m)
<1>1. /\ m.from \in Node /\ m.to \in Node /\ m.term \in Nat
      /\ m.prevLogIndex \in Nat /\ m.prevLogTerm \in Nat /\ m.entries \in Seq(Entry)
      /\ m.leaderCommit \in Nat
  BY MessageFields DEF TypeInv, TypeOK, IsAppend
<1>2. Len(m.entries) \in Nat /\ (m.entries # <<>> => Len(m.entries) \in DOMAIN m.entries)
  BY <1>1
<1>3. EndTerm(m) \in Nat
  BY <1>1, <1>2, EntryFields DEF EndTerm
<1> QED
  BY <1>1, <1>2, <1>3 DEF End

\* The links of a log or of a request are among all the links.
LEMMA LinksIn ==
    /\ \A c \in Node : LogLinks(log[c]) \subseteq Links /\ LogLinks(log'[c]) \subseteq Links'
    /\ \A m \in msgs : IsAppend(m) => MsgLinks(m) \subseteq Links
    /\ \A m \in msgs' : IsAppend(m) => MsgLinks(m) \subseteq Links'
  BY DEF Links, LinksOf

\* The parts of a link, before and after a step.
LEMMA LinkParts ==
    ASSUME NEW n \in Node, Moves(n)
    PROVE  /\ \A x \in Links : x.index \in Nat /\ x.index >= 1 /\ x.entry.term \in Nat /\ x.prev \in Nat
           /\ \A x \in Links' : x.index \in Nat /\ x.index >= 1 /\ x.entry.term \in Nat /\ x.prev \in Nat
<1>1. log \in [Node -> Seq(Entry)] /\ msgs \in SUBSET Message
  BY DEF Moves, TypeInv, TypeOK
<1>2. log' \in [Node -> Seq(Entry)] /\ msgs' \in SUBSET Message
  BY DEF Moves, TypeInv, TypeOK
<1>3. \A x \in Links : x.index \in Nat /\ x.index >= 1 /\ x.entry.term \in Nat /\ x.prev \in Nat
  BY <1>1, LinkTypes DEF Links
<1>4. \A x \in Links' : x.index \in Nat /\ x.index >= 1 /\ x.entry.term \in Nat /\ x.prev \in Nat
  BY <1>2, LinkTypes DEF Links
<1> QED
  BY <1>3, <1>4

\* The end of a log.
LEMMA LogEnd ==
    ASSUME NEW lg \in Seq(Entry)
    PROVE  /\ Len(lg) \in Nat /\ LastTerm(lg) \in Nat
           /\ Len(lg) = 0 => LastTerm(lg) = 0
           /\ Len(lg) # 0 => Len(lg) \in DOMAIN lg /\ lg[Len(lg)].term = LastTerm(lg)
<1>1. Len(lg) \in Nat /\ DOMAIN lg = 1 .. Len(lg) /\ (lg = <<>> <=> Len(lg) = 0)
  BY EmptySeq
<1>2. CASE Len(lg) = 0
  BY <1>1, <1>2 DEF LastTerm
<1>3. CASE Len(lg) # 0
  <2>1. Len(lg) \in DOMAIN lg
    BY <1>1, <1>3
  <2> QED
    BY <1>1, <1>3, <2>1, EntryFields DEF LastTerm
<1> QED
  BY <1>2, <1>3

\* What an append of a leader does to its log.
LEMMA ExtendLog ==
    ASSUME NEW n \in Node, Moves(n), Extend(n)
    PROVE  /\ Len(log'[n]) = Len(log[n]) + 1 /\ DOMAIN log[n] \subseteq DOMAIN log'[n]
           /\ \A k \in DOMAIN log[n] : log'[n][k] = log[n][k]
           /\ Len(log'[n]) \in DOMAIN log'[n]
           /\ log'[n][Len(log'[n])].term = currentTerm[n]
           /\ role[n] = Leader /\ role'[n] = Leader /\ currentTerm'[n] = currentTerm[n]
           /\ LastTerm(log'[n]) = currentTerm[n]
<1>1. /\ log[n] \in Seq(Entry) /\ Len(log[n]) \in Nat /\ DOMAIN log[n] = 1 .. Len(log[n])
      /\ log'[n] \in Seq(Entry) /\ Len(log'[n]) \in Nat /\ DOMAIN log'[n] = 1 .. Len(log'[n])
  BY NodeTypes, NodeTypesNext DEF Moves
<1>2. PICK e \in Entry : e.term = currentTerm[n] /\ log'[n] = Append(log[n], e)
  BY DEF Extend
<1>3. /\ Len(log'[n]) = Len(log[n]) + 1
      /\ \A k \in 1 .. Len(log[n]) : log'[n][k] = log[n][k]
      /\ log'[n][Len(log[n]) + 1] = e
  <2> DEFINE lg == log[n]
             new == log'[n]
  <2>1. lg \in Seq(Entry) /\ new = Append(lg, e) /\ Len(lg) \in Nat
    BY <1>1, <1>2
  <2> HIDE DEF lg, new
  <2>2. /\ Len(new) = Len(lg) + 1
        /\ \A k \in 1 .. Len(lg) : new[k] = lg[k]
        /\ new[Len(lg) + 1] = e
    BY <2>1
  <2> QED
    BY <2>2 DEF lg, new
<1>4. Len(log'[n]) # 0 /\ Len(log'[n]) \in DOMAIN log'[n] /\ DOMAIN log[n] \subseteq DOMAIN log'[n]
  BY <1>1, <1>3
<1>5. log'[n][Len(log'[n])].term = currentTerm[n]
  BY <1>2, <1>3
<1>6. LastTerm(log'[n]) = currentTerm[n]
  BY <1>1, <1>4, <1>5, LogEnd
<1> QED
  BY <1>1, <1>3, <1>4, <1>5, <1>6 DEF Extend, Leads

\* An append makes one new link.
LEMMA ExtendLinks ==
    ASSUME NEW n \in Node, Moves(n), Extend(n), NEW x \in LogLinks(log'[n])
    PROVE  \/ x \in LogLinks(log[n])
           \/ /\ x.index = Len(log'[n]) /\ x.prev = LastTerm(log[n])
              /\ x.entry.term = currentTerm[n] /\ x = Link(0, 0, log'[n], Len(log'[n]))
<1>1. /\ log[n] \in Seq(Entry) /\ Len(log[n]) \in Nat /\ DOMAIN log[n] = 1 .. Len(log[n])
      /\ DOMAIN log'[n] = 1 .. Len(log'[n])
  BY NodeTypes, NodeTypesNext DEF Moves
<1>2. /\ Len(log'[n]) = Len(log[n]) + 1
      /\ \A k \in DOMAIN log[n] : log'[n][k] = log[n][k]
      /\ log'[n][Len(log'[n])].term = currentTerm[n]
  BY ExtendLog
<1>3. PICK k \in Nat : k \in DOMAIN log'[n] /\ x = Link(0, 0, log'[n], k)
  BY <1>1, <1>2 DEF LogLinks
<1>4. k \in 1 .. Len(log[n]) + 1
  BY <1>1, <1>2, <1>3
<1>5. CASE k \in DOMAIN log[n]
  <2>1. log'[n][k] = log[n][k] /\ (k # 1 => log'[n][k - 1] = log[n][k - 1])
    BY <1>1, <1>2, <1>5, SMTT(30)
  <2>2. x = Link(0, 0, log[n], k)
    BY <1>3, <2>1 DEF Link
  <2> QED
    BY <1>5, <2>2 DEF LogLinks
<1>6. CASE k \notin DOMAIN log[n]
  <2>1. k = Len(log[n]) + 1 /\ k = Len(log'[n]) /\ 0 + k = k /\ k - 1 = Len(log[n])
        /\ (k = 1 => Len(log[n]) = 0) /\ (k # 1 => k - 1 \in DOMAIN log[n])
    BY <1>1, <1>2, <1>4, <1>6
  <2>2. /\ x.index = k /\ x.entry = log'[n][k]
        /\ x.prev = IF k = 1 THEN 0 ELSE log'[n][k - 1].term
    BY <1>3, <2>1 DEF Link
  <2>3. x.prev = LastTerm(log[n])
    <3>1. CASE k = 1
      BY <1>1, <2>1, <2>2, <3>1, LogEnd
    <3>2. CASE k # 1
      <4>1. log'[n][k - 1] = log[n][k - 1]
        BY <1>2, <2>1, <3>2
      <4>2. Len(log[n]) # 0
        BY <1>1, <2>1, <3>2
      <4> QED
        BY <1>1, <2>1, <2>2, <3>2, <4>1, <4>2, LogEnd
    <3> QED
      BY <3>1, <3>2
  <2> QED
    BY <1>2, <1>3, <2>1, <2>2, <2>3
<1> QED
  BY <1>5, <1>6

\* A step makes no links but for the one a leader appends.
LEMMA LinksGrow ==
    ASSUME NEW n \in Node, Moves(n), NEW x \in Links', x \notin Links
    PROVE  /\ Extend(n) /\ x.index = Len(log'[n]) /\ x.prev = LastTerm(log[n])
           /\ x.entry.term = currentTerm[n] /\ x = Link(0, 0, log'[n], Len(log'[n]))
<1>0. TypeInv
  BY DEF Moves
<1>1. ASSUME NEW c \in Node, x \in LogLinks(log'[c])
      PROVE  /\ Extend(n) /\ x.index = Len(log'[n]) /\ x.prev = LastTerm(log[n])
             /\ x.entry.term = currentTerm[n] /\ x = Link(0, 0, log'[n], Len(log'[n]))
  <2>1. c = n /\ log'[n] # log[n]
    BY <1>1, LinksIn, LogMoves
  <2>2. CASE Extend(n)
    BY <1>1, <2>1, <2>2, LinksIn, ExtendLinks
  <2>3. CASE \E m \in msgs : Accept(n, m)
    <3>1. PICK m \in msgs : Accept(n, m)
      BY <2>3
    <3>2. IsAppend(m) /\ Merge(log[n], m, log'[n])
      BY <3>1 DEF Accept
    <3>3. /\ m.prevLogIndex \in Nat /\ m.entries \in Seq(Entry)
          /\ m.prevLogIndex = 0 => m.prevLogTerm = 0
      BY <1>0, <3>2, AppendFields DEF Moves, LogInv, RequestShape
    <3>4. log[n] \in Seq(Entry) /\ log'[n] \in Seq(Entry)
      BY NodeTypes, NodeTypesNext DEF Moves
    <3>5. LogLinks(log'[n]) \subseteq LogLinks(log[n]) \cup MsgLinks(m)
      BY <3>2, <3>3, <3>4, MergeLinks
    <3> QED
      BY <1>1, <2>1, <3>2, <3>5, LinksIn
  <2> QED
    BY <2>1, <2>2, <2>3, LogMoves
<1>2. CASE \E c \in Node : x \in LogLinks(log'[c])
  BY <1>1, <1>2
<1>3. CASE \E m \in msgs' : IsAppend(m) /\ x \in MsgLinks(m)
  <2>1. PICK m \in msgs' : IsAppend(m) /\ x \in MsgLinks(m)
    BY <1>3
  <2>2. m \notin msgs
    BY <2>1, LinksIn
  <2>3. Sent(n, m)
    BY <2>1, <2>2, NewMessages DEF Harmless, Granted, IsAck, IsAppend
  <2>4. /\ Window(m, log'[n]) /\ m.prevLogIndex \in Nat /\ m.entries \in Seq(Entry)
        /\ m.prevLogIndex = 0 => m.prevLogTerm = 0
    BY <2>3, SentWindow
  <2>5. log'[n] \in Seq(Entry)
    BY NodeTypesNext DEF Moves
  <2>6. x \in LogLinks(log'[n])
    BY <2>1, <2>4, <2>5, WindowLinks
  <2> QED
    BY <1>1, <2>6
<1> QED
  BY <1>2, <1>3 DEF Links, LinksOf

-----------------------------------------------------------------------------
(* What a step preserves *)

\* A leader that goes on leading keeps its entries.
LEMMA LeaderKeeps ==
    ASSUME NEW n \in Node, Moves(n), NEW l \in Node, role[l] = Leader, role'[l] = Leader
    PROVE  /\ log'[l] = log[l] \/ (l = n /\ Extend(n))
           /\ Len(log[l]) <= Len(log'[l]) /\ DOMAIN log[l] \subseteq DOMAIN log'[l]
           /\ \A k \in DOMAIN log[l] : log'[l][k] = log[l][k]
           /\ currentTerm'[l] = currentTerm[l]
<1>1. Len(log[l]) \in Nat /\ Len(log'[l]) \in Nat
  BY NodeTypes, NodeTypesNext DEF Moves
<1>2. log'[l] = log[l] \/ (l = n /\ Extend(n))
  BY LogMoves, AcceptorFollows DEF Follower, Leader
<1>3. currentTerm'[l] = currentTerm[l]
  BY WhoLeads
<1>4. CASE log'[l] = log[l]
  BY <1>1, <1>2, <1>3, <1>4
<1>5. CASE l = n /\ Extend(n)
  BY <1>1, <1>2, <1>3, <1>5, ExtendLog
<1> QED
  BY <1>2, <1>4, <1>5

\* A leader appends after every entry of its term.
LEMMA AppendIsLast ==
    ASSUME NEW n \in Node, Moves(n), NEW x \in Links, Extend(n), x.entry.term = currentTerm[n]
    PROVE  x.index < Len(log'[n]) /\ LastTerm(log[n]) = currentTerm[n]
<1>1. /\ log[n] \in Seq(Entry) /\ Len(log[n]) \in Nat /\ DOMAIN log[n] = 1 .. Len(log[n])
      /\ currentTerm[n] \in Nat
  BY NodeTypes DEF Moves
<1>2. Len(log'[n]) = Len(log[n]) + 1 /\ role[n] = Leader
  BY ExtendLog
<1>3. Has(n, x.index, currentTerm[n])
  BY <1>2 DEF Moves, LogInv, LeaderHolds
<1>4. x.index \in DOMAIN log[n] /\ log[n][x.index].term = currentTerm[n]
  BY <1>3 DEF Has
<1>5. x.index \in Nat /\ x.index >= 1 /\ x.index <= Len(log[n]) /\ Len(log[n]) # 0
  BY <1>1, <1>4
<1>6. /\ Len(log[n]) \in DOMAIN log[n] /\ log[n][Len(log[n])].term = LastTerm(log[n])
      /\ LastTerm(log[n]) \in Nat
  BY <1>1, <1>5, LogEnd
<1>7. log[n][x.index].term <= log[n][Len(log[n])].term
  <2> DEFINE j == Len(log[n])
             i == x.index
  <2>1. i \in DOMAIN log[n] /\ j \in DOMAIN log[n] /\ i <= j
    BY <1>4, <1>5, <1>6
  <2>2. LinkShape(Links) /\ LogLinks(log[n]) \subseteq Links
    BY LinksIn DEF Moves, LogInv, LinkInv
  <2> HIDE DEF i, j
  <2>3. log[n][i].term <= log[n][j].term
    BY <1>1, <2>1, <2>2, ChainMono
  <2> QED
    BY <2>3 DEF i, j
<1>8. log[n][Len(log[n])].term <= currentTerm[n]
  BY <1>6 DEF Moves, LogInv, TermBound
<1> QED
  BY <1>1, <1>2, <1>4, <1>5, <1>6, <1>7, <1>8

\* Terms do not decrease along any log.
LEMMA LinkShapeStays ==
    ASSUME NEW n \in Node, Moves(n)
    PROVE  LinkShape(Links')
<1> SUFFICES ASSUME NEW x \in Links' PROVE x.entry.term >= 1 /\ x.prev <= x.entry.term
  BY DEF LinkShape
<1>1. CASE x \in Links
  BY <1>1 DEF Moves, LogInv, LinkInv, LinkShape
<1>2. CASE x \notin Links
  <2>1. Extend(n) /\ x.prev = LastTerm(log[n]) /\ x.entry.term = currentTerm[n]
    BY <1>2, LinksGrow
  <2>2. log[n] \in Seq(Entry) /\ currentTerm[n] \in Nat /\ role[n] = Leader
    BY <2>1, NodeTypes, ExtendLog DEF Moves
  <2>3. currentTerm[n] >= 1
    BY <2>2 DEF Moves, LogInv, Offices, Follower, Leader
  <2>4. Len(log[n]) # 0 => LastTerm(log[n]) <= currentTerm[n]
    BY <2>2, LogEnd DEF Moves, LogInv, TermBound
  <2> QED
    BY <2>1, <2>2, <2>3, <2>4, LogEnd
<1> QED
  BY <1>1, <1>2

\* An index and a term still determine an entry.
LEMMA LinkUniqueStays ==
    ASSUME NEW n \in Node, Moves(n)
    PROVE  LinkUnique(Links')
<1> SUFFICES ASSUME NEW x \in Links', NEW y \in Links', x.index = y.index,
                    x.entry.term = y.entry.term
             PROVE  x = y
  BY DEF LinkUnique
<1>1. CASE x \in Links /\ y \in Links
  BY <1>1 DEF Moves, LogInv, LinkInv, LinkUnique
<1>2. CASE x \notin Links /\ y \notin Links
  BY <1>2, LinksGrow
<1>3. ASSUME NEW u \in Links', NEW v \in Links, u \notin Links, u.index = v.index,
             u.entry.term = v.entry.term
      PROVE  FALSE
  <2>1. Extend(n) /\ u.index = Len(log'[n]) /\ u.entry.term = currentTerm[n]
    BY <1>3, LinksGrow
  <2>2. v.index < Len(log'[n])
    BY <1>3, <2>1, AppendIsLast
  <2>3. v.index \in Nat
    BY LinkParts
  <2> QED
    BY <1>3, <2>1, <2>2, <2>3
<1> QED
  BY <1>1, <1>2, <1>3

\* The entries of a term still start where the first was appended.
LEMMA FirstLowStays ==
    ASSUME NEW n \in Node, Moves(n)
    PROVE  FirstLow(Links')
<1> SUFFICES ASSUME NEW x \in Links', NEW y \in Links', x.entry.term = y.entry.term,
                    x.prev < x.entry.term
             PROVE  x.index <= y.index
  BY DEF FirstLow
<1>0. x.index \in Nat /\ y.index \in Nat /\ x.prev \in Nat /\ x.entry.term \in Nat
  BY LinkParts
<1>1. CASE x \in Links /\ y \in Links
  BY <1>1 DEF Moves, LogInv, LinkInv, FirstLow
<1>2. CASE x \notin Links /\ y \notin Links
  BY <1>0, <1>2, LinksGrow
<1>3. CASE x \notin Links /\ y \in Links
  <2>1. Extend(n) /\ x.prev = LastTerm(log[n]) /\ x.entry.term = currentTerm[n]
    BY <1>3, LinksGrow
  <2>2. LastTerm(log[n]) = currentTerm[n]
    BY <1>3, <2>1, AppendIsLast
  <2> QED
    BY <1>0, <2>1, <2>2
<1>4. CASE x \in Links /\ y \notin Links
  <2>1. Extend(n) /\ y.index = Len(log'[n]) /\ y.entry.term = currentTerm[n]
    BY <1>4, LinksGrow
  <2>2. x.index < Len(log'[n])
    BY <1>4, <2>1, AppendIsLast
  <2> QED
    BY <1>0, <2>1, <2>2
<1> QED
  BY <1>1, <1>2, <1>3, <1>4

\* Every entry still is of a term that somebody won.
LEMMA LinkElectedStays ==
    ASSUME NEW n \in Node, Moves(n)
    PROVE  LinkElected'
<1>1. ASSUME NEW l \in Node, NEW t, Won(l, t) PROVE Won(l, t)'
  BY <1>1, TermsGrow DEF Won
<1> SUFFICES ASSUME NEW x \in Links' PROVE \E l \in Node : Won(l, x.entry.term)'
  BY DEF LinkElected, Won
<1>2. \E l \in Node : Won(l, x.entry.term)
  <2>1. CASE x \in Links
    BY <2>1 DEF Moves, LogInv, LinkElected
  <2>2. CASE x \notin Links
    <3>1. role[n] = Leader /\ x.entry.term = currentTerm[n]
      BY <2>2, LinksGrow, ExtendLog
    <3> QED
      BY <3>1 DEF Moves, LogInv, Offices
  <2> QED
    BY <2>1, <2>2
<1> QED
  BY <1>1, <1>2

\* A leader still has every entry of its term.
LEMMA LeaderHoldsStays ==
    ASSUME NEW n \in Node, Moves(n)
    PROVE  LeaderHolds'
<1> SUFFICES ASSUME NEW l \in Node, NEW x \in Links', role'[l] = Leader,
                    x.entry.term = currentTerm'[l]
             PROVE  x.index \in DOMAIN log'[l] /\ log'[l][x.index].term = currentTerm'[l]
  BY DEF LeaderHolds, Has
<1>1. CASE role[l] = Leader
  <2>1. /\ currentTerm'[l] = currentTerm[l] /\ DOMAIN log[l] \subseteq DOMAIN log'[l]
        /\ \A k \in DOMAIN log[l] : log'[l][k] = log[l][k]
    BY <1>1, LeaderKeeps
  <2>2. CASE x \in Links
    <3>1. x.index \in DOMAIN log[l] /\ log[l][x.index].term = currentTerm[l]
      BY <1>1, <2>1, <2>2 DEF Moves, LogInv, LeaderHolds, Has
    <3> QED
      BY <2>1, <3>1
  <2>3. CASE x \notin Links
    <3>1. Extend(n) /\ x.index = Len(log'[n]) /\ x.entry.term = currentTerm[n]
      BY <2>3, LinksGrow
    <3>2. /\ Len(log'[n]) \in DOMAIN log'[n] /\ log'[n][Len(log'[n])].term = currentTerm[n]
          /\ role[n] = Leader
      BY <3>1, ExtendLog
    <3>3. Won(n, currentTerm[n]) /\ Won(l, currentTerm[n])
      BY <1>1, <2>1, <3>1, <3>2 DEF Moves, LogInv, Offices
    <3>4. l = n
      BY <3>3, WinnerIsOne DEF Moves
    <3> QED
      BY <2>1, <3>1, <3>2, <3>4
  <2> QED
    BY <2>2, <2>3
<1>2. CASE role[l] # Leader
  <2>1. l = n /\ role[n] # Leader /\ \A k \in Node : ~ Won(k, currentTerm'[n])
    BY <1>2, WhoLeads
  <2>2. x \in Links
    BY <2>1, LinksGrow, ExtendLog
  <2> QED
    BY <2>1, <2>2 DEF Moves, LogInv, LinkElected
<1> QED
  BY <1>1, <1>2

\* No log holds an entry of a term its owner has not reached.
LEMMA TermBoundStays ==
    ASSUME NEW n \in Node, Moves(n)
    PROVE  TermBound'
<1> SUFFICES ASSUME NEW c \in Node, NEW k \in DOMAIN log'[c]
             PROVE  log'[c][k].term <= currentTerm'[c]
  BY DEF TermBound
<1>1. /\ log[c] \in Seq(Entry) /\ log'[c] \in Seq(Entry) /\ currentTerm[c] \in Nat
      /\ currentTerm'[c] \in Nat
  BY NodeTypes, NodeTypesNext DEF Moves
<1>2. ASSUME k \in DOMAIN log[c], log'[c][k] = log[c][k]
      PROVE  log'[c][k].term <= currentTerm'[c]
  <2>1. log[c][k].term <= currentTerm[c] /\ log[c][k].term \in Nat
    BY <1>1, <1>2, EntryFields DEF Moves, LogInv, TermBound
  <2>2. currentTerm[c] <= currentTerm'[c]
    BY <1>1, TermsGrow
  <2> QED
    BY <1>1, <1>2, <2>1, <2>2
<1>3. CASE log'[c] = log[c]
  BY <1>2, <1>3
<1>4. CASE c = n /\ Extend(n)
  <2>1. /\ Len(log'[n]) = Len(log[n]) + 1 /\ currentTerm'[n] = currentTerm[n]
        /\ \A j \in DOMAIN log[n] : log'[n][j] = log[n][j]
        /\ log'[n][Len(log'[n])].term = currentTerm[n]
    BY <1>4, ExtendLog
  <2>2. k \in DOMAIN log[n] \/ k = Len(log'[n])
    BY <1>1, <1>4, <2>1
  <2> QED
    BY <1>1, <1>2, <1>4, <2>1, <2>2
<1>5. CASE \E m \in msgs : c = n /\ Accept(n, m)
  <2>1. PICK m \in msgs : c = n /\ Accept(n, m)
    BY <1>5
  <2>2. IsAppend(m) /\ Merge(log[n], m, log'[n]) /\ currentTerm'[n] = m.term
    BY <2>1 DEF Accept
  <2>3. m.prevLogIndex \in Nat /\ m.entries \in Seq(Entry)
    BY <2>2, AppendFields DEF Moves
  <2>4. \/ k \in DOMAIN log[n] /\ log'[n][k] = log[n][k]
        \/ \E i \in DOMAIN m.entries : log'[n][k] = m.entries[i]
    BY <1>1, <2>1, <2>2, <2>3, MergeHolds
  <2>5. \A i \in DOMAIN m.entries : m.entries[i].term <= m.term
    BY <2>2 DEF Moves, LogInv, RequestShape
  <2> QED
    BY <1>2, <2>1, <2>2, <2>4, <2>5
<1> QED
  BY <1>3, <1>4, <1>5, LogMoves

\* Leaders still are of terms they won.
LEMMA OfficesStay ==
    ASSUME NEW n \in Node, Moves(n)
    PROVE  Offices'
<1> SUFFICES ASSUME NEW c \in Node
             PROVE  /\ role'[c] # Follower => currentTerm'[c] >= 1
                    /\ role'[c] = Leader =>
                          \E e \in elected' : e.leader = c /\ e.term = currentTerm'[c]
  BY DEF Offices, Won
<1>1. role'[c] \in {Follower, Candidate, Leader} /\ currentTerm[c] \in Nat
  BY NodeTypes, NodeTypesNext DEF Moves
<1>2. /\ role[c] # Follower => currentTerm[c] >= 1
      /\ role[c] = Leader => Won(c, currentTerm[c])
  BY DEF Moves, LogInv, Offices
<1>3. CASE role'[c] = Leader
  <2>1. CASE role[c] = Leader
    <3>1. currentTerm'[c] = currentTerm[c] /\ Won(c, currentTerm[c]) /\ elected \subseteq elected'
      BY <1>2, <1>3, <2>1, WhoLeads, TermsGrow
    <3> QED
      BY <1>2, <2>1, <3>1 DEF Won, Leader, Follower
  <2>2. CASE role[c] # Leader
    <3>1. /\ c = n /\ \E e \in elected' : e.leader = n /\ e.term = currentTerm'[n]
          /\ Campaign(n) \/ \E m \in msgs : Tally(n, m)
      BY <1>3, <2>2, WhoLeads
    <3>2. currentTerm'[n] >= 1
      BY <1>1, <1>2, <3>1 DEF Campaign, Tally, Candidate, Follower
    <3> QED
      BY <3>1, <3>2 DEF Won
  <2> QED
    BY <2>1, <2>2
<1>4. CASE role'[c] = Candidate
  BY <1>1, <1>2, <1>4, WhoCampaigns DEF Candidate, Follower, Leader
<1> QED
  BY <1>1, <1>3, <1>4

\* Nobody comes to campaign in a term it has won.
LEMMA ElectedPastStays ==
    ASSUME NEW n \in Node, Moves(n)
    PROVE  ElectedPast'
<1> SUFFICES ASSUME NEW e \in elected'
             PROVE  /\ e.term <= currentTerm'[e.leader]
                    /\ e.term = currentTerm'[e.leader] => role'[e.leader] # Candidate
  BY DEF ElectedPast
<1>1. CASE e \in elected
  <2>1. e.leader \in Node /\ e.term \in Nat
    BY <1>1 DEF Moves, TypeInv, TypeOK
  <2>2. /\ currentTerm[e.leader] \in Nat /\ currentTerm'[e.leader] \in Nat
        /\ currentTerm'[e.leader] >= currentTerm[e.leader]
    BY <2>1, TermsGrow, NodeTypes, NodeTypesNext DEF Moves
  <2>3. /\ e.term <= currentTerm[e.leader]
        /\ e.term = currentTerm[e.leader] => role[e.leader] # Candidate
    BY <1>1 DEF Moves, LogInv, ElectedPast
  <2>4. role'[e.leader] = Candidate =>
           \/ role[e.leader] = Candidate /\ currentTerm'[e.leader] = currentTerm[e.leader]
           \/ currentTerm'[e.leader] = currentTerm[e.leader] + 1
    BY <2>1, WhoCampaigns
  <2> QED
    BY <2>1, <2>2, <2>3, <2>4
<1>2. CASE e \notin elected
  <2>1. e.leader = n /\ e.term = currentTerm'[n] /\ role'[n] = Leader
    BY <1>2, TermsGrow
  <2>2. currentTerm'[n] \in Nat
    BY NodeTypesNext DEF Moves
  <2> QED
    BY <2>1, <2>2 DEF Leader, Candidate
<1> QED
  BY <1>1, <1>2

\* Where a request ends in a log it is a part of.
LEMMA WindowEnd ==
    ASSUME NEW m, m.prevLogIndex \in Nat, m.prevLogTerm \in Nat, m.entries \in Seq(Entry),
           NEW lg \in Seq(Entry), Window(m, lg), m.prevLogIndex = 0 => m.prevLogTerm = 0
    PROVE  /\ End(m) \in Nat /\ End(m) <= Len(lg)
           /\ End(m) = 0 => EndTerm(m) = 0
           /\ End(m) > 0 => End(m) \in DOMAIN lg /\ lg[End(m)].term = EndTerm(m)
           /\ End(m) = Len(lg) => EndTerm(m) = LastTerm(lg)
<1> DEFINE b == m.prevLogIndex
           es == m.entries
           z == Len(es)
<1>1. /\ Len(lg) \in Nat /\ DOMAIN lg = 1 .. Len(lg) /\ b \in Nat
      /\ z \in Nat /\ DOMAIN es = 1 .. z /\ End(m) = b + z /\ (es = <<>> <=> z = 0)
  BY EmptySeq DEF End
<1>2. End(m) <= Len(lg) /\ End(m) \in Nat
  BY <1>1 DEF Window
<1>3. CASE z = 0
  <2>1. EndTerm(m) = m.prevLogTerm /\ End(m) = b
    BY <1>1, <1>3 DEF EndTerm
  <2>2. b > 0 => lg[b].term = m.prevLogTerm
    BY DEF Window
  <2>3. /\ End(m) = 0 => EndTerm(m) = 0
        /\ End(m) > 0 => End(m) \in DOMAIN lg /\ lg[End(m)].term = EndTerm(m)
    BY <1>1, <1>2, <2>1, <2>2
  <2>4. End(m) = Len(lg) => EndTerm(m) = LastTerm(lg)
    BY <1>2, <2>3, LogEnd
  <2> QED
    BY <1>2, <2>3, <2>4
<1>4. CASE z # 0
  <2>1. EndTerm(m) = es[z].term /\ z \in DOMAIN es /\ End(m) > 0
    BY <1>1, <1>4 DEF EndTerm
  <2>2. lg[b + z] = es[z]
    BY <2>1 DEF Window
  <2>3. End(m) \in DOMAIN lg /\ lg[End(m)].term = EndTerm(m)
    BY <1>1, <1>2, <2>1, <2>2
  <2>4. End(m) = Len(lg) => EndTerm(m) = LastTerm(lg)
    BY <1>2, <2>1, <2>3, LogEnd
  <2> QED
    BY <1>2, <2>1, <2>3, <2>4
<1> QED
  BY <1>3, <1>4

\* A leader with an entry of its term has one at the end.
LEMMA LeaderEnds ==
    ASSUME NEW n \in Node, Moves(n), role'[n] = Leader, NEW x \in Links',
           x.entry.term = currentTerm'[n]
    PROVE  LastTerm(log'[n]) = currentTerm'[n]
<1>1. /\ log'[n] \in Seq(Entry) /\ Len(log'[n]) \in Nat /\ DOMAIN log'[n] = 1 .. Len(log'[n])
      /\ currentTerm'[n] \in Nat
  BY NodeTypesNext DEF Moves
<1>2. x.index \in DOMAIN log'[n] /\ log'[n][x.index].term = currentTerm'[n]
  BY LeaderHoldsStays DEF LeaderHolds, Has
<1>3. x.index \in Nat /\ x.index <= Len(log'[n]) /\ Len(log'[n]) # 0
  BY <1>1, <1>2
<1>4. /\ Len(log'[n]) \in DOMAIN log'[n] /\ log'[n][Len(log'[n])].term = LastTerm(log'[n])
      /\ LastTerm(log'[n]) \in Nat
  BY <1>1, <1>3, LogEnd
<1>5. log'[n][x.index].term <= log'[n][Len(log'[n])].term
  <2> DEFINE j == Len(log'[n])
             i == x.index
             lg == log'[n]
             L == Links'
  <2>1. lg \in Seq(Entry) /\ i \in DOMAIN lg /\ j \in DOMAIN lg /\ i <= j
    BY <1>1, <1>2, <1>3, <1>4
  <2>2. LinkShape(L) /\ LogLinks(lg) \subseteq L
    BY LinksIn, LinkShapeStays
  <2> HIDE DEF i, j, lg, L
  <2>3. lg[i].term <= lg[j].term
    BY <2>1, <2>2, ChainMono
  <2> QED
    BY <2>3 DEF i, j, lg
<1>6. log'[n][Len(log'[n])].term <= currentTerm'[n]
  BY <1>4, TermBoundStays DEF TermBound
<1> QED
  BY <1>1, <1>2, <1>4, <1>5, <1>6

\* A request still comes from the leader of its term.
LEMMA RequestShapeStays ==
    ASSUME NEW n \in Node, Moves(n)
    PROVE  RequestShape'
<1> SUFFICES ASSUME NEW m \in msgs', IsAppend(m)
             PROVE  /\ Won(m.from, m.term)'
                    /\ m.prevLogIndex = 0 => m.prevLogTerm = 0
                    /\ EndTerm(m) <= m.term
                    /\ \A k \in DOMAIN m.entries : m.entries[k].term <= m.term
                    /\ \A x \in Links' :
                          x.entry.term = m.term /\ x.prev < m.term /\ EndTerm(m) < m.term =>
                              x.index = End(m) + 1 /\ x.prev = EndTerm(m)
  BY DEF RequestShape
<1>1. CASE m \in msgs
  <2>1. /\ Won(m.from, m.term)
        /\ m.prevLogIndex = 0 => m.prevLogTerm = 0
        /\ EndTerm(m) <= m.term
        /\ \A k \in DOMAIN m.entries : m.entries[k].term <= m.term
        /\ \A x \in Links :
              x.entry.term = m.term /\ x.prev < m.term /\ EndTerm(m) < m.term =>
                  x.index = End(m) + 1 /\ x.prev = EndTerm(m)
    BY <1>1 DEF Moves, LogInv, RequestShape
  <2>2. Won(m.from, m.term)'
    BY <2>1, TermsGrow DEF Won
  <2>3. ASSUME NEW x \in Links', x \notin Links, x.entry.term = m.term, x.prev < m.term
        PROVE  x.index = End(m) + 1 /\ x.prev = EndTerm(m)
    <3>1. /\ Extend(n) /\ x.index = Len(log'[n]) /\ x.prev = LastTerm(log[n])
          /\ x.entry.term = currentTerm[n]
      BY <2>3, LinksGrow
    <3>2. role[n] = Leader /\ Len(log'[n]) = Len(log[n]) + 1
      BY <3>1, ExtendLog
    <3>3. Won(n, currentTerm[n])
      BY <3>2 DEF Moves, LogInv, Offices
    <3>4. m.from = n
      BY <2>1, <2>3, <3>1, <3>3, WinnerIsOne DEF Moves
    <3>5. Window(m, log[n]) /\ End(m) = Len(log[n])
      BY <1>1, <2>3, <3>1, <3>2, <3>4 DEF Moves, LogInv, RequestWindow
    <3>6. /\ m.prevLogIndex \in Nat /\ m.prevLogTerm \in Nat /\ m.entries \in Seq(Entry)
          /\ log[n] \in Seq(Entry)
      BY <1>1, AppendFields, NodeTypes DEF Moves
    <3>7. EndTerm(m) = LastTerm(log[n])
      BY <2>1, <3>5, <3>6, WindowEnd
    <3> QED
      BY <3>1, <3>2, <3>5, <3>7
  <2> QED
    BY <2>1, <2>2, <2>3
<1>2. CASE m \notin msgs
  <2>1. Sent(n, m)
    BY <1>2, NewMessages DEF Harmless, Granted, IsAck, IsAppend
  <2>2. /\ role'[n] = Leader /\ m.from = n /\ m.term = currentTerm'[n]
        /\ m.prevLogIndex = 0 => m.prevLogTerm = 0
        /\ m.prevLogIndex \in Nat /\ m.entries \in Seq(Entry)
        /\ Window(m, log'[n]) /\ End(m) = Len(log'[n]) /\ EndTerm(m) = LastTerm(log'[n])
    BY <2>1, SentWindow
  <2>3. /\ log'[n] \in Seq(Entry) /\ currentTerm'[n] \in Nat /\ DOMAIN log'[n] = 1 .. Len(log'[n])
        /\ Len(log'[n]) \in Nat
    BY NodeTypesNext DEF Moves
  <2>4. Won(m.from, m.term)'
    BY <2>2, OfficesStay DEF Offices, Won
  <2>5. \A k \in DOMAIN log'[n] : log'[n][k].term <= currentTerm'[n]
    BY TermBoundStays DEF TermBound
  <2>6. EndTerm(m) <= m.term
    <3>1. CASE Len(log'[n]) = 0
      BY <2>2, <2>3, <3>1, LogEnd
    <3>2. CASE Len(log'[n]) # 0
      BY <2>2, <2>3, <2>5, <3>2, LogEnd
    <3> QED
      BY <3>1, <3>2
  <2>7. ASSUME NEW k \in DOMAIN m.entries PROVE m.entries[k].term <= m.term
    <3>1. m.prevLogIndex + k \in DOMAIN log'[n]
      BY <2>2, <2>3 DEF Window, End
    <3>2. log'[n][m.prevLogIndex + k] = m.entries[k]
      BY <2>2 DEF Window
    <3> QED
      BY <2>2, <2>5, <3>1, <3>2
  <2>8. ASSUME NEW x \in Links', x.entry.term = m.term, EndTerm(m) < m.term
        PROVE  FALSE
    BY <2>2, <2>3, <2>8, LeaderEnds
  <2> QED
    BY <2>2, <2>4, <2>6, <2>7, <2>8
<1> QED
  BY <1>1, <1>2

\* A sitting leader's requests still are parts of its log.
LEMMA RequestWindowStays ==
    ASSUME NEW n \in Node, Moves(n)
    PROVE  RequestWindow'
<1> SUFFICES ASSUME NEW m \in msgs', IsAppend(m), role'[m.from] = Leader,
                    m.term = currentTerm'[m.from]
             PROVE  /\ Window(m, log'[m.from])
                    /\ LastTerm(log'[m.from]) < m.term => End(m) = Len(log'[m.from])
  BY DEF RequestWindow, Window
<1>1. CASE m \in msgs
  <2> DEFINE l == m.from
  <2>1. l \in Node /\ m.prevLogIndex \in Nat /\ m.entries \in Seq(Entry) /\ m.term \in Nat
    BY <1>1, AppendFields DEF Moves
  <2>2. Won(l, m.term)
    BY <1>1 DEF Moves, LogInv, RequestShape
  <2>3. role[l] = Leader /\ currentTerm'[l] = currentTerm[l]
    BY <2>1, <2>2, WhoLeads
  <2>4. Window(m, log[l]) /\ (LastTerm(log[l]) < m.term => End(m) = Len(log[l]))
    BY <1>1, <2>3 DEF Moves, LogInv, RequestWindow
  <2> HIDE DEF l
  <2>5. /\ log'[l] = log[l] \/ (l = n /\ Extend(n))
        /\ Len(log[l]) <= Len(log'[l])
        /\ \A k \in DOMAIN log[l] : log'[l][k] = log[l][k]
    BY <2>1, <2>3, LeaderKeeps DEF l
  <2>6. /\ Len(log[l]) \in Nat /\ DOMAIN log[l] = 1 .. Len(log[l]) /\ Len(log'[l]) \in Nat
    BY <2>1, NodeTypes, NodeTypesNext DEF Moves
  <2>7. /\ m.prevLogIndex > 0 => m.prevLogIndex \in DOMAIN log[l]
        /\ \A k \in DOMAIN m.entries : m.prevLogIndex + k \in DOMAIN log[l]
        /\ End(m) \in Nat /\ End(m) <= Len(log[l])
    <3> DEFINE b == m.prevLogIndex
               z == Len(m.entries)
               N == Len(log[l])
    <3>1. /\ b \in Nat /\ z \in Nat /\ N \in Nat /\ DOMAIN m.entries = 1 .. z
          /\ DOMAIN log[l] = 1 .. N /\ End(m) = b + z /\ b + z <= N
      BY <2>1, <2>4, <2>6 DEF Window, End
    <3> HIDE DEF b, z, N
    <3>2. /\ b > 0 => b \in 1 .. N
          /\ \A k \in 1 .. z : b + k \in 1 .. N
          /\ b + z \in Nat
      BY <3>1
    <3>3. /\ b > 0 => b \in DOMAIN log[l]
          /\ \A k \in DOMAIN m.entries : b + k \in DOMAIN log[l]
          /\ End(m) \in Nat /\ End(m) <= N
      BY <3>1, <3>2
    <3> QED
      BY <3>3 DEF b, N
  <2>8. Window(m, log'[l])
    BY <2>4, <2>5, <2>6, <2>7 DEF Window
  <2>9. LastTerm(log'[l]) < m.term => End(m) = Len(log'[l])
    <3>1. CASE log'[l] = log[l]
      BY <2>4, <3>1
    <3>2. CASE l = n /\ Extend(n)
      <4>1. LastTerm(log'[n]) = currentTerm[n]
        BY <3>2, ExtendLog
      <4> QED
        BY <2>1, <2>3, <3>2, <4>1 DEF l
    <3> QED
      BY <2>5, <3>1, <3>2
  <2> QED
    BY <2>8, <2>9 DEF l
<1>2. CASE m \notin msgs
  <2>1. Sent(n, m)
    BY <1>2, NewMessages DEF Harmless, Granted, IsAck, IsAppend
  <2> QED
    BY <2>1, SentWindow
<1> QED
  BY <1>1, <1>2

\* An acknowledgement still is for the leader of its term.
LEMMA AckShapeStays ==
    ASSUME NEW n \in Node, Moves(n)
    PROVE  AckShape'
<1> SUFFICES ASSUME NEW m \in msgs', IsAck(m)
             PROVE  Won(m.to, m.term)' /\ m.term <= currentTerm'[m.from]
  BY DEF AckShape
<1>1. CASE m \in msgs
  <2>1. m.from \in Node /\ m.term \in Nat
    BY <1>1, MessageFields DEF Moves, TypeInv, TypeOK
  <2>2. Won(m.to, m.term) /\ m.term <= currentTerm[m.from]
    BY <1>1 DEF Moves, LogInv, AckShape
  <2>3. /\ currentTerm[m.from] \in Nat /\ currentTerm'[m.from] \in Nat
        /\ currentTerm'[m.from] >= currentTerm[m.from] /\ elected \subseteq elected'
    BY <2>1, TermsGrow, NodeTypes, NodeTypesNext DEF Moves
  <2> QED
    BY <2>1, <2>2, <2>3 DEF Won
<1>2. CASE m \notin msgs
  <2>1. PICK a \in msgs : Accept(n, a) /\ m.from = n /\ m.to = a.from /\ m.term = a.term
    BY <1>2, NewMessages, SentWindow DEF Harmless, Granted, IsAck, IsAppend
  <2>2. IsAppend(a) /\ currentTerm'[n] = a.term
    BY <2>1 DEF Accept
  <2>3. Won(a.from, a.term)
    BY <2>2 DEF Moves, LogInv, RequestShape
  <2>4. currentTerm'[n] \in Nat /\ elected \subseteq elected'
    BY TermsGrow, NodeTypesNext DEF Moves
  <2> QED
    BY <2>1, <2>2, <2>3, <2>4 DEF Won
<1> QED
  BY <1>1, <1>2

\* Votes still are asked for by candidates of that term or a past one.
LEMMA VotePastStays ==
    ASSUME NEW n \in Node, Moves(n)
    PROVE  VotePast'
<1>0. ASSUME NEW c \in Node
      PROVE  /\ currentTerm[c] \in Nat /\ currentTerm'[c] \in Nat
             /\ currentTerm'[c] >= currentTerm[c]
  BY TermsGrow, NodeTypes, NodeTypesNext DEF Moves
<1>1. ASSUME NEW m \in msgs', Granted(m) PROVE m.term <= currentTerm'[m.to]
  <2>1. m.to \in Node /\ m.term \in Nat
    BY MessageFields DEF Moves, TypeInv, TypeOK
  <2>2. m.term <= currentTerm[m.to]
    <3>1. CASE m \in msgs
      BY <1>1, <3>1 DEF Moves, LogInv, VotePast
    <3>2. CASE m \notin msgs
      <4>1. PICK q \in msgs : Grant(n, q) /\ m.to = q.from /\ m.term = q.term
        BY <1>1, <3>2, NewMessages, SentWindow DEF Harmless, Granted, IsAck, IsAppend
      <4> QED
        BY <4>1 DEF Moves, LogInv, VotePast, Grant
    <3> QED
      BY <3>1, <3>2
  <2> QED
    BY <1>0, <2>1, <2>2
<1>2. ASSUME NEW m \in msgs', m.type = "RequestVote"
      PROVE  /\ m.term <= currentTerm'[m.from]
             /\ role'[m.from] = Candidate /\ currentTerm'[m.from] = m.term =>
                   m.lastLogIndex = Len(log'[m.from]) /\ m.lastLogTerm = LastTerm(log'[m.from])
  <2>1. m.from \in Node /\ m.term \in Nat
    BY MessageFields DEF Moves, TypeInv, TypeOK
  <2>2. CASE m \in msgs
    <3>1. /\ m.term <= currentTerm[m.from]
          /\ role[m.from] = Candidate /\ currentTerm[m.from] = m.term =>
                m.lastLogIndex = Len(log[m.from]) /\ m.lastLogTerm = LastTerm(log[m.from])
      BY <1>2, <2>2 DEF Moves, LogInv, VotePast
    <3>2. role'[m.from] = Candidate =>
             /\ log'[m.from] = log[m.from]
             /\ \/ role[m.from] = Candidate /\ currentTerm'[m.from] = currentTerm[m.from]
                \/ currentTerm'[m.from] = currentTerm[m.from] + 1
      BY <2>1, WhoCampaigns
    <3>3. m.term <= currentTerm'[m.from]
      BY <1>0, <2>1, <3>1
    <3>4. ASSUME role'[m.from] = Candidate, currentTerm'[m.from] = m.term
          PROVE  m.lastLogIndex = Len(log'[m.from]) /\ m.lastLogTerm = LastTerm(log'[m.from])
      <4>1. currentTerm'[m.from] # currentTerm[m.from] + 1
        BY <1>0, <2>1, <3>1, <3>4
      <4> QED
        BY <3>1, <3>2, <3>4, <4>1
    <3> QED
      BY <3>3, <3>4
  <2>3. CASE m \notin msgs
    <3>1. /\ Campaign(n) /\ m.from = n /\ m.term = currentTerm'[n]
          /\ m.lastLogIndex = Len(log[n]) /\ m.lastLogTerm = LastTerm(log[n])
      BY <1>2, <2>3, NewMessages, SentWindow DEF Harmless, Granted, IsAck, IsAppend
    <3>2. log'[n] = log[n]
      BY <3>1 DEF Campaign
    <3> QED
      BY <1>0, <3>1, <3>2
  <2> QED
    BY <2>2, <2>3
<1> QED
  BY <1>1, <1>2 DEF VotePast

\* What a request merged in the term of a sitting leader leaves in place: every
\* entry on which the two agreed.
LEMMA AcceptKeeps ==
    ASSUME NEW n \in Node, Moves(n), NEW a \in msgs, Accept(n, a),
           NEW l \in Node, role[l] = Leader, a.term = currentTerm[l],
           NEW i \in Nat, i \in DOMAIN log[l], Has(n, i, log[l][i].term)
    PROVE  i \in DOMAIN log'[n] /\ log'[n][i].term = log[l][i].term
<1>1. IsAppend(a) /\ Merge(log[n], a, log'[n])
  BY DEF Accept
<1>2. Won(a.from, a.term) /\ Won(l, a.term)
  BY <1>1 DEF Moves, LogInv, RequestShape, Offices
<1>3. a.from = l
  BY <1>2, WinnerIsOne DEF Moves
<1>4. Window(a, log[l])
  BY <1>1, <1>3 DEF Moves, LogInv, RequestWindow
<1>5. /\ log[n] \in Seq(Entry) /\ Len(log[n]) \in Nat /\ DOMAIN log[n] = 1 .. Len(log[n])
      /\ log'[n] \in Seq(Entry) /\ Len(log'[n]) \in Nat /\ DOMAIN log'[n] = 1 .. Len(log'[n])
      /\ log[l] \in Seq(Entry) /\ Len(log[l]) \in Nat /\ DOMAIN log[l] = 1 .. Len(log[l])
  BY NodeTypes, NodeTypesNext DEF Moves
<1>6. i \in DOMAIN log[n] /\ log[n][i].term = log[l][i].term /\ i >= 1
  BY <1>5 DEF Has
<1>7. a.prevLogIndex \in Nat /\ a.entries \in Seq(Entry) /\ End(a) \in Nat
  BY <1>1, AppendFields DEF Moves
<1>8. /\ LinkUnique(Links) /\ LogLinks(log[n]) \subseteq Links /\ LogLinks(log[l]) \subseteq Links
      /\ LogLinks(log'[n]) \subseteq Links
  <2>1. role'[n] = Follower
    BY AcceptorFollows
  <2>2. ~ Extend(n)
    BY <2>1 DEF Extend, Leads, Follower, Leader
  <2> QED
    BY <2>2, LinksIn, LinksGrow DEF Moves, LogInv, LinkInv
<1>9. CASE log'[n] = log[n]
  BY <1>6, <1>9
<1>10. CASE log'[n] # log[n]
  <2> DEFINE b == a.prevLogIndex
             es == a.entries
  <2>1. PICK cut \in Nat : /\ cut < End(a) /\ cut <= Len(log[n]) /\ Len(log'[n]) = End(a)
                           /\ cut >= b
                           /\ \A k \in 1 .. cut : log'[n][k] = log[n][k]
                           /\ \A k \in (cut + 1) .. End(a) : log'[n][k] = es[k - b]
                           /\ \A k \in (cut + 1) .. End(a) :
                                 k \in DOMAIN log[n] => log[n][k].term # log'[n][k].term
    <3> DEFINE lg == log[n]
               new == log'[n]
               L == Links
    <3>1. /\ lg \in Seq(Entry) /\ new \in Seq(Entry) /\ Merge(lg, a, new) /\ LinkUnique(L)
          /\ LogLinks(lg) \subseteq L /\ LogLinks(new) \subseteq L /\ new # lg
      BY <1>1, <1>5, <1>8, <1>10
    <3> HIDE DEF lg, new, L
    <3>2. \E cut \in Nat : Cuts(a, lg, new, cut)
      BY <1>7, <3>1, MergeCases
    <3>3. PICK cut \in Nat : Cuts(a, lg, new, cut)
      BY <3>2
    <3> QED
      BY <3>3 DEF lg, new, Cuts
  <2>2. ASSUME NEW k \in Nat, k > cut, k <= End(a)
        PROVE  log'[n][k] = log[l][k] /\ k \in DOMAIN log'[n]
    <3> DEFINE e == k - b
    <3>1. Len(es) \in Nat /\ DOMAIN es = 1 .. Len(es) /\ End(a) = b + Len(es) /\ b \in Nat
      BY <1>7 DEF End
    <3>2. k >= 1 /\ e \in 1 .. Len(es) /\ b + e = k /\ k \in (cut + 1) .. End(a)
      BY <2>1, <2>2, <3>1
    <3>3. log'[n][k] = es[e]
      BY <2>1, <3>2
    <3> HIDE DEF e
    <3>4. log[l][b + e] = es[e]
      BY <1>4, <3>1, <3>2 DEF Window
    <3>5. k \in DOMAIN log'[n]
      BY <1>5, <2>1, <2>2, <3>2
    <3> QED
      BY <3>2, <3>3, <3>4, <3>5
  <2>3. CASE i <= cut
    <3>1. i \in 1 .. cut /\ i <= Len(log'[n])
      BY <1>6, <1>7, <2>1, <2>3
    <3>2. log'[n][i] = log[n][i]
      BY <2>1, <3>1
    <3> QED
      BY <1>5, <1>6, <3>1, <3>2
  <2>4. CASE i > cut /\ i <= End(a)
    BY <2>2, <2>4
  <2>5. CASE i > End(a)
    <3> DEFINE z == End(a)
    <3>1. z \in Nat /\ z > cut /\ z <= z /\ z \in 1 .. i /\ z \in (cut + 1) .. z /\ z \in DOMAIN log[n]
      BY <1>5, <1>6, <1>7, <2>1, <2>5
    <3>2. log'[n][z] = log[l][z]
      BY <2>2, <3>1
    <3>3. \A j \in 1 .. i : log[n][j] = log[l][j]
      <4> DEFINE f == log[n]
                 g == log[l]
                 L == Links
      <4>1. /\ LinkUnique(L) /\ f \in Seq(Entry) /\ g \in Seq(Entry) /\ LogLinks(f) \subseteq L
            /\ LogLinks(g) \subseteq L /\ i \in DOMAIN f /\ i \in DOMAIN g /\ f[i].term = g[i].term
        BY <1>5, <1>6, <1>8
      <4> HIDE DEF f, g, L
      <4>2. \A j \in 1 .. i : f[j] = g[j]
        BY <4>1, ChainAgree
      <4> QED
        BY <4>2 DEF f, g
    <3>4. log[n][z].term # log'[n][z].term
      BY <2>1, <3>1
    <3>5. log[n][z] = log[l][z]
      BY <3>1, <3>3
    <3> QED
      BY <3>2, <3>4, <3>5
  <2> QED
    BY <1>7, <2>1, <2>3, <2>4, <2>5
<1> QED
  BY <1>9, <1>10

\* What is acknowledged after a step was acknowledged before, or is what the node
\* has just merged.
LEMMA AcksWere ==
    ASSUME NEW n \in Node, Moves(n), NEW l \in Node, NEW p \in Node, NEW i \in Nat, i # 0,
           role'[l] = Leader, Acks(p, l, i)'
    PROVE  /\ role[l] = Leader /\ currentTerm'[l] = currentTerm[l]
           /\ \/ Acks(p, l, i)
              \/ \E a \in msgs : /\ Accept(n, a) /\ p = n /\ a.from = l
                                  /\ a.term = currentTerm[l] /\ i = End(a)
<1>1. Acts(n) /\ \A c \in Node \ {n} : Same(c)
  BY DEF Moves, PlainBy
<1>2. CASE matchIndex'[l][p] = i
  <2>1. role[l] = Leader /\ currentTerm'[l] = currentTerm[l]
    BY <1>2, WhoLeads
  <2>2. CASE l # n
    BY <1>1, <1>2, <2>1, <2>2 DEF Same, Acks
  <2>3. CASE l = n
    <3>1. CASE Calm(n) \/ \E m \in msgs : Grant(n, m)
      BY <1>2, <2>1, <2>3, <3>1 DEF Calm, Grant, Eases, Acks
    <3>2. CASE Campaign(n) \/ \E m \in msgs : Tally(n, m)
      BY <2>1, <2>3, <3>2 DEF Campaign, Tally, Candidate, Leader
    <3>3. CASE Extend(n)
      BY <1>2, <2>1, <2>3, <3>3 DEF Extend, Acks
    <3>4. CASE \E m \in msgs : Ack(n, m)
      BY <1>2, <2>1, <2>3, <3>4 DEF Ack, Acks
    <3>5. CASE \E m \in msgs : Accept(n, m)
      BY <2>3, <3>5, AcceptorFollows DEF Follower, Leader
    <3> QED
      BY <1>1, <3>1, <3>2, <3>3, <3>4, <3>5 DEF Acts
  <2> QED
    BY <2>2, <2>3
<1>3. CASE \E m \in msgs' : /\ IsAck(m) /\ m.from = p /\ m.to = l /\ m.term = currentTerm'[l]
                            /\ m.matchIndex = i
  <2>1. PICK m \in msgs' : /\ IsAck(m) /\ m.from = p /\ m.to = l /\ m.term = currentTerm'[l]
                           /\ m.matchIndex = i
    BY <1>3
  <2>2. CASE m \in msgs
    <3>1. Won(l, currentTerm'[l])
      BY <2>1, <2>2 DEF Moves, LogInv, AckShape
    <3>2. role[l] = Leader /\ currentTerm'[l] = currentTerm[l]
      BY <3>1, WhoLeads
    <3> QED
      BY <2>1, <2>2, <3>2 DEF Acks
  <2>3. CASE m \notin msgs
    <3>1. PICK a \in msgs : /\ Accept(n, a) /\ m.from = n /\ m.to = a.from
                            /\ m.term = a.term /\ m.matchIndex = End(a)
      BY <2>1, <2>3, NewMessages, SentWindow DEF Harmless, Granted, IsAck, IsAppend
    <3>2. l # n
      BY <3>1, AcceptorFollows DEF Follower, Leader
    <3>3. role[l] = Leader /\ currentTerm'[l] = currentTerm[l]
      BY <3>2, WhoLeads
    <3> QED
      BY <2>1, <3>1, <3>3
  <2> QED
    BY <2>2, <2>3
<1> QED
  BY <1>2, <1>3 DEF Acks

\* While its term lasts, a node still holds what it told the leader.
LEMMA AckSoundStays ==
    ASSUME NEW n \in Node, Moves(n)
    PROVE  AckSound'
<1> SUFFICES ASSUME NEW l \in Node, NEW p \in Node, NEW i \in Nat, i # 0, role'[l] = Leader,
                    Acks(p, l, i)'
             PROVE  /\ i <= Len(log'[l]) /\ currentTerm'[p] >= currentTerm'[l]
                    /\ currentTerm'[p] = currentTerm'[l] =>
                          i \in DOMAIN log'[p] /\ log'[p][i].term = log'[l][i].term
  BY DEF AckSound, Has
<1>0. /\ Len(log[l]) \in Nat /\ DOMAIN log[l] = 1 .. Len(log[l]) /\ Len(log'[l]) \in Nat
      /\ currentTerm[l] \in Nat /\ currentTerm[p] \in Nat /\ currentTerm'[p] \in Nat
      /\ log[l] \in Seq(Entry) /\ currentTerm'[p] >= currentTerm[p]
  BY TermsGrow, NodeTypes, NodeTypesNext DEF Moves
<1>1. role[l] = Leader /\ currentTerm'[l] = currentTerm[l]
  BY AcksWere
<1>2. /\ log'[l] = log[l] \/ (l = n /\ Extend(n))
      /\ Len(log[l]) <= Len(log'[l])
      /\ \A k \in DOMAIN log[l] : log'[l][k] = log[l][k]
  BY <1>1, LeaderKeeps
<1>3. CASE Acks(p, l, i)
  <2>1. /\ i <= Len(log[l]) /\ currentTerm[p] >= currentTerm[l]
        /\ currentTerm[p] = currentTerm[l] => Has(p, i, log[l][i].term)
    BY <1>1, <1>3 DEF Moves, LogInv, AckSound
  <2>2. i <= Len(log'[l]) /\ currentTerm'[p] >= currentTerm'[l] /\ i \in DOMAIN log[l]
        /\ log'[l][i] = log[l][i]
    BY <1>0, <1>1, <1>2, <2>1
  <2>3. ASSUME currentTerm'[p] = currentTerm'[l]
        PROVE  i \in DOMAIN log'[p] /\ log'[p][i].term = log'[l][i].term
    <3>1. Has(p, i, log[l][i].term)
      BY <1>0, <1>1, <2>1, <2>3
    <3>2. CASE log'[p] = log[p]
      BY <2>2, <3>1, <3>2 DEF Has
    <3>3. CASE p = n /\ Extend(n)
      <4>1. DOMAIN log[n] \subseteq DOMAIN log'[n] /\ \A k \in DOMAIN log[n] : log'[n][k] = log[n][k]
        BY <3>3, ExtendLog
      <4> QED
        BY <2>2, <3>1, <3>3, <4>1 DEF Has
    <3>4. CASE \E a \in msgs : p = n /\ Accept(n, a)
      <4>1. PICK a \in msgs : p = n /\ Accept(n, a)
        BY <3>4
      <4>2. a.term = currentTerm[l]
        BY <1>1, <2>3, <4>1 DEF Accept
      <4>3. i \in DOMAIN log'[n] /\ log'[n][i].term = log[l][i].term
        BY <1>1, <2>2, <3>1, <4>1, <4>2, AcceptKeeps
      <4> QED
        BY <2>2, <4>1, <4>3
    <3> QED
      BY <3>2, <3>3, <3>4, LogMoves
  <2> QED
    BY <2>2, <2>3
<1>4. CASE \E a \in msgs : /\ Accept(n, a) /\ p = n /\ a.from = l
                           /\ a.term = currentTerm[l] /\ i = End(a)
  <2>1. PICK a \in msgs : /\ Accept(n, a) /\ p = n /\ a.from = l
                          /\ a.term = currentTerm[l] /\ i = End(a)
    BY <1>4
  <2>2. IsAppend(a) /\ Merge(log[n], a, log'[n]) /\ currentTerm'[n] = a.term
    BY <2>1 DEF Accept
  <2>3. Window(a, log[l]) /\ (a.prevLogIndex = 0 => a.prevLogTerm = 0)
    BY <1>1, <2>1, <2>2 DEF Moves, LogInv, RequestWindow, RequestShape
  <2>4. a.prevLogIndex \in Nat /\ a.prevLogTerm \in Nat /\ a.entries \in Seq(Entry)
    BY <2>2, AppendFields DEF Moves
  <2>5. log[n] \in Seq(Entry) /\ log'[n] \in Seq(Entry)
    BY NodeTypes, NodeTypesNext DEF Moves
  <2>6. i \in DOMAIN log'[n] /\ log'[n][i].term = EndTerm(a)
    BY <2>1, <2>2, <2>4, <2>5, MergeHolds
  <2>7. i <= Len(log[l]) /\ i \in DOMAIN log[l] /\ log[l][i].term = EndTerm(a)
    BY <1>0, <2>1, <2>3, <2>4, WindowEnd
  <2> QED
    BY <1>0, <1>1, <1>2, <2>1, <2>2, <2>6, <2>7
<1> QED
  BY <1>3, <1>4, AcksWere

-----------------------------------------------------------------------------
(* The invariant *)

\* Two leaders of one term would have been elected by the same voter.
LEMMA OneLeader == TypeInv /\ VoteInv /\ StaticInv => ElectionSafety
<1> SUFFICES ASSUME TypeInv, VoteInv, StaticInv, NEW e \in elected, NEW f \in elected,
                    e.term = f.term
             PROVE  e.leader = f.leader
  BY DEF ElectionSafety
<1>1. /\ e.votes \subseteq Bootstrap /\ Cardinality(e.votes) >= QuorumSize(Bootstrap)
      /\ f.votes \subseteq Bootstrap /\ Cardinality(f.votes) >= QuorumSize(Bootstrap)
  BY DEF StaticInv, StaticWin, HasQuorum, Genesis, Stable
<1>2. IsFiniteSet(Bootstrap)
  BY BootstrapAssumption, NodeAssumption, FS_Subset
<1>3. PICK v \in e.votes : v \in f.votes
  BY <1>1, <1>2, MajoritiesMeet
<1>4. v \in Node /\ e.leader \in Node /\ f.leader \in Node /\ e.term \in Nat
  BY <1>1, BootstrapAssumption DEF TypeInv, TypeOK
<1>5. Voted(v, e.leader, e.term) /\ Voted(v, f.leader, e.term)
  BY <1>3 DEF Voted
<1> QED
  BY <1>4, <1>5 DEF VoteInv, VotesAgree

\* A new cluster has nothing in its logs and nothing in flight.
LEMMA InitLog == Init => PlainState /\ LogInv
<1> SUFFICES ASSUME Init PROVE PlainState /\ LogInv
  OBVIOUS
<1>1. /\ \A n \in Node : /\ role[n] = Follower /\ currentTerm[n] = 0 /\ log[n] = <<>>
                         /\ snapshot[n].index = 0 /\ snapshot[n].term = 0
      /\ msgs = {} /\ elected = {}
  BY DEF Init, NoSnapshot
<1>2. Links = {}
  BY <1>1 DEF Links, LinksOf, LogLinks
<1>3. LinkInv /\ LinkElected /\ LeaderHolds /\ TermBound /\ ElectedPast
  BY <1>1, <1>2 DEF LinkInv, LinkShape, LinkUnique, FirstLow, LinkElected, LeaderHolds,
                    TermBound, ElectedPast
<1>4. Offices /\ RequestShape /\ RequestWindow /\ NextBound /\ AckShape /\ AckSound /\ VotePast
  BY <1>1 DEF Offices, RequestShape, RequestWindow, NextBound, AckShape, AckSound, VotePast,
              Follower, Leader
<1> QED
  BY <1>1, <1>3, <1>4 DEF PlainState, LogInv

\* A step of a node preserves it.
LEMMA LogStays ==
    ASSUME NEW n \in Node, Moves(n)
    PROVE  LogInv'
<1>1. LinkInv'
  BY LinkShapeStays, LinkUniqueStays, FirstLowStays DEF LinkInv
<1>2. LinkElected' /\ LeaderHolds' /\ TermBound' /\ Offices' /\ ElectedPast'
  BY LinkElectedStays, LeaderHoldsStays, TermBoundStays, OfficesStay, ElectedPastStays
<1>3. RequestShape' /\ RequestWindow' /\ NextBound' /\ AckShape' /\ AckSound' /\ VotePast'
  BY RequestShapeStays, RequestWindowStays, NextBoundStays, AckShapeStays, AckSoundStays,
     VotePastStays
<1> QED
  BY <1>1, <1>2, <1>3 DEF LogInv

\* The state a cluster of a fixed membership that does not compact keeps.
PlainInv == TypeInv /\ VoteInv /\ LockInv /\ StaticInv /\ PlainState /\ LogInv

\* Every step is the step of one node.
LEMMA PlainMoves ==
    ASSUME Plain
    PROVE  PlainInv /\ Next => \E n \in Node : Moves(n)
<1>0. Static
  BY DEF Plain
<1> SUFFICES ASSUME PlainInv, Next PROVE \E n \in Node : Moves(n)
  OBVIOUS
<1>1. TypeInv' /\ VoteInv' /\ StaticInv'
  BY <1>0, NextType, VoteInductive, StaticInductive DEF PlainInv
<1>2. ElectionSafety /\ ElectionSafety'
  <2>1. ElectionSafety
    BY OneLeader DEF PlainInv
  <2>2. TypeInv' /\ VoteInv' /\ StaticInv' => ElectionSafety'
    BY OneLeader, PTL
  <2> QED
    BY <1>1, <2>1, <2>2
<1>3. PICK n \in Node : PlainBy(n)
  BY <1>1, PlainSteps DEF PlainInv
<1>4. PlainState'
  BY <1>1, <1>3, PlainStays DEF PlainInv
<1> QED
  BY <1>1, <1>2, <1>3, <1>4 DEF Moves, PlainInv

\* Every step preserves it.
LEMMA PlainInductive ==
    ASSUME Plain
    PROVE  PlainInv /\ [Next]_vars => PlainInv'
<1>0. Static
  BY DEF Plain
<1>1. PlainInv /\ Next => \E n \in Node : Moves(n)
  BY PlainMoves
<1>2. PlainInv /\ Next => PlainInv'
  <2> SUFFICES ASSUME PlainInv, Next PROVE PlainInv'
    OBVIOUS
  <2>1. TypeInv' /\ VoteInv' /\ LockInv' /\ StaticInv'
    BY <1>0, NextType, VoteInductive, LockInductive, StaticInductive DEF PlainInv
  <2>2. PICK n \in Node : Moves(n)
    BY <1>1
  <2>3. PlainState' /\ LogInv'
    BY <2>2, LogStays DEF Moves
  <2> QED
    BY <2>1, <2>3 DEF PlainInv
<1>3. PlainInv /\ UNCHANGED vars => PlainInv'
  <2>1. PlainInv /\ UNCHANGED vars => TypeInv' /\ VoteInv' /\ LockInv' /\ StaticInv'
    BY <1>0, NextType, VoteInductive, LockInductive, StaticInductive DEF PlainInv
  <2>2. PlainState /\ UNCHANGED vars => PlainState'
    BY DEF PlainState, vars
  <2>3. LogInv /\ UNCHANGED vars => LogInv'
    BY DEF LogInv, LinkInv, LinkElected, LeaderHolds, TermBound, Offices, ElectedPast,
           RequestShape, RequestWindow, NextBound, AckShape, AckSound, VotePast, vars,
           Has, Won, Acks, Links, electionVars, leaderVars
  <2> QED
    BY <2>1, <2>2, <2>3 DEF PlainInv
<1> QED
  BY <1>2, <1>3

\* The invariant holds from the start.
LEMMA PlainAlways == ASSUME Plain PROVE Spec => []PlainInv
<1>1. Init => PlainInv
  BY InitType, InitVotes, InitLocked, InitStatic, InitLog DEF PlainInv, Plain
<1> QED
  BY <1>1, PlainInductive, PTL DEF Spec

-----------------------------------------------------------------------------
(* What follows *)

\* Reading a log that nobody compacts.
LEMMA PlainReads ==
    ASSUME TypeInv, PlainState, NEW n \in Node
    PROVE  /\ LastLogIndex(n) = Len(log[n]) /\ snapshot[n].index = 0
           /\ \A i \in 1 .. Len(log[n]) : TermAt(n, i) = log[n][i].term
           /\ \A i \in Nat : EntryAt(n, i) = log[n][i]
           /\ \A i \in Nat : Holds(n, i) <=> i \in 1 .. Len(log[n])
<1>1. /\ log[n] \in Seq(Entry) /\ Len(log[n]) \in Nat /\ DOMAIN log[n] = 1 .. Len(log[n])
      /\ snapshot[n].index = 0
  BY NodeTypes DEF PlainState
<1>2. LastLogIndex(n) = Len(log[n])
  BY <1>1 DEF LastLogIndex
<1>3. \A i \in 1 .. Len(log[n]) : TermAt(n, i) = log[n][i].term
  <2> SUFFICES ASSUME NEW i \in Nat, i \in 1 .. Len(log[n]) PROVE TermAt(n, i) = log[n][i].term
    BY <1>1
  <2>1. i - snapshot[n].index = i /\ i # 0 /\ i \in DOMAIN log[n]
    BY <1>1
  <2> QED
    BY <1>1, <2>1 DEF TermAt, TermIn
<1>4. \A i \in Nat : EntryAt(n, i) = log[n][i]
  <2> SUFFICES ASSUME NEW i \in Nat PROVE EntryAt(n, i) = log[n][i]
    OBVIOUS
  <2>1. i - snapshot[n].index = i
    BY <1>1
  <2> QED
    BY <2>1 DEF EntryAt
<1>5. \A i \in Nat : Holds(n, i) <=> i \in 1 .. Len(log[n])
  BY <1>1, <1>2 DEF Holds
<1> QED
  BY <1>1, <1>2, <1>3, <1>4, <1>5

\* The indices two such logs share.
LEMMA PlainShared ==
    ASSUME TypeInv, PlainState, NEW a \in Node, NEW b \in Node, NEW i \in Shared(a, b)
    PROVE  /\ i \in Nat /\ i >= 1 /\ i \in DOMAIN log[a] /\ i \in DOMAIN log[b]
           /\ TermAt(a, i) = log[a][i].term /\ TermAt(b, i) = log[b][i].term
           /\ EntryAt(a, i) = log[a][i] /\ EntryAt(b, i) = log[b][i]
<1>1. /\ Len(log[a]) \in Nat /\ DOMAIN log[a] = 1 .. Len(log[a])
      /\ Len(log[b]) \in Nat /\ DOMAIN log[b] = 1 .. Len(log[b])
  BY NodeTypes
<1>2. LastLogIndex(a) = Len(log[a]) /\ snapshot[a].index = 0
  BY PlainReads
<1>3. i \in 1 .. Len(log[a]) /\ Holds(b, i) /\ i \in Nat
  BY <1>1, <1>2 DEF Shared
<1> QED
  BY <1>1, <1>3, PlainReads

\* In a cluster whose voters are never changed and whose owners do not compact,
\* two logs with the same term at an index are the same up to it: on_append_entries
\* merges only after an entry both hold, and drops what conflicts.
THEOREM LogsMatch == ASSUME Plain PROVE Spec => []LogMatching
<1>1. PlainInv => LogMatching
  <2> SUFFICES ASSUME PlainInv, NEW a \in Node, NEW b \in Node, NEW i \in Shared(a, b),
                      TermAt(a, i) = TermAt(b, i), NEW j \in Shared(a, b), j <= i
               PROVE  EntryAt(a, j) = EntryAt(b, j)
    BY DEF LogMatching
  <2>1. TypeInv /\ PlainState /\ LinkUnique(Links)
    BY DEF PlainInv, LogInv, LinkInv
  <2>2. /\ i \in Nat /\ i >= 1 /\ i \in DOMAIN log[a] /\ i \in DOMAIN log[b]
        /\ TermAt(a, i) = log[a][i].term /\ TermAt(b, i) = log[b][i].term
    BY <2>1, PlainShared
  <2>3. j \in Nat /\ j >= 1 /\ EntryAt(a, j) = log[a][j] /\ EntryAt(b, j) = log[b][j]
    BY <2>1, PlainShared
  <2>4. log[a] \in Seq(Entry) /\ log[b] \in Seq(Entry)
    BY <2>1, NodeTypes
  <2>5. \A k \in 1 .. i : log[a][k] = log[b][k]
    <3> DEFINE f == log[a]
               g == log[b]
               L == Links
    <3>1. /\ LinkUnique(L) /\ f \in Seq(Entry) /\ g \in Seq(Entry) /\ LogLinks(f) \subseteq L
          /\ LogLinks(g) \subseteq L /\ i \in DOMAIN f /\ i \in DOMAIN g /\ f[i].term = g[i].term
      BY <2>1, <2>2, <2>4, LinksIn
    <3> HIDE DEF f, g, L
    <3>2. \A k \in 1 .. i : f[k] = g[k]
      BY <2>2, <3>1, ChainAgree
    <3> QED
      BY <3>2 DEF f, g
  <2> QED
    BY <2>2, <2>3, <2>5
<1> QED
  BY <1>1, PlainAlways, PTL

\* What a leader believes a follower of its term to have stored, that follower has,
\* however late the acknowledgements are: on_append_entries acknowledges only up to
\* the end of the request it merged, and nothing a leader sends in its term undoes it.
THEOREM MatchesAreStored == ASSUME Plain PROVE Spec => []MatchIndexSound
<1>1. PlainInv => MatchIndexSound
  <2> SUFFICES ASSUME PlainInv, NEW l \in Node, NEW p \in Node, role[l] = Leader, p # l,
                      currentTerm[p] = currentTerm[l]
               PROVE  /\ matchIndex[l][p] <= LastLogIndex(p)
                      /\ \A i \in Shared(l, p) :
                            i <= matchIndex[l][p] => EntryAt(l, i) = EntryAt(p, i)
    BY DEF MatchIndexSound
  <2> DEFINE k == matchIndex[l][p]
  <2>1. TypeInv /\ PlainState /\ LinkUnique(Links) /\ AckSound
    BY DEF PlainInv, LogInv, LinkInv
  <2>2. /\ k \in Nat /\ log[l] \in Seq(Entry) /\ log[p] \in Seq(Entry)
        /\ Len(log[l]) \in Nat /\ DOMAIN log[l] = 1 .. Len(log[l])
        /\ Len(log[p]) \in Nat /\ DOMAIN log[p] = 1 .. Len(log[p])
        /\ LastLogIndex(p) = Len(log[p])
    BY <2>1, NodeTypes, PlainReads
  <2>3. k # 0 => k <= Len(log[l]) /\ Has(p, k, log[l][k].term)
    <3>1. Acks(p, l, k)
      BY DEF Acks
    <3> HIDE DEF k
    <3> QED
      BY <2>1, <2>2, <3>1 DEF AckSound
  <2>4. k # 0 => k \in DOMAIN log[l] /\ k \in DOMAIN log[p] /\ log[p][k].term = log[l][k].term
    <3> HIDE DEF k
    <3> QED
      BY <2>2, <2>3 DEF Has
  <2>5. k # 0 => \A j \in 1 .. k : log[l][j] = log[p][j]
    <3> DEFINE f == log[l]
               g == log[p]
               L == Links
    <3>1. /\ LinkUnique(L) /\ f \in Seq(Entry) /\ g \in Seq(Entry) /\ LogLinks(f) \subseteq L
          /\ LogLinks(g) \subseteq L
          /\ k # 0 => k \in DOMAIN f /\ k \in DOMAIN g /\ f[k].term = g[k].term
      BY <2>1, <2>2, <2>4, LinksIn
    <3>2. k \in Nat
      BY <2>2
    <3> HIDE DEF f, g, L, k
    <3>3. k # 0 => \A j \in 1 .. k : f[j] = g[j]
      BY <3>1, <3>2, ChainAgree
    <3> QED
      BY <3>3 DEF f, g
  <2> HIDE DEF k
  <2>6. k <= LastLogIndex(p)
    BY <2>2, <2>4
  <2>7. ASSUME NEW i \in Shared(l, p), i <= k PROVE EntryAt(l, i) = EntryAt(p, i)
    <3>1. i \in Nat /\ i >= 1 /\ EntryAt(l, i) = log[l][i] /\ EntryAt(p, i) = log[p][i]
      BY <2>1, PlainShared
    <3> QED
      BY <2>2, <2>5, <2>7, <3>1
  <2> QED
    BY <2>6, <2>7 DEF k
<1> QED
  BY <1>1, PlainAlways, PTL

=============================================================================
