------------------------------ MODULE Replica -------------------------------
(***************************************************************************)
(* kurogane-kv's Replica: a Raft node and the key/value state machine that *)
(* its committed entries drive.  Every call of the node is followed, before *)
(* the replica does anything else, by drain_committed.                     *)
(***************************************************************************)
EXTENDS Raft, KeyValue

CONSTANTS
    Retain,     \* the margin compact leaves below last_applied
    Proposals   \* the commands clients may propose

ASSUME ReplicaAssumption ==
    /\ Retain \in Nat /\ Proposals \subseteq Operation
    /\ Command = {Encode(c) : c \in Operation}

VARIABLES
    machine,    \* per node: the map and last_applied
    results     \* per node: the answers kept, by log index

replicaVars == <<machine, results>>

-----------------------------------------------------------------------------
(* drain_committed *)

ApplyEntry(acc, entry) ==
    LET out == Apply(acc.machine, Decode(entry.payload.command)[1])
        index == acc.machine.lastApplied + 1
    IN  IF entry.payload.type = "Configuration"
        THEN [acc EXCEPT !.machine = Skip(@)]
        ELSE [machine |-> out.machine, results |-> With(acc.results, index, out.result)]

\* A replica that has applied nothing.
FreshReplica == [machine |-> EmptyMachine, results |-> <<>>]

\* The entries of es applied in turn.
ApplyAll(acc, es) ==
    LET After[k \in 0 .. Len(es)] ==
            IF k = 0 THEN acc ELSE ApplyEntry(After[k - 1], es[k])
    IN  After[Len(es)]

\* Mutant of Rebased: the map is kept when the boundary jumps ahead of it.
RebasedInPlace(m, kept, snap) ==
    IF snap.index > m.lastApplied
    THEN [machine |-> [m EXCEPT !.lastApplied = snap.index],
          results |-> Restrict(kept, {i \in DOMAIN kept : i > snap.index})]
    ELSE [machine |-> m, results |-> kept]

\* A boundary ahead of last_applied means that a snapshot was installed: its
\* map replaces the replica's, and the answers it skips are dropped.
Rebased(m, kept, snap) ==
    IF snap.index > m.lastApplied
    THEN [machine |-> [entries |-> DecodeEntries(snap.data)[1],
                       lastApplied |-> snap.index],
          results |-> Restrict(kept, {i \in DOMAIN kept : i > snap.index})]
    ELSE [machine |-> m, results |-> kept]

\* Mutant of Unapplied: the last entry applied is applied again.
UnappliedInclusive(lg, snap, applied, commit) ==
    SubSeq(lg, Max({1, applied - snap.index}), commit - snap.index)

\* The entries of lg from the first unapplied one to the last committed one.
Unapplied(lg, snap, applied, commit) ==
    SubSeq(lg, applied - snap.index + 1, commit - snap.index)

\* No expect of drain_committed fires: a snapshot that must be restored
\* decodes, and every entry to apply is held in the log and decodes.
CanDrain(m, lg, snap, commit) ==
    LET applied == Max({m.lastApplied, snap.index})
        todo == Unapplied(lg, snap, applied, commit)
    IN  /\ snap.index > m.lastApplied => DecodeEntries(snap.data) # None
        /\ commit > applied => /\ commit - snap.index <= Len(lg)
                               /\ \A k \in DOMAIN todo :
                                     todo[k].payload.type = "Command" =>
                                         Decode(todo[k].payload.command) # None

\* Node n's machine and answers after a call that left its log, snapshot and
\* commit index as they are now.  A replica that panics applies nothing more.
DrainCommitted(n) ==
    LET base == Rebased(machine[n], results[n], snapshot'[n])
        todo == Unapplied(log'[n], snapshot'[n], base.machine.lastApplied, commitIndex'[n])
        end == ApplyAll(base, todo)
    IN  IF CanDrain(machine[n], log'[n], snapshot'[n], commitIndex'[n])
        THEN /\ machine' = [machine EXCEPT ![n] = end.machine]
             /\ results' = [results EXCEPT ![n] = end.results]
        ELSE UNCHANGED replicaVars

\* Replica::recover: the map comes from the node's own snapshot, if it has one.
Recover(n) ==
    LET base == Rebased(EmptyMachine, <<>>, snapshot'[n])
    IN  /\ machine' = [machine EXCEPT ![n] = base.machine]
        /\ results' = [results EXCEPT ![n] = base.results]

-----------------------------------------------------------------------------
(* The calls *)

ReplicaInit ==
    /\ Init
    /\ machine = [n \in Node |-> EmptyMachine]
    /\ results = [n \in Node |-> <<>>]

ReplicaPropose(n, c) == Propose(n, Encode(c)) /\ DrainCommitted(n)

ReplicaConfigChange(n, S) == ProposeConfigChange(n, S) /\ DrainCommitted(n)

ReplicaLearners(n) ==
    /\ \E id \in Node : AddLearner(n, id) \/ RemoveLearner(n, id)
    /\ DrainCommitted(n)

\* Replica::step with a tick.
ReplicaTick(n) == (StartElection(n) \/ Heartbeat(n)) /\ DrainCommitted(n)

\* Replica::step with a peer's message.
ReplicaStep(m) ==
    /\ \/ OnRequestVote(m)
       \/ OnRequestVoteResponse(m)
       \/ OnAppendEntries(m)
       \/ OnAppendEntriesResponse(m)
       \/ OnInstallSnapshot(m)
       \/ OnInstallSnapshotResponse(m)
    /\ DrainCommitted(m.to)

\* The bytes are those of the map as it is, at last_applied; the boundary they
\* are filed under is Retain entries below.
ReplicaCompact(n) ==
    /\ machine[n].lastApplied > Retain
    /\ Compact(n, machine[n].lastApplied - Retain, SnapshotBytes(machine[n]))
    /\ UNCHANGED replicaVars

ReplicaRestart(n) == Restart(n) /\ Recover(n)

ReplicaNext ==
    \/ \E n \in Node, c \in Proposals : ReplicaPropose(n, c)
    \/ \E n \in Node, S \in VoterSets : ReplicaConfigChange(n, S)
    \/ \E n \in Node : ReplicaLearners(n)
    \/ \E n \in Node : ReplicaTick(n)
    \/ \E n \in Node : ReplicaCompact(n)
    \/ \E n \in Crashable : ReplicaRestart(n)
    \/ \E m \in msgs : ReplicaStep(m)
    \/ \E m \in msgs : Lose(m) /\ UNCHANGED replicaVars

ReplicaSpec == ReplicaInit /\ [][ReplicaNext]_<<vars, replicaVars>>

-----------------------------------------------------------------------------
(* Properties *)

\* The replay, from an empty map, of everything committed anywhere.
Replayed ==
    LET last == Cardinality(committed)
        Committed(i) == (CHOOSE c \in committed : c.index = i).entry
    IN  ApplyAll(FreshReplica, [i \in 1 .. last |-> Committed(i)])

\* No expect in drain_committed, compact or recover ever fires, and the
\* subtraction of maybe_compact never underflows: after every call a replica
\* has applied exactly what its node counts committed, and its snapshot
\* boundary is not ahead of that.
DrainNeverPanics ==
    \A n \in Node :
        /\ machine[n].lastApplied = commitIndex[n]
        /\ snapshot[n].index <= machine[n].lastApplied

\* A replica that has applied everything committed anywhere holds the map that
\* replaying it from the start gives, although Replica::compact files the map
\* of last_applied under an earlier index, so that a replica that installs or
\* recovers from it applies the retained entries to a map that has them.
ReplicasConverge ==
    \A n \in Node :
        machine[n].lastApplied = Cardinality(committed) =>
            machine[n].entries = Replayed.machine.entries

\* Everything a replica holds.
Held(n) == [machine |-> machine[n], results |-> results[n]]

\* Two replicas that have applied as many entries hold the same map and the same
\* answers, and two that have both answered the command at an index have given
\* the same answer, however far each of them has got.
\* (A replica that starts from a snapshot of its owner's may answer differently:
\* the map it applies the retained entries to already has them.)
ReplicasAgree ==
    \A m, n \in Node :
        /\ machine[m].lastApplied = machine[n].lastApplied => Held(m) = Held(n)
        /\ \A i \in DOMAIN results[m] \cap DOMAIN results[n] : results[m][i] = results[n][i]

=============================================================================
