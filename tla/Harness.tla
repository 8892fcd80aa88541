------------------------------ MODULE Harness -------------------------------
(***************************************************************************)
(* The history generator of crates/kurogane-verify: replicas driven through *)
(* ticks, deliveries, partitions, crashes and restarts, clients that call  *)
(* them one operation at a time, and the history of what they were told.   *)
(*                                                                         *)
(* Time is abstracted.  Messages are delivered at any later moment, timers *)
(* fire at any moment, and the clock counts only the rounds of             *)
(* resolve_pending that record something: the checker compares an answer's *)
(* tick with a call's, so no other tick matters to it.  A partition is the *)
(* loss of the messages of the node it isolates.                           *)
(***************************************************************************)
EXTENDS Replica, History

CONSTANTS
    Clients,    \* how many there are; each waits for one answer at a time
    Kinds,      \* the kinds of command clients ask for
    MaxOps      \* bound: the operations submitted

\* There is something to ask for, and the values written can be told apart.
ASSUME HarnessAssumption ==
    /\ Clients \in Nat /\ MaxOps \in Nat
    /\ Kinds \subseteq {"Set", "Delete", "Get"} /\ Kinds # {} /\ Key # {}
    /\ \A k \in 1 .. MaxOps : <<k>> \in Value

VARIABLES
    up,         \* the replicas that are running
    clock,
    ops,        \* every operation submitted, in order, pending ones included
    oracle      \* history: the replay of everything committed anywhere

harnessVars == <<up, clock, ops>>
allVars == <<vars, replicaVars, harnessVars, oracle>>

HarnessInit ==
    /\ ReplicaInit
    /\ up = Node
    /\ clock = 0
    /\ ops = <<>>
    /\ oracle = FreshReplica

Pending == {i \in DOMAIN ops : ops[i].outcome = "Pending"}

-----------------------------------------------------------------------------
(* resolve_pending *)

EntryHeld(n, i) == i > snapshot[n].index /\ i - snapshot[n].index \in DOMAIN log[n]

\* Mutant of StillOwn: whatever entry is at the index is taken for the client's.
HeldAtAll(op) == EntryHeld(op.target, op.index)

\* The entry at the operation's index is still the one it appended.
StillOwn(op) ==
    /\ EntryHeld(op.target, op.index)
    /\ TermAt(op.target, op.index) = op.term

\* The pending operations whose result their target can vouch for.
Resolvable ==
    {i \in Pending :
        LET op == ops[i]
        IN  /\ op.target \in up
            /\ machine[op.target].lastApplied >= op.index
            /\ StillOwn(op)
            /\ op.index \in DOMAIN results[op.target]}

\* Mutant of TimedOut: the client is told that nothing happened.
TimedOutRejected(op) == [op EXCEPT !.outcome = "Rejected", !.finish = clock + 1]

TimedOut(op) == [op EXCEPT !.outcome = "Indeterminate", !.finish = clock + 1]

Resolved(op) ==
    [op EXCEPT !.outcome = "Applied", !.finish = clock + 1,
               !.result = results[op.target][op.index]]

\* The end of a step: everything that can be is resolved, and of the rest those
\* whose deadline has passed, which are the earliest submitted, are given up.
ResolvePending ==
    /\ \E passed \in {0} \cup Pending :
          LET late == {i \in Pending \ Resolvable : i <= passed}
          IN  /\ Resolvable \cup late # {}
              /\ ops' = [i \in DOMAIN ops |->
                            CASE i \in Resolvable -> Resolved(ops[i])
                              [] i \in late -> TimedOut(ops[i])
                              [] OTHER -> ops[i]]
    /\ clock' = clock + 1
    /\ UNCHANGED <<vars, replicaVars, up>>

\* The driver acts between two steps, when everything resolvable is resolved.
BetweenSteps == Resolvable = {}

-----------------------------------------------------------------------------
(* The driver *)

\* A driver sends to a leader if it sees one, else to any peer.
CurrentLeaders == {n \in up : role[n] = Leader}

Targets == IF CurrentLeaders # {} THEN CurrentLeaders ELSE Node

\* What a client may ask for next: the value of a write is the number of the
\* operation.
RandomCommand ==
    [kind : Kinds \cap {"Set"}, key : Key, value : {<<Len(ops) + 1>>}]
        \cup [kind : Kinds \cap {"Delete", "Get"}, key : Key]

Submitted(target, command, outcome, finish, index, term) ==
    [invoke |-> clock, finish |-> finish, command |-> command, outcome |-> outcome,
     result |-> None, target |-> target, index |-> index, term |-> term]

SubmitAccepted(target, command) ==
    LET index == LastLogIndex(target) + 1
    IN  /\ target \in up
        /\ ReplicaPropose(target, command)
        /\ ops' = Append(ops, Submitted(target, command, "Pending", Never, index,
                              TermIn(log'[target], snapshot'[target], index)))

\* The target is down, or propose returns None.  Nothing reads what was asked,
\* or of whom: one command and no target stand for all.
SubmitRejected(target) ==
    /\ target \notin up \/ role[target] # Leader
    /\ ops' = Append(ops, Submitted(Nil, CHOOSE x \in RandomCommand : TRUE,
                                    "Rejected", clock, 0, 0))
    /\ UNCHANGED <<vars, replicaVars>>

\* Who calls matters to nobody, as long as some client is idle.
Submit ==
    /\ BetweenSteps
    /\ Len(ops) < MaxOps
    /\ Cardinality(Pending) < Clients
    /\ \E target \in Targets :
          \/ \E command \in RandomCommand : SubmitAccepted(target, command)
          \/ SubmitRejected(target)
    /\ UNCHANGED <<up, clock>>

\* The replica is gone.  Nothing touches its disk until it is rebuilt, so what
\* restart will make of it is what it is from now on.
Crash(n) ==
    /\ BetweenSteps
    /\ n \in up
    /\ ReplicaRestart(n)
    /\ up' = up \ {n}
    /\ UNCHANGED <<clock, ops>>

RestartUp(n) ==
    /\ BetweenSteps
    /\ n \in Node \ up
    /\ up' = up \cup {n}
    /\ UNCHANGED <<vars, replicaVars, clock, ops>>

\* Isolation and healing are losses of messages, which Drop has.
InjectRandomFault(target) == Crash(target) \/ RestartUp(target)

-----------------------------------------------------------------------------
(* Within a step *)

Tick(n) ==
    /\ n \in up
    /\ ReplicaTick(n)
    /\ UNCHANGED harnessVars

Deliver(m) ==
    /\ m.to \in up
    /\ ReplicaStep(m)
    /\ UNCHANGED harnessVars

\* An end of m is isolated when it is sent or due, or its receiver is down or
\* ignores it.
Drop(m) == Lose(m) /\ UNCHANGED <<replicaVars, harnessVars>>

HarnessStep ==
    \/ Submit
    \/ ResolvePending
    \/ \E n \in Crashable : InjectRandomFault(n)
    \/ \E n \in Node : Tick(n)
    \/ \E m \in msgs : Deliver(m)
    \/ \E m \in msgs : Drop(m)

\* The entries this step is the first to count committed, in log order.
Fresh ==
    LET past == Cardinality(committed)
        Counted(i) == (CHOOSE c \in committed' : c.index = i).entry
    IN  [k \in 1 .. Cardinality(committed') - past |-> Counted(past + k)]

HarnessNext ==
    /\ HarnessStep
    /\ oracle' = ApplyAll(oracle, Fresh)

HarnessSpec == HarnessInit /\ [][HarnessNext]_allVars

-----------------------------------------------------------------------------
(* Properties *)

\* What finish returns: observation stops, and what is pending is unknown.
Finish ==
    [i \in DOMAIN ops |->
        IF i \in Pending THEN [ops[i] EXCEPT !.outcome = "Indeterminate"] ELSE ops[i]]

\* Whenever the driver stops, the history is linearizable: no interleaving of
\* elections, overwritten entries, crashes and timeouts lets a client be told
\* something that one copy of the map could not have answered.
HistoryLinearizable == Linearizable(Finish)

\* The position of each operation that has taken effect in the committed log.
Acted == {i \in DOMAIN ops : \E c \in committed :
              c.index = ops[i].index /\ c.entry.term = ops[i].term}

\* What clients have asked, what has come of it, and what they were told.
Called == [i \in DOMAIN ops |-> ops[i].command]
Effect == [i \in Acted |-> oracle.results[ops[i].index]]
Told ==
    [i \in DOMAIN ops \ Pending |->
        IF ops[i].outcome = "Applied"
        THEN [outcome |-> "Applied", result |-> ops[i].result]
        ELSE [outcome |-> ops[i].outcome]]

Atomic == INSTANCE AtomicStore WITH
    store <- oracle.machine.entries, called <- Called, effect <- Effect, answer <- Told

\* The replicated store implements one atomic map: an operation acts when its
\* entry is first counted committed anywhere, an answer is what it found then,
\* and a refused operation never acts.
ImplementsAtomicStore == Atomic!AtomicSpec

=============================================================================
