----------------------------- MODULE MCHarness ------------------------------
(***************************************************************************)
(* Instances of Harness for TLC.                                           *)
(***************************************************************************)
EXTENDS Harness, Linearizability

CONSTANTS
    n1, n2, n3,
    MaxInFlight     \* bound on the messages in flight at once

OneKey == << <<1>> >>
OpValues == {<<k>> : k \in 1 .. MaxOps}
Commands == {Encode(c) : c \in Operation}

\* The terms each node may campaign in: one change of leader, from n1 to n2.
Campaigns == n1 :> {1} @@ n2 :> {2} @@ n3 :> {}

\* The first operation writes, the second reads back, and no node crashes before
\* the first.  When the last operation is answered there is nothing left to observe.
Scope ==
    /\ \A n \in Node : role[n] # Follower => currentTerm[n] \in Campaigns[n]
    /\ Cardinality(msgs) <= MaxInFlight
    /\ \A i \in DOMAIN ops :
          \/ ops[i].outcome = "Rejected"
          \/ ops[i].command.kind = IF i = 1 THEN "Set" ELSE "Get"
    /\ ops = <<>> => up = Node
    /\ Len(ops) < MaxOps \/ Pending # {}

\* The harness when n1 has won term 1 with the votes of all and everything it
\* sent then is delivered or dropped.
Elected ==
    LET voted == [FreshDisk EXCEPT !.term = 1, !.votedFor = n1]
        seed(v) == [NoProgress EXCEPT ![n2] = v, ![n3] = v]
    IN  /\ role = [n \in Node |-> IF n = n1 THEN Leader ELSE Follower]
        /\ currentTerm = [n \in Node |-> 1]
        /\ votedFor = [n \in Node |-> n1]
        /\ votesGranted = [n \in Node |-> IF n = n1 THEN Node ELSE {}]
        /\ log = [n \in Node |-> <<>>]
        /\ commitIndex = [n \in Node |-> 0]
        /\ nextIndex = [n \in Node |-> IF n = n1 THEN seed(1) ELSE NoProgress]
        /\ matchIndex = [n \in Node |-> NoProgress]
        /\ snapshot = [n \in Node |-> NoSnapshot(Stable(Bootstrap))]
        /\ currentConfig = [n \in Node |-> Stable(Bootstrap)]
        /\ currentConfigIndex = [n \in Node |-> 0]
        /\ learners = [n \in Node |-> {}]
        /\ disk = [n \in Node |-> voted]
        /\ msgs = {}
        /\ elected = {[term |-> 1, leader |-> n1, votes |-> Node, config |-> Stable(Bootstrap)]}
        /\ committed = {}
        /\ machine = [n \in Node |-> EmptyMachine]
        /\ results = [n \in Node |-> <<>>]
        /\ up = Node
        /\ clock = 0
        /\ ops = <<>>
        /\ oracle = FreshReplica

ElectedSpec == Elected /\ [][HarnessNext]_allVars

-----------------------------------------------------------------------------
(* The checker *)

\* Histories that differ from h in one answer, or in when one operation ended.
Variations(h) ==
    {h} \cup
    UNION {LET values == {None} \cup {Some(<<k>>) : k \in DOMAIN h}
           IN  {[h EXCEPT ![i].result.value = v] : v \in values}
                 \cup {[h EXCEPT ![i].finish = t] : t \in h[i].invoke + 1 .. clock}
             : i \in {j \in DOMAIN h : h[j].outcome = "Applied"}}

\* Each time an answer is recorded, the memoizing search and the definition of
\* linearizability give the same verdict on the history and on its variations,
\* most of which are not linearizable.
CheckerExact ==
    [][clock' # clock =>
        \A h \in Variations(Finish)' : IsLinearizable(h) = Linearizable(h)]_allVars

=============================================================================
