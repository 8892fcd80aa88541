-------------------------- MODULE Linearizability ---------------------------
(***************************************************************************)
(* The linearizability checker of crates/kurogane-verify, as the code      *)
(* searches.  What it is to find is defined in History.                    *)
(***************************************************************************)
EXTENDS History

\* A rejected operation never happened.
Ops(history) ==
    LET kept == SelectSeq(history, LAMBDA e : e.outcome # "Rejected")
    IN  [i \in DOMAIN kept |-> Op(kept[i])]

\* Mutant of Precedes: an answer and a call in the same tick are concurrent.
PrecedesStrictly(a, b) == ~ a.optional /\ a.finish # Never /\ a.finish < b.invoke

Precedes(a, b) == ~ a.optional /\ a.finish # Never /\ a.finish <= b.invoke

-----------------------------------------------------------------------------
(* The search *)

\* Operation i may come next when no other remaining one must come before it.
Blocked(ops, remaining, i) ==
    \E j \in remaining : j # i /\ Precedes(ops[j], ops[i])

\* What the code memoizes of a dead end: the map, last_applied and what remains.
DeadEnd(model, remaining) == [model |-> model, remaining |-> remaining]

RECURSIVE Search(_, _, _, _)
RECURSIVE TryFrom(_, _, _, _, _)

\* Whether the remaining operations can be put in order from this model, and
\* the dead ends known after looking.
Search(ops, remaining, model, failed) ==
    IF remaining = {} THEN [found |-> TRUE, failed |-> failed]
    ELSE IF DeadEnd(model, remaining) \in failed THEN [found |-> FALSE, failed |-> failed]
    ELSE TryFrom(ops, remaining, model, failed, 1)

\* The loop of search from operation i on.
TryFrom(ops, remaining, model, failed, i) ==
    LET rest == remaining \ {i}
        skipped == IF ops[i].optional THEN Search(ops, rest, model, failed)
                   ELSE [found |-> FALSE, failed |-> failed]
        applied == Apply(model, ops[i].command)
        matches == ops[i].expected \in {None, Some(applied.result)}
        taken == IF matches THEN Search(ops, rest, applied.machine, skipped.failed)
                 ELSE skipped
    IN  IF i > Len(ops)
        THEN [found |-> FALSE, failed |-> failed \cup {DeadEnd(model, remaining)}]
        ELSE IF i \notin remaining \/ Blocked(ops, remaining, i)
        THEN TryFrom(ops, remaining, model, failed, i + 1)
        ELSE IF skipped.found \/ taken.found THEN [found |-> TRUE, failed |-> failed]
        ELSE TryFrom(ops, remaining, model, taken.failed, i + 1)

IsLinearizable(history) ==
    Search(Ops(history), DOMAIN Ops(history), EmptyMachine, {}).found

=============================================================================
