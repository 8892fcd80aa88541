------------------------------ MODULE History -------------------------------
(***************************************************************************)
(* The histories of crates/kurogane-verify: what the driver records of     *)
(* each operation, what the checker makes of a record, and what it means   *)
(* for a history to be linearizable.                                       *)
(*                                                                         *)
(* A history is a sequence of records [invoke, finish, command, outcome,   *)
(* result]; finish is Never while no answer has come, and result means     *)
(* something only when the outcome is Applied.                             *)
(***************************************************************************)
EXTENDS KeyValue, FiniteSets

Never == -1

\* One operation as the checker sees it.
Op(entry) ==
    IF entry.outcome = "Applied"
    THEN [invoke |-> entry.invoke, finish |-> entry.finish, command |-> entry.command,
          expected |-> Some(entry.result), optional |-> FALSE]
    ELSE [invoke |-> entry.invoke, finish |-> Never, command |-> entry.command,
          expected |-> None, optional |-> TRUE]

\* Applying the operations of order one after the other gives each the answer
\* it is known to have had.
Explains(ops, order) ==
    LET State[k \in 0 .. Len(order)] ==
            IF k = 0 THEN EmptyMachine
            ELSE Apply(State[k - 1], ops[order[k]].command).machine
    IN  \A k \in DOMAIN order :
            ops[order[k]].expected
                \in {None, Some(Apply(State[k - 1], ops[order[k]].command).result)}

\* In real time a was over when b was called; an operation whose answer never
\* came is never over.
OverBefore(a, b) == a.finish # Never /\ a.finish <= b.invoke

\* Some order of all the definite and some of the optional operations keeps
\* real time and explains every answer.  A rejected operation never happened.
Linearizable(history) ==
    LET kept == {i \in DOMAIN history : history[i].outcome # "Rejected"}
        ops == [i \in kept |-> Op(history[i])]
        optional == {i \in DOMAIN ops : ops[i].optional}
    IN  \E dropped \in SUBSET optional :
            \E order \in SetToSeqs(DOMAIN ops \ dropped) :
                /\ \A j, k \in DOMAIN order :
                      j < k => ~ OverBefore(ops[order[k]], ops[order[j]])
                /\ Explains(ops, order)

=============================================================================
