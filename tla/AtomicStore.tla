---------------------------- MODULE AtomicStore -----------------------------
(***************************************************************************)
(* What clients of kurogane are promised: a single key/value map on which   *)
(* every operation acts at one instant between its call and its answer, if *)
(* it acts at all.  An operation whose answer is Indeterminate may act at  *)
(* any later time or never, and one that is refused never acts.            *)
(***************************************************************************)
EXTENDS KeyValue

VARIABLES
    store,      \* the map
    called,     \* the commands called, in the order of their calls
    effect,     \* per operation that has acted: what it found
    answer      \* per operation that was answered: the answer

AtomicVars == <<store, called, effect, answer>>

Applied(result) == [outcome |-> "Applied", result |-> result]
Unconfirmed(outcome) == [outcome |-> outcome]

Start == store = <<>> /\ called = <<>> /\ effect = <<>> /\ answer = <<>>

\* One operation acts: acc is the map and what has been found so far.
ActOne(acc, op) ==
    LET out == Apply([entries |-> acc.store, lastApplied |-> 0], called'[op])
    IN  [store |-> out.machine.entries, effect |-> With(acc.effect, op, out.result)]

\* The operations of order, none of which has acted or was refused, act in turn.
Act(order) ==
    LET after[k \in 0 .. Len(order)] ==
            IF k = 0 THEN [store |-> store, effect |-> effect]
            ELSE ActOne(after[k - 1], order[k])
    IN  /\ \A k \in DOMAIN order :
              /\ order[k] \in DOMAIN called' \ DOMAIN effect
              /\ order[k] \in DOMAIN answer => answer[order[k]] # Unconfirmed("Rejected")
        /\ [store |-> store', effect |-> effect'] = after[Len(order)]

\* Whatever acts in this step acts in some order.
Acts == \E order \in SetToSeqs(DOMAIN effect' \ DOMAIN effect) : Act(order)

\* A cluster of one node may act on a call at once.
Call(c) ==
    /\ called' = Append(called, c)
    /\ Acts
    /\ UNCHANGED answer

Refuse(c) ==
    /\ called' = Append(called, c)
    /\ answer' = With(answer, Len(called) + 1, Unconfirmed("Rejected"))
    /\ UNCHANGED <<store, effect>>

\* Some operations that await an answer get one: what they found, which takes
\* that they have acted, or that nobody knows.
Answer ==
    /\ DOMAIN answer \subseteq DOMAIN answer'
    /\ DOMAIN answer' \subseteq DOMAIN called
    /\ \A op \in DOMAIN answer : answer'[op] = answer[op]
    /\ \A op \in DOMAIN answer' \ DOMAIN answer :
          \/ answer'[op] = Unconfirmed("Indeterminate")
          \/ op \in DOMAIN effect /\ answer'[op] = Applied(effect[op])
    /\ UNCHANGED <<store, called, effect>>

AtomicNext ==
    \/ /\ called' # called
       /\ \E c \in Operation : Call(c) \/ Refuse(c)
    \/ effect' # effect /\ Acts /\ UNCHANGED <<called, answer>>
    \/ answer' # answer /\ Answer

AtomicSpec == Start /\ [][AtomicNext]_AtomicVars

=============================================================================
