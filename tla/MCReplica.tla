----------------------------- MODULE MCReplica ------------------------------
(***************************************************************************)
(* Instances of Replica, and of Wire over it, for TLC.                     *)
(***************************************************************************)
EXTENDS Wire

CONSTANTS
    n1, n2, n3,
    Campaigners,    \* the nodes whose election timers may fire
    MaxInFlight     \* bound on the messages in flight at once

\* One key is a prefix of the other, so that an encoding without lengths would
\* be ambiguous.
Keys == << <<1>>, <<1, 1>> >>
Values == {<<1>>, <<2, 1>>, <<>>}

\* A write of the empty value, and an erasure of what it wrote.
Writes == {[kind |-> "Set", key |-> <<1>>, value |-> <<>>],
           [kind |-> "Delete", key |-> <<1>>]}

Commands == {Encode(c) : c \in Operation}

Scope ==
    /\ \A n \in Node \ Campaigners : role[n] = Follower
    /\ Cardinality(msgs) <= MaxInFlight

=============================================================================
