------------------------------ MODULE MCTiming ------------------------------
(***************************************************************************)
(* An instance of Timing for TLC.                                          *)
(***************************************************************************)
EXTENDS Timing, TLC

CONSTANTS n1, n2, n3

\* A change under way that removes n1.
Removing == [voters |-> {n2, n3}, oldVoters |-> {n1, n2, n3}]

\* The nodes start with different timeouts, as the simulator's tests give them.
StartTimeouts == (n1 :> 4) @@ (n2 :> 6) @@ (n3 :> 8)

\* Randomized timeouts that land apart.  The shortest is the least that one
\* interval and the spread of the delays allow.
SpreadDraws == (n1 :> {12}) @@ (n2 :> {4}) @@ (n3 :> {8})

=============================================================================
