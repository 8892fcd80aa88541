------------------------------ MODULE MCServer ------------------------------
(***************************************************************************)
(* Instances of Server for TLC.                                            *)
(***************************************************************************)
EXTENDS Server

\* A transition this node leaves, begun by a peer.
Transition == {[voters |-> FALSE, oldVoters |-> TRUE]}

=============================================================================
