--------------------------- MODULE ClusterConfig ---------------------------
(***************************************************************************)
(* Voting membership and quorum arithmetic of kurogane-raft: the           *)
(* ClusterConfig type and the functions that decide whether an election or *)
(* a commit has enough support.                                            *)
(*                                                                         *)
(* A configuration is a record [voters, oldVoters].  The code's            *)
(* old_voters: Option<Vec<NodeId>> is a set here, with {} standing for     *)
(* None: Some(vec![]) is never built, because old_voters is only ever      *)
(* filled from the voters of a leader's active configuration, which are    *)
(* not empty.                                                              *)
(***************************************************************************)
EXTENDS Integers, FiniteSets

Stable(S) == [voters |-> S, oldVoters |-> {}]

\* ClusterConfig::default(), the configuration new_learner starts with.
EmptyConfig == Stable({})

IsVoter(c, id) == id \in c.voters \/ id \in c.oldVoters

IsJoint(c) == c.oldVoters # {}

\* Mutant of QuorumSize: exactly half suffices.
HalfSize(S) == Cardinality(S) \div 2

QuorumSize(S) == (Cardinality(S) \div 2) + 1

\* A strict majority of S has reached whatever the members of R reached.
MajorityReached(S, R) == Cardinality(S \cap R) >= QuorumSize(S)

\* The election rule exactly as has_quorum computes it: the votes are counted
\* against the new set's quorum size without asking whose votes they are; only
\* the old set's majority is counted among its own members.
HasQuorum(c, votes) ==
    /\ Cardinality(votes) >= QuorumSize(c.voters)
    /\ IsJoint(c) => MajorityReached(c.oldVoters, votes)

\* The commit rule of advance_commit_index: both sets, each counted among its
\* own members.
CommitQuorum(c, R) ==
    /\ MajorityReached(c.voters, R)
    /\ IsJoint(c) => MajorityReached(c.oldVoters, R)

=============================================================================
