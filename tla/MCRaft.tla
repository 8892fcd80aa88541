------------------------------- MODULE MCRaft -------------------------------
(***************************************************************************)
(* Instances of Raft for TLC.                                              *)
(***************************************************************************)
EXTENDS Raft, TLC

CONSTANTS
    n1, n2, n3, n4,
    Campaigners,    \* the nodes whose election timers may fire
    MaxInFlight     \* bound on the messages in flight at once

\* Interchangeable campaigners: sound where they start in the same state and no
\* other constant tells them apart.
NodeSymmetry == Permutations(Campaigners)

\* The part of the state space a run explores.
Scope ==
    /\ \A n \in Node \ Campaigners : role[n] = Follower
    /\ Cardinality(msgs) <= MaxInFlight

\* The state without the record of elections, which no guard and no value but
\* itself depends on: the view of a run whose properties do not read it.
NoElections ==
    <<electionVars, log, commitIndex, leaderVars, snapshot, configVars,
      learners, disk, msgs, committed>>

=============================================================================
