----------------------------- MODULE MCBFTConsensus -----------------------------
(***************************************************************************)
(* An instance of BFTConsensus for TLC, in two scenarios chosen at the     *)
(* start.  Stable: three validators of equal stake (two of them are        *)
(* exactly the two-thirds boundary), two competing hashes.  Churn: one     *)
(* validator at boot and a second that may register later, every           *)
(* membership and stake operation, one hash; the stakes are even, so that  *)
(* a slash halves them exactly.                                            *)
(***************************************************************************)
EXTENDS BFTConsensus

VARIABLE stable

Three == 0..2
EqualStake == [v \in Three |-> 1]
Minus1 == -1

MCInit ==
    /\ stable \in BOOLEAN
    /\ validators = [v \in Validators |-> IF stable THEN Registered(InitialStake[v])
                                          ELSE IF v = 0 THEN Registered(2) ELSE Absent]
    /\ slashCount = 0
    /\ BFTInit

\* Bound: the votes counted at a height of the stable scenario; a polka and
\* a precommit in the first round and a commit in the second fit.
MaxVotes == 7
WithinStable == \A h \in Heights : Cardinality(voteLog'[h]) <= MaxVotes

\* What churn leaves out: the third validator and the second hash.
WithinChurn ==
    /\ validators'[2] = Absent
    /\ \A h \in Heights : /\ rounds'[h].blockHash # 2
                          /\ \A x \in voteLog'[h] : x.blockHash # 2

MCNext ==
    /\ \/ EngineStep
       \/ ~stable /\ ValidatorSetNext /\ UNCHANGED bftVars
    /\ IF stable THEN WithinStable ELSE WithinChurn
    /\ UNCHANGED stable

MCSpec == MCInit /\ [][MCNext]_<<vars, stable>> /\ Fairness

\* With a stable validator set, what PreCommit commits was prevoted by a
\* quorum, locked by that polka, and precommitted by a quorum, all in one round.
StableCommitIsJustified == stable => CommitIsJustified
=============================================================================
