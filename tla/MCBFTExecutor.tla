----------------------------- MODULE MCBFTExecutor -----------------------------
(***************************************************************************)
(* Instances of BFTExecutor for TLC, with one validator: the node itself   *)
(* where it drives rounds, the proposer it hears where it only follows.    *)
(***************************************************************************)
EXTENDS BFTExecutor

Single == {0}
SingleStake == [v \in Single |-> 1]
Minus1 == -1

\* Retries its pre-seal rounds, hears echoes of its own signed messages.
PreSealNode == [local |-> 0, requireSigned |-> TRUE, preSeal |-> TRUE, maxRuns |-> 3, maxRound |-> 2]
\* Publishes the round of a sealed block; unsigned messages are still accepted.
Publisher == [local |-> 0, requireSigned |-> FALSE, preSeal |-> FALSE, maxRuns |-> 1, maxRound |-> 1]
\* Only applies gossip.
Follower == [local |-> 9, requireSigned |-> FALSE, preSeal |-> TRUE, maxRuns |-> 0, maxRound |-> 1]

AllNodes == {PreSealNode, Publisher, Follower}
OnlyPreSeal == {PreSealNode}
=============================================================================
