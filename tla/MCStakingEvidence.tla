--------------------------- MODULE MCStakingEvidence ---------------------------
EXTENDS StakingEvidence

TwoBonded == [v \in {1, 2} |-> 4]
FirstAccused(o) == 1
================================================================================
