SPECIFICATION FairExecutorSpec
CONSTANTS
  Validators <- Single
  InitialStake <- SingleStake
  Stakes = {}
  MinStake = 1
  MaxValidators = 2
  SlashDivisor = 2
  MaxStake = 0
  MaxSlashes = 0
  Heights = {7}
  Blocks = {1, 2}
  NilVoteHash = 0
  NoHash <- Minus1
  NoValidator <- Minus1
  QuorumNum = 2
  QuorumDen = 3
  RoundModulus = 4
  MaxRound = 2
  Nodes <- OnlyPreSeal
CHECK_DEADLOCK FALSE
INVARIANT SealedIsCommitted
