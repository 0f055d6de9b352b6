SPECIFICATION MCSpec
CONSTANTS
  Validators <- Three
  InitialStake <- EqualStake
  Stakes = {2}
  MinStake = 1
  MaxValidators = 2
  SlashDivisor = 2
  MaxStake = 3
  MaxSlashes = 1
  Heights = {7}
  Blocks = {1, 2}
  NilVoteHash = 0
  NoHash <- Minus1
  NoValidator <- Minus1
  QuorumNum = 2
  QuorumDen = 3
  RoundModulus = 3
  MaxRound = 1
INVARIANTS TypeOK NoEquivocationCounted LockTracksLatestPolka StableCommitIsJustified
PROPERTIES RoundsEnd CommittedIsFinal
CHECK_DEADLOCK FALSE
