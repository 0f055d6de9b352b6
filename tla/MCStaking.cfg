SPECIFICATION FairStakingSpec
CONSTANTS
    Validators = {1, 2}
    InitialStake <- TwoBonded
    Stakes = {}
    MinStake = 3
    MaxValidators = 2
    SlashDivisor = 2
    MaxStake = 0
    MaxSlashes = 2
    Delegators = {1}
    Offences = {1, 2}
    Accused <- FirstAccused
    Funds = 8
    Amount = 4
    UnbondBlocks = 1
    MaxHeight = 2
    MaxCalls = 2
    MaxSubmissions = 2
    MaxCrashes = 1
INVARIANTS SlashedOnce FundsConserved
PROPERTIES PunishedUnlessGone PowerReturns
CHECK_DEADLOCK FALSE
