SPECIFICATION Spec
CONSTANTS
    Wallets = {1, 2, 3}
    Funder = 3
    Ecosystem = 3
    Supply <- MCSupply
    Fees = {0, 1}
    Exact = 4
    Coarse = 4
    Short = {3}
    DustActive = FALSE
    NodeIDs = {1, 2}
    Gpus = {1}
    Evidence = {1}
    MinStake = 2
    UnbondWindow = 1
    RewardPercent = 50
    Streams = {1}
    Budget = 2
    Price = 2
    Period = 3
    MaxActive = 3
    Expiry = 4
    Rounds = {1, 2}
    Proofs = {1, 2}
    Amounts = {1, 3}
    MaxSupply = 3
    MintLimit = 1
    Units = {1, 2}
    Mixes <- MCMixes
CHECK_DEADLOCK FALSE
INVARIANTS SupplyConserved ChargedForActiveTime
PROPERTIES BondReleased
