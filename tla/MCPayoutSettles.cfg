SPECIFICATION PayoutSpec
CONSTANTS
    p1 = p1
    p2 = p2
    p3 = p3
    Proofs <- MCProofs
    Miners <- MCMiners
    Owner <- MCOwner
    Submitters = {s1}
    MaxPending = 2
    MaxPendingPerOwner = 2
    MaxProofsTotal = 3
    Budget = 13
    Reward = 6
    QuietSeals = 0
    StallSeals = 2
    NoSealTicks = 2
    MaxFaults = 1
PROPERTY AcceptedIsSettled
