SPECIFICATION FairSpec
CONSTANTS
    Nodes = {n1, n2}
    Locks = {l1}
    Swaps = {s1}
    MaxObjects = 1
    MaxSaves = 2
    MaxCrashes = 1
    MaxCorruptions = 1
INVARIANT SavedIsDurable
PROPERTIES TerminalStays DurableOutcomeIsFinal SwapSettles
CHECK_DEADLOCK FALSE
