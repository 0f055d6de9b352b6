SPECIFICATION FairSpec
CONSTANTS
    Nodes = {n1, n2}
    Locks = {l1}
    Swaps = {s1}
    MaxObjects = 1
    MaxSaves = 0
    MaxCrashes = 0
    MaxCorruptions = 0
PROPERTIES LockSettles
CHECK_DEADLOCK FALSE
