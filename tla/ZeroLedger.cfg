SPECIFICATION FairSpec
CONSTANTS
    Workers = {w1, w2, w3}
    MaxNodes = 4
    MaxFaults = 2
    w1 = w1
    w3 = w3
    w2 = w2
INVARIANTS OnePublishedNode
PROPERTIES OnlyOwnerEnds EveryRunEnds
CHECK_DEADLOCK FALSE
