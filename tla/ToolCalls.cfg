SPECIFICATION FairSpec
CONSTANTS
    Calls = {c1, c2, c3}
    Retried = {c1}
    MaxActive = 1
    MaxQueued = 2
    MaxTries <- Twice
    c1 = c1
    c2 = c2
    c3 = c3
INVARIANTS BrowsersAreCounted NoWaitForFreeSlot GoneBeforeGoingOn
PROPERTIES NothingNewOnceStopped EveryCallEnds
CHECK_DEADLOCK FALSE
