SPECIFICATION FairSpec
CONSTANTS
    Keys = {k1, k2}
    k1 = k1
    k2 = k2
    MaxTokens = 3
    MaxVersion = 1
INVARIANTS AllOrNothing
PROPERTIES SettledForGood LiveIsLeftAlone EveryPublicationSettles
CHECK_DEADLOCK FALSE
