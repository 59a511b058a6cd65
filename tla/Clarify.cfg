SPECIFICATION FairSpec
CONSTANTS
    Requests = {r1, r2}
    Selections = {s1}
    Keys = {k1, k2}
    Answers = {a1}
    Scenarios = {d1}
    Candidates = {depth}
    First = First
    None = None
    MaxLost = 1
    MaxReqs = 3
INVARIANTS ClarifiedPlanIsActive AppliedOnce
PROPERTY EveryRequestEnds
CONSTRAINTS FewVersions FirstOrMore
CHECK_DEADLOCK FALSE
