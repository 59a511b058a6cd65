SPECIFICATION FairSpec
CONSTANTS
    Uploads = {u1}
    Confirms = {c1, c2}
    UploadKeys = {ku}
    ConfirmKeys = {k1, k2}
    Files = {f1}
    MaxVersion = 2
    NoOne = NoOne
    u1 = u1
    c1 = c1
    c2 = c2
    ku = ku
    k1 = k1
    k2 = k2
    f1 = f1
INVARIANTS ConfirmedByOneCommand EvidenceBelongsToPlan AnswersAreTrue
PROPERTY EveryRequestEnds
CHECK_DEADLOCK FALSE
