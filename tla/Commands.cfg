SPECIFICATION Spec
CONSTANTS
    Requests = {r1, r2, r3}
    Keys = {k1, k2}
    Kinds = {"approve", "execute", "resume", "cancel"}
    GateKeys = {legal, security}
    MaxVersion = 5
    MaxAttempts = 2
    GatedVersion = 3
    None = None
    r1 = r1
    r2 = r2
    r3 = r3
    k1 = k1
    k2 = k2
    legal = legal
    security = security
SYMMETRY Symmetry
CONSTRAINTS GatedOrRun LateVersions
INVARIANTS ReadyIsApproved ApprovalsAdvanceOnce OneDriver AnswersStandAndAreTrue
CHECK_DEADLOCK FALSE
