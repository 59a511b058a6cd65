SPECIFICATION Spec
CONSTANTS
    NumSteps = 1
    MaxAttempts = 2
    MaxPlans = 2
    MaxVersion = 0
    Native = FALSE
    MaxUsed = 1
CONSTRAINTS FewSlots FirstPlanApproval SlotsOrPlans
INVARIANTS OneActiveAttempt SupersededIsOver NoRetryOverInvalidation RetryStartsClean
PROPERTIES StaleCallersAreFenced ImplementsAuthority
CHECK_DEADLOCK FALSE
