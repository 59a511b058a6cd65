SPECIFICATION EngineSpec
CONSTANTS
    NumSteps = 1
    MaxAttempts = 2
    MaxPlans = 1
    MaxVersion = 0
    Native = FALSE
    WaveOf <- OneWave
    ToolSteps = {1}
    OptionalSteps = {}
    MaxFaults = 1
    MaxCrashes = 0
CONSTRAINTS NoApproval NotCancelled
INVARIANTS RetriedHasNoReport
CHECK_DEADLOCK FALSE
