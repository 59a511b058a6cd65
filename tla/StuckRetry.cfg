SPECIFICATION FairEngineSpec
CONSTANTS
    NumSteps = 1
    MaxAttempts = 1
    MaxPlans = 1
    MaxVersion = 0
    Native = FALSE
    WaveOf <- OneWave
    ToolSteps = {1}
    OptionalSteps = {}
    MaxFaults = 0
    MaxCrashes = 1
PROPERTIES RetryBecomesPossible
CHECK_DEADLOCK FALSE
