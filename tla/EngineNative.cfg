SPECIFICATION EngineSpec
CONSTANTS
    NumSteps = 2
    MaxAttempts = 1
    MaxPlans = 2
    MaxVersion = 2
    Native = TRUE
    WaveOf <- InSeries
    ToolSteps = {}
    OptionalSteps = {}
    MaxFaults = 2
    MaxCrashes = 1
INVARIANTS CompletedReportIsSealed
CHECK_DEADLOCK FALSE
