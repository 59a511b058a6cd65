SPECIFICATION FairEngineSpec
CONSTANTS
    NumSteps = 2
    MaxAttempts = 1
    MaxPlans = 1
    MaxVersion = 0
    Native = FALSE
    WaveOf <- OneWave
    ToolSteps = {1}
    OptionalSteps = {2}
    MaxFaults = 1
    MaxCrashes = 1
INVARIANTS CompletedIsWhole CheckpointsSurvive
PROPERTIES ImplementsLedger LostWorkerIsReplaced ResidueIsCleaned LostReportIsInvalidated
CHECK_DEADLOCK FALSE
