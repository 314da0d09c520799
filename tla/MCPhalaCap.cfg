SPECIFICATION Spec
CONSTANTS
    PhRuns = {1, 2}
    Submission <- OneSubmission
    Registry = registry
    Runners = {}
    MaxModels = 2
    MaxTasks = 2
    MaxRestarts = 0
    EcRuns = {}
    ServiceName <- OneSubmission
    MaxTaskRestarts = 0
    MaxEcsTasks = 0
    MaxStopFailures = 0
    NmRuns = {}
    JobId <- OneSubmission
    MaxPlacements = 0
    LoRuns = {}
    Image <- OneSubmission
    RebuildDisabled = FALSE
    MaxLoRestarts = 0
INVARIANT PhCapNotBelowMaximum
CHECK_DEADLOCK FALSE
