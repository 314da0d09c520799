SPECIFICATION Spec
CONSTANTS
    PhRuns = {1, 2}
    Submission <- OneSubmission
    Registry = registry
    Runners = {cvm}
    MaxModels = 0
    MaxTasks = 2
    MaxRestarts = 1
    EcRuns = {1, 2}
    ServiceName <- OneSubmission
    MaxTaskRestarts = 1
    MaxEcsTasks = 2
    MaxStopFailures = 1
    NmRuns = {1, 2}
    JobId <- OneSubmission
    MaxPlacements = 2
    LoRuns = {1, 2}
    Image <- OneSubmission
    RebuildDisabled = FALSE
    MaxLoRestarts = 1
INVARIANTS
    TypeOK
    PhRoutedToOwner
    PhLiveTasksRoutable
    PhHeadKnown
    EcRestartsBounded
PROPERTIES
    PhFailuresSeen
    EcReportsFollow
    NmGivesUpWithNomad
    NmEndSeen
    LoImageOfThisProcess
    LoBuildEnds
CHECK_DEADLOCK FALSE
