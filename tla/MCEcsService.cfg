SPECIFICATION Spec
CONSTANTS
    Models = {m1}
    Configs = {c1, c2}
    MaxRuns = 2
    MaxAddr = 2
    MaxReports = 1
    MaxCrashes = 0
    CanQuarantine = TRUE
    TaskMoves <- RunnerMoves
    Faults = {}
SYMMETRY ConfigSymmetry
INVARIANTS
    TypeOK
    ObserversInformed
    FailedRunsStopped
    FailureExplained
    NoStuckRun
