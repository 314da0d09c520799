SPECIFICATION Spec
CONSTANTS
    Models = {m1}
    Configs = {c1, c2}
    MaxRuns = 1
    MaxAddr = 1
    MaxReports = 0
    MaxCrashes = 1
    CanQuarantine = TRUE
    TaskMoves <- PlainMoves
    Faults = {}
INVARIANT WantedRunsTracked
