SPECIFICATION Spec
CONSTANTS
    Models = {m1}
    Configs = {c1, c2}
    MaxRuns = 2
    MaxAddr = 1
    MaxReports = 1
    MaxCrashes = 1
    CanQuarantine = TRUE
    TaskMoves <- PlainMoves
    Faults = {"build", "run", "stop", "load"}
SYMMETRY ConfigSymmetry
INVARIANTS
    CallInv
    OneWantedRun
    ActiveRunsTracked
    RunningAsAnnounced
PROPERTY ImplementsLifecycle
