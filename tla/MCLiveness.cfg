SPECIFICATION FairSpec
CONSTANTS
    Models = {m1}
    Configs = {c1, c2}
    MaxRuns = 2
    MaxAddr = 1
    MaxReports = 0
    MaxCrashes = 0
    CanQuarantine = TRUE
    TaskMoves <- EcsMoves
    Faults = {"build"}
PROPERTIES
    StartSettles
    StopCompletes
