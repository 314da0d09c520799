SPECIFICATION Spec
CONSTANTS
    Models = {m1}
    Configs = {c1, c2}
    MaxRuns = 3
    MaxAddr = 1
    MaxReports = 0
    MaxCrashes = 0
    CanQuarantine = TRUE
    TaskMoves <- PlainMoves
    Faults = {}
SYMMETRY ConfigSymmetry
INVARIANTS
    LiveJobsWanted
    NoGhostAnnounced
    ReplacedRunsRetired
    WantedRunsTracked
PROPERTY SettledForever
