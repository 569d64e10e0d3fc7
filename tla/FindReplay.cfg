SPECIFICATION Spec
CONSTANTS
    Refs <- StageRefs
    Workers = {w1}
    Requests = {o1}
    Sweepers = {s1}
    Rows <- RowIds
    RoundKinds <- ReviewOnly
    MaxRounds = 0
    MaxVersion = 1
    Deposit = 500
    InitialCap = 500
    Caps = {500}
    Estimate = 100
    Costs = {100}
    OwnerOps = {"approve"}
    StageFaults = {}
    MaxCrashes = 1
    MaxStalls = 0
    MaxJobs = 2
SYMMETRY Symmetry
INVARIANTS
    CrashesFailNoRun
CHECK_DEADLOCK FALSE
