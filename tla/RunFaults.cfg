SPECIFICATION Spec
CONSTANTS
    Refs <- StageRefs
    Workers = {w1}
    Requests = {o1}
    Sweepers = {s1}
    Rows <- ManyRows
    RoundKinds <- MediumRound
    MaxRounds = 1
    MaxVersion = 2
    Deposit = 500
    InitialCap = 500
    Caps = {500}
    Estimate = 100
    Costs = {100}
    OwnerOps = {"approve", "revise"}
    StageFaults = {"throw", "jev", "skip"}
    MaxCrashes = 0
    MaxStalls = 0
    MaxJobs = 1
SYMMETRY Symmetry
INVARIANTS
    UnfinishedIsFree
    RoundsInOrder
CHECK_DEADLOCK FALSE
