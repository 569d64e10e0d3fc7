SPECIFICATION Spec
CONSTANTS
    Refs <- StageRefs
    Workers = {w1, w2}
    Requests = {o1}
    Sweepers = {s1}
    Rows <- FewRows
    RoundKinds <- ReviewOnly
    MaxRounds = 0
    MaxVersion = 1
    Deposit = 500
    InitialCap = 500
    Caps = {500}
    Estimate = 100
    Costs = {100}
    OwnerOps = {"approve", "end"}
    StageFaults = {}
    MaxCrashes = 0
    MaxStalls = 1
    MaxJobs = 2
SYMMETRY Symmetry
INVARIANTS
    OneActiveStep
    ChargedOnce
CHECK_DEADLOCK FALSE
