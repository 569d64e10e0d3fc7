SPECIFICATION Spec
CONSTANTS
    Refs <- StageRefs
    Workers = {w1}
    Requests = {o1, o2}
    Sweepers = {s1}
    Rows <- FewRows
    RoundKinds <- ReviewOnly
    MaxRounds = 0
    MaxVersion = 1
    Deposit = 300
    InitialCap = 200
    Caps = {400}
    Estimate = 100
    Costs = {100, 150}
    OwnerOps = {"approve", "raise", "resume", "end"}
    StageFaults = {}
    MaxCrashes = 0
    MaxStalls = 0
    MaxJobs = 1
SYMMETRY Symmetry
INVARIANTS
    Solvent
PROPERTIES
    BudgetPromise
CHECK_DEADLOCK FALSE
