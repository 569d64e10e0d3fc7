SPECIFICATION Spec
CONSTANTS
    Refs <- StageRefs
    Workers = {w1, w2}
    Requests = {o1}
    Sweepers = {s1}
    Rows <- FewRows
    RoundKinds <- ReviewOnly
    MaxRounds = 0
    MaxVersion = 1
    Deposit = 500
    InitialCap = 500
    Caps = {500}
    Estimate = 100
    Costs = {200}
    OwnerOps = {"approve", "pause", "resume", "end"}
    StageFaults = {}
    MaxCrashes = 1
    MaxStalls = 0
    MaxJobs = 1
SYMMETRY Symmetry
INVARIANTS
    DoneOnce
    CompleteIsPaid
PROPERTIES
    RefundAfterDrain
CHECK_DEADLOCK FALSE
