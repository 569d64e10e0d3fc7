SPECIFICATION FairSpec
CONSTANTS
    Refs <- StageRefs
    Workers = {w1}
    Requests = {o1}
    Sweepers = {s1}
    Rows <- FewRows
    RoundKinds <- ReviewOnly
    MaxRounds = 0
    MaxVersion = 1
    Deposit = 500
    InitialCap = 500
    Caps = {500}
    Estimate = 100
    Costs = {100}
    OwnerOps = {"approve", "pause", "end"}
    StageFaults = {}
    MaxCrashes = 1
    MaxStalls = 0
    MaxJobs = 1
PROPERTIES
    EventuallySettled
    RunsMove
CHECK_DEADLOCK FALSE
