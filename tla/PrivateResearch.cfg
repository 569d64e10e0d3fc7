SPECIFICATION PrivateSpec
CONSTANTS
    Requests = {r1, r2, e1}
    Exports = {e1}
    Workers = {w1, w2}
    Work <- AskWork
    Questions <- AskQuestions
    Deposit = 3
    BudgetCap = 5
    MonthCap = 3
    CallHold = 2
    MinHold = 1
    ToolHold = 2
    ToolPrice = 1
    MaxCovered = 1
    MaxCalls = 2
    MaxPrivateFaults = 1
    NoFreeze = NoFreeze
    NoWorker = nobody
    NoRequest = NoRequest
SYMMETRY Symmetry
CONSTRAINTS
    ExportsEarly
    LoadsEarly
INVARIANTS
    PrivateTypeOK
    OneOpenAction
    LocalOnce
    SpendWithinLimits
    FrozenChargesFixed
    PaidOnce
    PaidIsAnswered
PROPERTIES
    ResultsStay
CHECK_DEADLOCK FALSE
