SPECIFICATION FairServiceSpec
CONSTANTS
    u1 = u1
    r1 = r1
    r2 = r2
    Users <- OneUser
    Owner = u1
    Keeper = keeper
    Operator = operator
    Treasury = treasury
    Core = core
    Splitter = splitter
    ZeroAddress = zero
    Jobs <- OneJob
    Providers <- EitherProvider
    Evaluators <- EitherEvaluator
    Amounts = {200}
    Spends = {}
    StartBalance = 200
    FeeBps = 100
    Runs <- OneRun
    Requests = {o1, o2}
    Procs = {p1, p2}
    ConfiguredCap = 500
    Estimate = 100
    Costs = {}
    MaxFailures = 1
PROPERTIES
    EscrowReleased
    SplitRecorded
CHECK_DEADLOCK FALSE
