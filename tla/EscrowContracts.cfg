SPECIFICATION FairSpec
CONSTANTS
    u1 = u1
    u2 = u2
    Users <- TwoUsers
    Keeper = keeper
    Operator = operator
    Treasury = treasury
    Core = core
    Splitter = splitter
    ZeroAddress = zero
    Jobs <- TwoJobs
    Providers <- AnyProvider
    Evaluators <- AnyEvaluator
    Amounts = {100, 250}
    Spends = {130, 300}
    StartBalance = 300
    FeeBps = 100
INVARIANTS
    FundsHeld
PROPERTIES
    DividedOnce
    FundedTermsFixed
    RefundReachable
    AttestedIsSplit
CHECK_DEADLOCK FALSE
