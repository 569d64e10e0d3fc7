SPECIFICATION HubSpec
CONSTANTS
    Exercised = {"tips", "claims", "fees", "ratings", "keys", "spend"}
    alice = alice
    bob = bob
    w1 = w1
    w2 = w2
    c1 = c1
    c2 = c2
    f1 = f1
    f2 = f2
    f3 = f3
    m1 = m1
    m2 = m2
    g1 = g1
    x1 = x1
    q1 = q1
    q2 = q2
    u1 = u1
    u2 = u2
    b1 = b1
    b2 = b2
    n1 = n1
    n2 = n2
    k1 = k1
    k2 = k2
    p1 = p1
    p2 = p2
    t1 = t1
    Tips <- MixedTips
    PayerOf <- MixedPayers
    RailOf <- MixedRails
    UnitsOf <- MixedUnits
    ClaimReqs = {c1, c2}
    WalletOf <- TwoWallets
    RefundReqs = {f1, f2, f3}
    SignerOf <- Signers
    DigestOf <- Messages
    AskOf <- Amounts
    NoWallet = nobody
    HoldingBps = 5000
    GatewayFloor = 1
    MaxFaults = 1
    Gateways = {g1}
    Transfers = {x1}
    TipRequests = {q1, q2}
    UnlockRequests = {u1, u2}
    Bindings = {b1, b2}
    Contents = {n1, n2}
    Creators = {k1}
    FeeChoices = {2000, 3000, 6000}
    MaxFeeBps = 5000
    InitialFeeBps = 2000
    Delay = 2
    GracePeriod = 1
    Receipts = {1, 3}
    MaxTime = 5
    MaxReceived = 4
    Raters = {1, 2, 3}
    OldRaters = {1, 2}
    Scores = {1, 2, 5}
    MaxRatings = 4
    KeyRequests = {1, 2, 3}
    Window = 2
    MaxTick = 4
    MaxKeyFaults = 1
    NoRow = NoRow
    NoAnswer = 0
    Purchases = {p1, p2}
    Thanks = {t1}
    UrlOf <- OneUrl
    Price <- Prices
    Agents = {1, 2}
    NoAgent = 0
    DataStages = 2
    SpendDeposit = 2
    CallCeiling = 2
    LoopSpend = 2
    LoopSteps = 3
    MaxSpendFaults = 1
INVARIANTS
    HubTypeOK
    NoTipPaidTwice
    LedgersAgree
    OneRefundPerMessage
    SettledOnce
    ProofBuysOnce
    PurchasesAddUp
    SeededStatsMirror
    ExecutionsApart
PROPERTIES
    FeeMoveNoticed
CHECK_DEADLOCK FALSE
