SPECIFICATION HoldLiveSpec
CONSTANTS
    alice = alice
    f1 = f1
    m1 = m1
    Tips <- LoneTip
    PayerOf <- LonePayer
    RailOf <- LoneRail
    UnitsOf <- LoneUnits
    ClaimReqs = {}
    WalletOf <- NoClaims
    RefundReqs = {f1}
    SignerOf <- LoneSigner
    DigestOf <- LoneMessage
    AskOf <- LoneAmount
    NoWallet = nobody
    HoldingBps = 5000
    GatewayFloor = 1
    MaxFaults = 0
PROPERTY HeldIsReclaimable
CHECK_DEADLOCK FALSE
