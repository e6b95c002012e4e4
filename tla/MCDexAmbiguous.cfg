SPECIFICATION Spec
CONSTANTS
    fromWallet = fromWallet
    toWallet = toWallet
    r1 = r1
    r2 = r2
    k1 = k1
    k2 = k2
    key = key
    NoRef = NoRef
    Wallets <- TwoWallets
    Types <- DexTypes
    Refs <- OneRequest
    Swaps <- OneRequest
    Payloads <- OneRequest
    KeyOf <- SameKey
    FromWallet <- MCFrom
    ToWallet <- MCTo
    FromAmount <- MCFromAmount
    ToAmount <- MCToAmount
    InitialBalance <- MCBalance
    InitialHolds <- NoHolds
    Workers <- OneWorker
    MaxSends = 2
    MaxFaults = 0
    MaxJobs = 2
    MaxAttempts = 1
INVARIANT
    NotReturnedWhilePaid
CHECK_DEADLOCK FALSE
