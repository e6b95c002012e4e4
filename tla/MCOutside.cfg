SPECIFICATION OutsideSpec
CONSTANTS
    fromWallet = fromWallet
    toWallet = toWallet
    r1 = r1
    r2 = r2
    k1 = k1
    k2 = k2
    key = key
    NoRef = NoRef
    Wallets <- TwoWallets
    Types <- DexTypes
    Refs <- TwoRequests
    Swaps <- TwoRequests
    Payloads <- TwoRequests
    KeyOf <- SameKey
    FromWallet <- MCFrom
    ToWallet <- MCTo
    FromAmount <- MCFromAmount
    ToAmount <- MCToAmount
    InitialBalance <- MCBalance
    InitialHolds <- NoHolds
    Workers <- TwoWorkers
    MaxSends = 2
    MaxFaults = 1
    MaxJobs = 2
    MaxAttempts = 1
    Coins = {"BTC", "BCH", "DGB", "ZER"}
    Deposits = {"d1"}
    DepositOuts <- MCDepositOuts
    HotOuts <- MCHotOuts
    Withdrawals = {"w1", "w2"}
    Sweeps = {"s1"}
    Amount = 12000
    FeeRates = {1, 2}
INVARIANTS
    Inv
    PaidOnceUnlessMarred
    UtxoInv
    MarketInv
PROPERTIES
    StatusesMove
SYMMETRY Alike
CHECK_DEADLOCK FALSE
