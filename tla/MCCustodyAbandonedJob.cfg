SPECIFICATION FairSpec
CONSTANTS
    alice = alice
    r1 = r1
    r2 = r2
    r3 = r3
    o1 = o1
    o2 = o2
    k1 = k1
    k2 = k2
    watcher1 = watcher1
    watcher2 = watcher2
    key = key
    NoKey = NoKey
    NoReply = NoReply
    NoRef = NoRef
    Wallets <- OneWallet
    Types <- MCTypes
    Refs <- MCRefs
    Requests <- OneRequest
    Payloads <- OneRequest
    WalletOf <- AliceWallets
    KeyOf <- MCKeys
    AmountOf <- MCAmounts
    Fee <- MCFee
    Threshold <- MCThreshold
    Workers <- OneWorker
    MaxFaults = 1
    MaxJobs = 2
    MaxAttempts = 2
    Outputs <- NoOutputs
    DepositWallet <- AliceDeposits
    DepositAmount <- MCDeposits
    Watchers <- OneWatcher
    MaxReorgs = 0
    MaxMisses = 0
    InitialBalance <- MCBalance
PROPERTY AbandonedJobsResume
CHECK_DEADLOCK FALSE
