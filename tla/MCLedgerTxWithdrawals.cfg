SPECIFICATION Spec
CONSTANTS
    btc = btc
    ltc = ltc
    houseBtc = houseBtc
    houseLtc = houseLtc
    dep = dep
    wd = wd
    wd2 = wd2
    swap = swap
    back = back
    claim = claim
    tx1 = tx1
    tx2 = tx2
    NoTx = NoTx
    NoRef = NoRef
    Wallets <- MCWallets
    Types <- MCTypes
    Refs <- MCRefs
    Rank <- MCRank
    MaxRank = 4
    Txs <- MCTxs
    InitialBalance <- MCInitialBalance
    Programs <- TwoWithdrawals
INVARIANT DeadlockFree
