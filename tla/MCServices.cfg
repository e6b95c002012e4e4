SPECIFICATION Spec
CONSTANTS
    Wallets <- MCWallets
    Types <- MCTypes
    Refs <- MCRefs
    NoRef = "null"

    MaxTokens = 3
    Requests = {q1, q2}
    Grace = TRUE

    MaxCodes = 2
    CodeRequests = {q1, q2}
    MaxAttempts = 2

    Grants = {c1, c2}
    Bearers = {b1, b2}
    OAuthRequests = {q1, q2}

    Signed = {"r1", "r2"}
    IdemKeys = {"k1", "k2"}
    IdemOf <- MCIdemOf
    SendOf <- MCSendOf
    RecipientOf <- MCRecipientOf
    MerchantPot = "merchant"
    DeveloperPot = "developer"
    PotBalance <- Opening
    Handlers = {h1, h2}
    Skew = 1
    Ahead = 1
    DayLength = 2
    MaxNow = 2
    SendLimit = 1
    KeyExpires = 3
    RequireSignature = FALSE

    Stakes = {"a", "b"}
    Plans <- MCPlans
    Principals = {2, 4}
    StakerWallet = "staker"
    HouseWallet = "stakeHouse"
    StakeBalance <- Opening
    StakeConns = {c1, c2}
    Year = 4
    LastDay = 3

    Claims = {"q1", "q2"}
    ClaimantWallet = "user"
    FaucetWallet = "faucet"
    FaucetBalance <- Opening
    FaucetReward = 1
    FaucetFloor = 1
    Cooldown = 1
    Boots = {b1, b2}
    MaxDeposits = 1
    LastTime = 1

    LendUsers = {"u", "v"}
    Coins = {"A", "B"}
    UserWallet <- MCUserWallet
    PoolWallet <- MCPoolWallet
    LendBalance <- Opening
    PositionRef <- MCPositionRef
    LendRequests <- Asks
    Market <- MCMarket
    CloseFactor = 7500
    LendPrices <- MCLendPrices
    Ray = 4
    LendYear = 2
    LastTick = 1
    MaxOpen = 2

    Programs = {"p1", "p2"}
    Emission <- MCEmission
    StartAt <- MCStartAt
    EndAt <- MCEndAt
    Users = {"u1", "u2"}
    WalletOf <- MCWalletOf
    Staked <- MCStaked
    RewardsWallet = "rewards"
    RewardBalance <- Opening
    Workers = {w1, w2}
    Horizon = 2
    MaxBrought = 1

    Batches <- MCBatches
    Kind <- MCKind
    Rpcs = 2
    MaxUnheard = 1
    Gas = 1
    TopUp = 8
    MinGas = 5
    PolDust = 1
    MinSweep = 5
    HotNative = 20
    HotToken = 3
    Native = 12
    Token = 2
    EvmAmount = 2
INVARIANTS
    SessionsInv    StakingInv AirdropInv RewardInv EvmInv
    LendInv
CHECK_DEADLOCK FALSE
