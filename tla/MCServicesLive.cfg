SPECIFICATION Spec
CONSTANTS
    Wallets <- MCWallets
    Types <- MCTypes
    Refs = {"i1", "r1", "e1", "e2"}
    NoRef = "null"

    Invoices = {"i1"}
    Coins = {"BTC", "POL"}
    FirstCoins = {"BTC"}
    Price <- MCPrice
    FeeBps = 5000
    PayerWallet <- MCPayerWallet
    MerchantWallet <- MCMerchantWallet
    InvoiceBalance <- Opening
    Payments = {1}
    Watchers = {"w1"}
    MaxReceived <- MCMaxReceived
    MaxPosts = 1
    MaxWebhooks = 2
    MaxInvoiceFaults = 1

    Events = {"e1", "e2", "e3"}
    AggregateOf <- MCAggregateOf
    Undecodable = {"e3"}
    Relays = {"r1", "r2"}
    BatchSize = 2
    MaxRelayFaults = 1

    SwapRequests = {"q1", "q2", "q3"}
    SwapKeys = {"e1", "e2"}
    KeyOf <- MCKeyOf
    AmountOf <- MCAmountOf
    MinimumOf <- MCMinimumOf
    UserFrom = "userFrom"
    UserTo = "userTo"
    HouseFrom = "houseFrom"
    HouseTo = "houseTo"
    CaixaFrom = "caixa"
    SwapBalance <- Opening
    Prices = {2, 4}
    SwapFeeBps = 2500
    LegacySeed = 3
    SwapBoots = {b1, b2}
INVARIANTS InvoicesInv OutboxInv 
PROPERTIES InvoicesMove ConfirmedIsTold CommittedIsHandled 
CHECK_DEADLOCK FALSE
