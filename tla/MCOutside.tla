----------------------------- MODULE MCOutside -----------------------------
(***************************************************************************)
(* What depends on the world outside, each alone: the swaps of MCDexSwaps, *)
(* the clients of the chains of outputs, and quotes and prices, which      *)
(* share the variables s1 to s7.  What does not run stays as it begins.    *)
(***************************************************************************)
EXTENDS MCDexSwaps, UtxoChain

VARIABLES running, s1, s2, s3, s4, s5, s6, s7

shared == <<s1, s2, s3, s4, s5, s6, s7>>
outsideVars == <<vars, utxoVars, running, shared>>

(***************************************************************************)
(* Chains of outputs: a deposit of three outputs, two withdrawals of the   *)
(* one output the hot wallet has, and a sweep.                             *)
(***************************************************************************)
MCDepositOuts ==
    [d1 |-> <<[to |-> "deposit", val |-> 20000], [to |-> "deposit", val |-> 900], [to |-> "legacy", val |-> 15000]>>]
MCHotOuts == <<[to |-> "hot", val |-> 40000]>>

(***************************************************************************)
(* The market: answers of every kind for a pair of each kind; a coin that  *)
(* three providers price, one of them wrongly, and one that one does.      *)
(***************************************************************************)
SwapkitRoute(human, slip, hint, provider) ==
    [human |-> human, slip |-> slip, hint |-> hint, provider |-> provider]

Quoting == INSTANCE Quotes WITH
    Pairs <- {<<"POL", "USDT">>, <<"SOL", "POL">>, <<"PEPE", "POL">>, <<"BTC", "SOL">>},
    Amount <- 100,
    Configured <- {{"swapkit", "relay", "changenow", "house"}, {"relay", "changenow"}, {"swapkit"}},
    SwapkitAnswers <-
        {[up |-> FALSE, routes |-> <<>>], [up |-> TRUE, routes |-> <<>>],
         [up |-> TRUE, routes |-> <<SwapkitRoute(2009, 0, "contractCall", "ONEINCH"),
                                    SwapkitRoute(0, 0, "simpleTransfer", "ONEINCH"),
                                    SwapkitRoute(2500, 2405, "transferWithMemo", "RELAY")>>]},
    RelayAnswers <-
        {[up |-> FALSE, steps |-> FALSE, out |-> 0], [up |-> TRUE, steps |-> FALSE, out |-> 1],
         [up |-> TRUE, steps |-> TRUE, out |-> 2017], [up |-> TRUE, steps |-> TRUE, out |-> 1500]},
    ChangenowAnswers <-
        {[up |-> FALSE, human |-> 0, fee |-> 0, memo |-> FALSE],
         [up |-> TRUE, human |-> 2100, fee |-> 0, memo |-> FALSE],
         [up |-> TRUE, human |-> 2073, fee |-> 159, memo |-> FALSE],
         [up |-> TRUE, human |-> 2073, fee |-> 170, memo |-> TRUE],
         [up |-> TRUE, human |-> 15, fee |-> 0, memo |-> TRUE]},
    HouseAnswers <- {0, 190, 200}, Bps <- 2, Base <- 100, Slip <- 2,
    pair <- s1, on <- s2, market <- s3, moved <- s4, routes <- s5, errors <- s6, swap <- s7

Oracle == INSTANCE Pricing WITH
    Providers <- <<"Binance", "Kraken", "CoinGecko">>,
    Serves <- [Binance |-> {"BTC"}, Kraken |-> {"BTC"}, CoinGecko |-> {"BTC", "ZER"}],
    Coins <- <<"BTC", "ZER">>, Markets <- [BTC |-> {2, 8}, ZER |-> {6}], Par <- 2,
    Liars <- {"Kraken"}, Refreshers <- {"w1"}, FetchTicks <- 1, MaxStale <- 0, MaxTime <- 3,
    hist <- s1, refresh <- s2, cache <- s3, table <- s4

-----------------------------------------------------------------------------
OutsideInit ==
    /\ DexInit /\ UtxoInit
    /\ \/ running \in {"DexSwaps", "UtxoChain"}
          /\ s1 = "off" /\ s2 = "off" /\ s3 = "off" /\ s4 = "off" /\ s5 = "off" /\ s6 = "off" /\ s7 = "off"
       \/ running = "Quotes" /\ Quoting!Init
       \/ running = "Pricing" /\ Oracle!Init
          /\ s5 = "off" /\ s6 = "off" /\ s7 = "off"
    \* Of a chain that does not run, one is enough.
    /\ running # "UtxoChain" => coin = "BTC"

OutsideNext ==
    \/ running = "DexSwaps" /\ DexNext
       /\ UNCHANGED <<utxoVars, running, shared>>
    \/ running = "UtxoChain" /\ UtxoNext
       /\ UNCHANGED <<vars, running, shared>>
    \/ running = "Quotes" /\ Quoting!Next
       /\ UNCHANGED <<vars, utxoVars, running>>
    \/ running = "Pricing" /\ Oracle!Next
       /\ UNCHANGED <<vars, utxoVars, running, s5, s6, s7>>

OutsideSpec == OutsideInit /\ [][OutsideNext]_outsideVars

-----------------------------------------------------------------------------
\* A quote may be relied on, and a table of prices in use is whole and recent
\* (crates/api-http/src/swap.rs, crates/db/src/pricing.rs).
MarketInv ==
    /\ running = "Quotes" => Quoting!QuotesInv
    /\ running = "Pricing" => Oracle!PricingInv
=============================================================================
