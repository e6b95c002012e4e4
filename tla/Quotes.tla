--------------------------------- MODULE Quotes ---------------------------------
(***************************************************************************)
(* Quotes of swaps and what becomes of them (build_quotes and execute of   *)
(* crates/api-http/src/swap.rs, with the clients of SwapKit, Relay and     *)
(* ChangeNOW).  A quote gathers the routes of whichever providers serve    *)
(* the pair; the user takes one, with the least it may give; the route is  *)
(* asked for anew, and the swap is locked at what it gives now.            *)
(*                                                                         *)
(* The market is external: what each provider answers, which may change    *)
(* once between the quote and the swap.  Amounts a provider writes as      *)
(* decimals have one digit more than the ledger keeps.  What happens to a  *)
(* locked swap is in DexSwaps.                                             *)
(***************************************************************************)
EXTENDS Naturals, Sequences, SequencesExt, FiniteSets

CONSTANTS
    Pairs,             \* the pairs asked for, each <<from, to>>
    Amount,            \* what is offered, in ledger units
    Configured,        \* sets of providers switched on
    SwapkitAnswers,    \* [up, routes], routes a sequence of
                       \* [human, slip, hint, provider]; 0 for a missing amount
    RelayAnswers,      \* [up, steps, out], out in on-chain units
    ChangenowAnswers,  \* [up, human, fee, memo]; fee 0 for none
    HouseAnswers,      \* what the house would give; 0 when it has no price
    Bps, Base,         \* the platform's fee: Bps of Base
    Slip               \* the slippage allowed, of Base

VARIABLES
    pair, on, market, moved,
    routes,  \* what the quote offered, a sequence
    errors,  \* providers the quote names as failing
    swap     \* the swap: what was asked, and what came of it

vars == <<pair, on, market, moved, routes, errors, swap>>

Polygon == {"POL", "USDT", "USDC"}
Providers == {"swapkit", "relay", "changenow", "house"}

\* A decimal with a digit more than the ledger has: the digit is dropped.
ToLedger(human) == human \div 10

\* USDT and USDC have two digits less on chain, the others more.
FromOnchain(coin, out) == IF coin \in {"USDT", "USDC"} THEN out * 10 ELSE out \div 10

Cut(out) == (out * Bps) \div Base

Greater(a, b) == IF a > b THEN a ELSE b
SlippageFloor(expected) == Greater(expected - (expected * Slip) \div Base, 1)

(***************************************************************************)
(* Which providers serve a pair                                            *)
(***************************************************************************)
\* Polygon alone for SwapKit; Polygon, or a bridge between Polygon, SOL and PEPE
\* (on BSC), for Relay; all but PEPE and ZER for ChangeNOW.
Serves(p, from, to) ==
    CASE p = "swapkit" -> {from, to} \subseteq Polygon
      [] p = "relay" -> {from, to} \subseteq Polygon \cup {"SOL", "PEPE"}
      [] p = "changenow" -> {from, to} \cap {"PEPE", "ZER"} = {}
      [] p = "house" -> TRUE

Asked(p) == p \in on /\ Serves(p, pair[1], pair[2])

Priority(r) ==
    CASE r.hint = "simpleTransfer" -> 0 [] r.hint = "transferWithMemo" -> 1
      [] r.hint \in {"contractCall", "solanaRelay"} -> 2 [] OTHER -> 3

(***************************************************************************)
(* What each answer becomes                                                *)
(***************************************************************************)
Route(source, expected, min, hint, provider) ==
    [source |-> source, expected |-> expected, min |-> min, fee |-> (Amount * Bps) \div Base,
     hint |-> hint, provider |-> provider]

\* A route without an amount is left out; without a floor, its amount is the floor.
MapDexRoute(r) ==
    Route("swapkit", ToLedger(r.human), ToLedger(IF r.slip = 0 THEN r.human ELSE r.slip), r.hint, r.provider)

SwapkitRoutes(a) ==
    IF ~ a.up THEN <<>>
    ELSE LET some == SelectSeq(a.routes, LAMBDA r : r.human # 0)
         IN [i \in DOMAIN some |-> MapDexRoute(some[i])]

\* parse_quote_response: no executable step is an error.
RelayOk(a) == a.up /\ a.steps
RelayOut(a) == FromOnchain(pair[2], a.out)
RelayRoutes(a) ==
    IF ~ RelayOk(a) THEN <<>>
    ELSE <<Route("relay", RelayOut(a), SlippageFloor(RelayOut(a)),
                 IF pair[1] = "SOL" THEN "solanaRelay" ELSE "contractCall", "RELAY")>>

\* The fee of the deposit may be 15 hundredths of the amount, rounded down.
FeeTooBig(a) == a.fee # 0 /\ (ToLedger(a.fee) * 100) \div Amount > 15
ChangenowOut(a) == ToLedger(a.human) - Cut(ToLedger(a.human))
ChangenowRoutes(a) ==
    IF ~ a.up \/ FeeTooBig(a) THEN <<>>
    ELSE LET out == Greater(ChangenowOut(a), 1)
         IN <<Route("changenow", out, SlippageFloor(out), "simpleTransfer", "CHANGENOW")>>

HouseRoutes(out) == IF out = 0 THEN <<>> ELSE <<Route("house", out, out, "none", "SatsPay Liquidity")>>

(***************************************************************************)
(* Quote                                                                   *)
(***************************************************************************)
NoSwap == [st |-> "none", want |-> Route("house", 0, 0, "none", "none"), source |-> "none",
           expected |-> 0, min |-> 0, fee |-> 0]

Init ==
    /\ pair \in Pairs
    /\ on \in Configured
    /\ market \in [swapkit : SwapkitAnswers, relay : RelayAnswers, changenow : ChangenowAnswers,
                   house : HouseAnswers, gas : BOOLEAN]
    /\ moved = FALSE
    /\ routes = <<>> /\ errors = {}
    /\ swap = NoSwap

\* ensure_hot_bnb_for_pepe_swap
NeedsGas == pair[1] = "PEPE" /\ ~ market.gas

Dex ==
    (IF Asked("swapkit") THEN SwapkitRoutes(market.swapkit) ELSE <<>>)
        \o (IF Asked("relay") THEN RelayRoutes(market.relay) ELSE <<>>)
        \o (IF Asked("changenow") THEN ChangenowRoutes(market.changenow) ELSE <<>>)

\* SwapKit's "no routes" is not an error; the errors of the others are added to
\* what SwapKit reports.
Failing ==
    {p \in {"swapkit", "relay", "changenow"} :
        Asked(p) /\ CASE p = "swapkit" -> ~ market.swapkit.up
                      [] p = "relay" -> ~ RelayOk(market.relay)
                      [] p = "changenow" -> ~ market.changenow.up \/ FeeTooBig(market.changenow)}

\* Slip: the last error takes the place of those before it.
LastError(failed) == IF "changenow" \in failed THEN {"changenow"} ELSE failed

\* merge_provider_errors
MergeErrors(failed) == failed

\* build_quotes: routes in order of what the hot wallet does best, the house last.
BuildQuotes ==
    /\ routes = <<>> /\ swap.st = "none"
    /\ IF NeedsGas
       THEN routes' = <<>> /\ errors' = {} /\ swap' = [swap EXCEPT !.st = "BNB_GAS_REQUIRED"]
       ELSE LET all == SortSeq(Dex, LAMBDA r, s : Priority(r) < Priority(s))
                       \o IF "house" \in on THEN HouseRoutes(market.house) ELSE <<>>
            IN IF all = <<>>
               THEN routes' = <<>> /\ errors' = {} /\ swap' = [swap EXCEPT !.st = "NO_ROUTES"]
               ELSE routes' = all /\ errors' = MergeErrors(Failing) /\ UNCHANGED swap
    /\ UNCHANGED <<pair, on, market, moved>>

\* The market moves, for one provider at a time.
Move ==
    /\ ~ moved /\ routes # <<>> /\ swap.st = "none"
    /\ moved' = TRUE
    /\ \/ \E a \in SwapkitAnswers : market' = [market EXCEPT !.swapkit = a]
       \/ \E a \in RelayAnswers : market' = [market EXCEPT !.relay = a]
       \/ \E a \in ChangenowAnswers : market' = [market EXCEPT !.changenow = a]
       \/ \E a \in HouseAnswers : market' = [market EXCEPT !.house = a]
       \/ market' = [market EXCEPT !.gas = ~ @]
    /\ UNCHANGED <<pair, on, routes, errors, swap>>

(***************************************************************************)
(* Execute                                                                 *)
(***************************************************************************)
\* Which handler takes the request: the house if anything names it, then Relay or
\* ChangeNOW if the source or the provider names it.
Handler(r) ==
    CASE r.source = "house" \/ r.provider = "SatsPay Liquidity" -> "house"
      [] r.source = "relay" \/ r.provider = "RELAY" -> "relay"
      [] r.source = "changenow" \/ r.provider = "CHANGENOW" -> "changenow"
      [] OTHER -> "swapkit"

Lock(r, source, expected) ==
    swap' = [st |-> "LOCKED", want |-> r, source |-> source, expected |-> expected, min |-> r.min,
             fee |-> (Amount * Bps) \div Base]
Refuse(r, code) == swap' = [NoSwap EXCEPT !.st = code, !.want = r]

\* Slip: the fresh quote is not compared.
AnyOutput(expected, min) == TRUE

\* expected_to >= min_to_amount, or SLIPPAGE.
Enough(expected, min) == expected >= min

ExecuteHouse(r) ==
    IF "house" \notin on THEN Refuse(r, "SWAP_HOUSE_DISABLED")
    ELSE IF market.house = 0 THEN Refuse(r, "NO_PRICE")
    ELSE IF ~ Enough(market.house, r.min) THEN Refuse(r, "SLIPPAGE")
    ELSE Lock(r, "house", market.house)

ExecuteRelay(r) ==
    LET out == RelayOut(market.relay)
    IN IF "relay" \notin on THEN Refuse(r, "NOT_CONFIGURED")
       ELSE IF NeedsGas THEN Refuse(r, "BNB_GAS_REQUIRED")
       ELSE IF ~ RelayOk(market.relay) THEN Refuse(r, "RELAY_ERROR")
       ELSE IF ~ Enough(out, r.min) THEN Refuse(r, "SLIPPAGE")
       ELSE Lock(r, "relay", out)

\* An exchange that gives no amount is taken at what the request expects.
Gross(a, r) == IF ToLedger(a.human) > 0 THEN ToLedger(a.human) ELSE r.expected

ExecuteChangenow(r) ==
    LET a == market.changenow
        out == Gross(a, r) - Cut(Gross(a, r))
    IN IF "changenow" \notin on \/ ~ Serves("changenow", pair[1], pair[2]) THEN Refuse(r, "NOT_CONFIGURED")
       ELSE IF ~ a.up THEN Refuse(r, "CHANGENOW_ERROR")
       ELSE IF out = 0 THEN Refuse(r, "TOO_SMALL")
       ELSE IF ~ Enough(out, r.min) THEN Refuse(r, "SLIPPAGE")
       ELSE IF a.memo THEN Refuse(r, "CHANGENOW_MEMO_UNSUPPORTED")
       ELSE Lock(r, "changenow", out)

\* The route is built by SwapKit, at the amount the request names.
ExecuteSwapkit(r) ==
    IF "swapkit" \notin on THEN Refuse(r, "NOT_CONFIGURED")
    ELSE IF ~ market.swapkit.up \/ market.swapkit.routes = <<>> THEN Refuse(r, "SWAPKIT_ERROR")
    ELSE Lock(r, "swapkit", r.expected)

Execute ==
    /\ routes # <<>> /\ swap.st = "none"
    /\ \E i \in DOMAIN routes :
           LET r == routes[i]
           IN CASE Handler(r) = "house" -> ExecuteHouse(r)
                [] Handler(r) = "relay" -> ExecuteRelay(r)
                [] Handler(r) = "changenow" -> ExecuteChangenow(r)
                [] OTHER -> ExecuteSwapkit(r)
    /\ UNCHANGED <<pair, on, market, moved, routes, errors>>

Next == BuildQuotes \/ Move \/ Execute

Spec == Init /\ [][Next]_vars

(***************************************************************************)
(* Properties                                                              *)
(***************************************************************************)
QuotesTypeOK ==
    /\ pair \in Pairs /\ on \subseteq Providers /\ moved \in BOOLEAN
    /\ \A i \in DOMAIN routes : routes[i].source \in Providers
    /\ errors \subseteq Providers

Locked == swap.st = "LOCKED"

\* Whatever the market did since, a swap is locked at no less than the user was
\* shown as the least, and at the fee the user was shown.
NoSurprise == Locked => swap.expected >= swap.want.min /\ swap.fee = swap.want.fee

\* What a quote offers can be had as long as nothing moves: the two paths agree on
\* who serves a pair, on amounts and on fees.  A memo that ChangeNOW asks for is
\* seen by execute alone, and a route of SwapKit that names Relay or ChangeNOW
\* goes to their handlers.
OffersHold ==
    swap.st \notin {"none", "NO_ROUTES"} /\ ~ Locked /\ routes # <<>> =>
        \/ moved
        \/ swap.st = "CHANGENOW_MEMO_UNSUPPORTED"
        \/ swap.want.source # Handler(swap.want)

\* A provider that serves the pair is in the list or named as failing; SwapKit may
\* have no route, or none with an amount.
NobodyForgotten ==
    routes # <<>> /\ ~ moved =>
        \A p \in {"relay", "changenow"} : Asked(p) =>
            p \in errors \/ \E i \in DOMAIN routes : routes[i].source = p

\* A quote may be relied on.
QuotesInv == QuotesTypeOK /\ NoSurprise /\ OffersHold /\ NobodyForgotten
=============================================================================
