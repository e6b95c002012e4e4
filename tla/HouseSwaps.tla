----------------------------- MODULE HouseSwaps -----------------------------
(***************************************************************************)
(* Swaps against the inventory of the house (db/swap.rs, execute_house of  *)
(* api-http/swap.rs), with the transfers of a user between his wallets     *)
(* (db/wallet.rs) and the boots that undo an old seed of the inventory     *)
(* (db/house.rs), which change the same balances.                          *)
(*                                                                         *)
(* A request is quoted, looked up by its key, and then runs a transaction  *)
(* under the locks of the four wallets; prices move and retries come in    *)
(* between.  Points and commission follow the answer, in statements of     *)
(* their own.                                                              *)
(***************************************************************************)
EXTENDS Accounts

CONSTANTS SwapRequests,
          SwapKeys,                     \* idempotency keys, references of the ledger
          KeyOf, AmountOf, MinimumOf,   \* of a request: its key, fromAmount and minToAmount
          UserFrom, UserTo, HouseFrom, HouseTo, CaixaFrom,  \* wallets; the last is MERCHANT
          SwapBalance,
          Prices,                       \* of the source coin, in units of the other
          SwapFeeBps,
          LegacySeed,                   \* what was once minted into HouseTo
          SwapBoots

ASSUME HouseAssumption ==
    /\ IsFiniteSet(SwapKeys) /\ SwapKeys \subseteq Refs
    /\ KeyOf \in [SwapRequests -> SwapKeys] /\ AmountOf \in [SwapRequests -> Nat]
    /\ MinimumOf \in [SwapRequests -> Nat]
    /\ {UserFrom, UserTo, HouseFrom, HouseTo, CaixaFrom} \subseteq Wallets
    /\ UserFrom # UserTo /\ {UserFrom, UserTo} \cap {HouseFrom, HouseTo, CaixaFrom} = {}
    /\ HouseFrom # HouseTo /\ CaixaFrom \notin {HouseFrom, HouseTo}
    /\ {"SWAP_OUT", "SWAP_IN", "TRANSFER_OUT", "TRANSFER_IN", "ADJUSTMENT"} \subseteq Types
    /\ SwapBalance \in [Wallets -> Int]
    /\ Prices \subseteq Nat /\ SwapFeeBps \in Nat /\ LegacySeed \in Nat

VARIABLES price, swapReq, swaps,
          points,    \* awards made for a key
          cutShort,  \* keys whose answer was not followed by its award
          boot, reversals, bootsMet

houseVars == <<led, price, swapReq, swaps, points, cutShort, boot, reversals, bootsMet>>

NoSwap == [to |-> 0]
Fresh0 == [at |-> "new"]

HouseInit ==
    /\ led = [balance |-> SwapBalance, hold |-> {}, keys |-> {}]
    /\ price \in Prices
    /\ swapReq = [r \in SwapRequests |-> Fresh0]
    /\ swaps = [k \in SwapKeys |-> NoSwap]
    /\ points = [k \in SwapKeys |-> 0]
    /\ cutShort = {}
    /\ boot = [b \in SwapBoots |-> "down"]
    /\ reversals = 0 /\ bootsMet = FALSE

-----------------------------------------------------------------------------
\* compute_swap, with the decimals and the price of the other coin taken out.
Fee(gross) == (gross * SwapFeeBps) \div 10000
ComputeSwap(amount, p) == amount * p - Fee(amount * p)

\* Slip: the quote may be below what the client asked for.
AnyQuote(r) == TRUE

QuoteHolds(r) == ComputeSwap(AmountOf[r], price) > 0 /\ ComputeSwap(AmountOf[r], price) >= MinimumOf[r]

Answer(r, what) ==
    swapReq' = [swapReq EXCEPT ![r] = [at |-> what, made |-> swaps[KeyOf[r]] # NoSwap, price |-> price]]

\* execute, up to its transaction: the quote comes before the look-up.
QuoteAndFind(r) ==
    /\ swapReq[r] = Fresh0
    /\ IF ~ QuoteHolds(r) THEN Answer(r, "refused")
       ELSE IF swaps[KeyOf[r]] # NoSwap THEN Answer(r, "found")
       ELSE swapReq' = [swapReq EXCEPT ![r] = [at |-> "tx", price |-> price]]
    /\ UNCHANGED <<led, price, swaps, points, cutShort, boot, reversals, bootsMet>>

Conversion(r) ==
    LET k == KeyOf[r]
        out == ComputeSwap(AmountOf[r], swapReq[r].price)
    IN <<Entry(UserFrom, -AmountOf[r], "SWAP_OUT", k),
         Entry(HouseFrom, AmountOf[r], "SWAP_IN", k),
         Entry(HouseTo, -out, "SWAP_OUT", k),
         Entry(UserTo, out, "SWAP_IN", k)>>

\* The transaction: a key that is taken answers with its swap.
ExecuteSwap(r) ==
    /\ swapReq[r].at = "tx"
    /\ LET k == KeyOf[r] IN
       \/ /\ swaps[k] # NoSwap
          /\ swapReq' = [swapReq EXCEPT ![r].at = "found"]
          /\ UNCHANGED <<led, swaps>>
       \/ /\ swaps[k] = NoSwap /\ PostEach(Conversion(r))
          /\ swaps' = [swaps EXCEPT ![k] = [by |-> r, price |-> swapReq[r].price,
                                            to |-> ComputeSwap(AmountOf[r], swapReq[r].price)]]
          /\ swapReq' = [swapReq EXCEPT ![r].at = "created"]
       \/ /\ swaps[k] = NoSwap /\ ~ AdmitsEach(Conversion(r))
          /\ swapReq' = [swapReq EXCEPT ![r].at = "failed"]
          /\ UNCHANGED <<led, swaps>>
    /\ UNCHANGED <<price, points, cutShort, boot, reversals, bootsMet>>

Answered(r) == swapReq[r].at \in {"found", "created"}

\* execute_house: points and commission, whether the swap is new or not.
AwardSwap(r) ==
    /\ Answered(r)
    /\ points' = [points EXCEPT ![KeyOf[r]] = @ + 1]
    /\ swapReq' = [swapReq EXCEPT ![r].at = "done"]
    /\ UNCHANGED <<led, price, swaps, cutShort, boot, reversals, bootsMet>>

HandlerDies(r) ==
    /\ swapReq[r].at \in {"tx", "found", "created"}
    /\ cutShort' = cutShort \cup {KeyOf[r]}
    /\ swapReq' = [swapReq EXCEPT ![r].at = "lost"]
    /\ UNCHANGED <<led, price, swaps, points, boot, reversals, bootsMet>>

PriceMoves ==
    /\ \E p \in Prices \ {price} : price' = p
    /\ UNCHANGED <<led, swapReq, swaps, points, cutShort, boot, reversals, bootsMet>>

\* transfer_between_kinds, for an amount above zero.
TransferBetweenKinds(from, to, amount) ==
    /\ PostEach(<<Entry(from, -amount, "TRANSFER_OUT", NoRef),
                  Entry(to, amount, "TRANSFER_IN", NoRef)>>)
    /\ UNCHANGED <<price, swapReq, swaps, points, cutShort, boot, reversals, bootsMet>>

-----------------------------------------------------------------------------
\* reverse_legacy_liquidity_seed: one statement, which sees what was committed
\* when it began, and inserts without a look at the balance.
SeeSeed(b) ==
    /\ boot[b] = "down"
    /\ boot' = [boot EXCEPT ![b] = IF reversals = 0 THEN "reverses" ELSE "up"]
    /\ bootsMet' = (bootsMet \/ (reversals = 0 /\ \E o \in SwapBoots : boot[o] = "reverses"))
    /\ UNCHANGED <<led, price, swapReq, swaps, points, cutShort, reversals>>

ReverseSeed(b) ==
    /\ boot[b] = "reverses"
    /\ led' = Posted(led, Entry(HouseTo, -LegacySeed, "ADJUSTMENT", NoRef))
    /\ reversals' = reversals + 1
    /\ boot' = [boot EXCEPT ![b] = "up"]
    /\ UNCHANGED <<price, swapReq, swaps, points, cutShort, bootsMet>>

HouseNext ==
    \/ \E r \in SwapRequests : QuoteAndFind(r) \/ ExecuteSwap(r) \/ AwardSwap(r) \/ HandlerDies(r)
    \/ PriceMoves
    \/ TransferBetweenKinds(UserFrom, CaixaFrom, 1) \/ TransferBetweenKinds(CaixaFrom, UserFrom, 1)
    \/ \E b \in SwapBoots : SeeSeed(b) \/ ReverseSeed(b)

HouseSpec == HouseInit /\ [][HouseNext]_houseVars

-----------------------------------------------------------------------------
Swaps == [by : SwapRequests, price : Prices, to : Nat]

\* Requests that ran their transaction, and those that were answered before it.
InTx == [at : {"tx", "found", "created", "failed", "done", "lost"}, price : Prices]
Before == [at : {"refused", "found", "done", "lost"}, made : BOOLEAN, price : Prices]

HouseTypeOK ==
    /\ led \in Ledgers /\ price \in Prices
    /\ swapReq \in [SwapRequests -> {Fresh0} \cup InTx \cup Before]
    /\ swaps \in [SwapKeys -> {NoSwap} \cup Swaps]
    /\ points \in [SwapKeys -> Nat] /\ cutShort \subseteq SwapKeys
    /\ boot \in [SwapBoots -> {"down", "reverses", "up"}]
    /\ reversals \in Nat /\ bootsMet \in BOOLEAN

\* "returns the original swap instead of executing a second conversion"
\* (swap.rs:68-70): of each coin, the user and the house exchange what the
\* swaps say, and nothing is made or lost.
ConvertedOnce ==
    /\ \A r \in SwapRequests : swapReq[r].at \in {"found", "created", "done"} => swaps[KeyOf[r]] # NoSwap
    /\ led.balance[UserFrom] + led.balance[CaixaFrom] + led.balance[HouseFrom]
          = SwapBalance[UserFrom] + SwapBalance[CaixaFrom] + SwapBalance[HouseFrom]
    /\ led.balance[UserTo] - SwapBalance[UserTo]
          = SumFunctionOnSet([k \in SwapKeys |-> swaps[k].to], SwapKeys)

\* The client gets at least what he asked for, at the price he was quoted.
MinimumKept ==
    \A k \in SwapKeys : swaps[k] # NoSwap => swaps[k].to >= MinimumOf[swaps[k].by]

\* A retry of a swap that was made is turned away only if the price has moved
\* since (the quote is judged before the key is looked up), or if it asks for
\* something else.
RetriesAnswered ==
    \A r \in SwapRequests :
        swapReq[r].at = "refused" /\ swapReq[r].made =>
            \/ AmountOf[r] # AmountOf[swaps[KeyOf[r]].by]
            \/ swapReq[r].price # swaps[KeyOf[r]].price
            \/ MinimumOf[r] > MinimumOf[swaps[KeyOf[r]].by]

\* A swap is awarded, unless a handler was cut short.
SwapsAwarded ==
    \A k \in SwapKeys : swaps[k] # NoSwap /\ points[k] = 0 =>
        k \in cutShort \/ \E r \in SwapRequests : KeyOf[r] = k /\ Answered(r)

\* "Idempotent via memo guard" (house.rs:87): the seed is taken back once,
\* unless two processes boot at the same time.
SeedReversedOnce == ~ bootsMet => reversals <= 1

HouseInv == HouseTypeOK /\ ConvertedOnce /\ MinimumKept /\ RetriesAnswered /\ SwapsAwarded /\ SeedReversedOnce

=============================================================================
