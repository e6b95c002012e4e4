---------------------------- MODULE MCServicesLive ----------------------------
(***************************************************************************)
(* The services of which something must happen in the end, each alone, as  *)
(* in MCServices: an invoice that is payable in two coins, and paid in     *)
(* part in one of them, with a worker, a webhook of two attempts and one   *)
(* fault; three events of two aggregates, one of which cannot be decoded,  *)
(* with two relays and one fault; a swap at an outside exchange with one   *)
(* worker and one fault, which is instantiated, with the variables s1 to   *)
(* s10, "off" while another runs.  And the swaps of the house, for which   *)
(* MCServices has no room.                                                 *)
(***************************************************************************)
EXTENDS Invoices, Outbox, HouseSwaps

VARIABLES running, s1, s2, s3, s4, s5, s6, s7, s8, s9, s10

shared == <<s1, s2, s3, s4, s5, s6, s7, s8, s9, s10>>
vars == <<running, shared, invoiceVars, outboxVars, houseVars>>

\* What each wallet has at first; no two services share one.
Amounts ==
    [payerBtc |-> 3, payerPol |-> 0, merchantBtc |-> 0, merchantPol |-> 0, from |-> 3, to |-> 0,
     userFrom |-> 2, userTo |-> 0, houseFrom |-> 0, houseTo |-> 6, caixa |-> 0]

MCWallets == DOMAIN Amounts
Opening == [w \in MCWallets |-> Amounts[w]]
MCTypes ==
    {"MERCHANT_CHECKOUT", "MERCHANT_DEPOSIT", "DEX_SWAP_OUT", "DEX_SWAP_IN", "DEX_SWAP_REFUND",
     "ADJUSTMENT", "TRANSFER_OUT", "TRANSFER_IN", "SWAP_OUT", "SWAP_IN"}
MCPrice == [BTC |-> 2, POL |-> 1]
MCPayerWallet == [BTC |-> "payerBtc", POL |-> "payerPol"]
MCMerchantWallet == [BTC |-> "merchantBtc", POL |-> "merchantPol"]
MCMaxReceived == [BTC |-> 1, POL |-> 1]
MCAggregateOf == [e1 |-> "a", e2 |-> "a", e3 |-> "b"]

\* The house: three swaps under two keys.
MCKeyOf == [q1 |-> "e1", q2 |-> "e1", q3 |-> "e2"]
MCAmountOf == [q1 |-> 1, q2 |-> 1, q3 |-> 1]
MCMinimumOf == [q1 |-> 3, q2 |-> 3, q3 |-> 1]

Dex == INSTANCE DexSwaps WITH
    Payloads <- {"r1"}, Swaps <- {"r1"}, KeyOf <- [r1 |-> "key"],
    FromWallet <- [r1 |-> "from"], ToWallet <- [r1 |-> "to"],
    FromAmount <- [r1 |-> 2], ToAmount <- [r1 |-> 3], InitialBalance <- Opening,
    InitialHolds <- {{}, {"to"}}, Workers <- {"k1"}, MaxSends <- 2, MaxFaults <- 1,
    MaxJobs <- 1, MaxAttempts <- 1,
    by <- s1, kind <- s2, api <- s3, st <- s4, hand <- s5, sent <- s6, prov <- s7, marred <- s8,
    faults <- s9, jobs <- s10

-------------------------------------------------------------------------------
\* The variables of the invoices, but for the ledger.
invoiceRest == <<inv, opening, shown, addrs, chain, tick, posts, heard, invFaults>>
houseRest == <<price, swapReq, swaps, points, cutShort, boot, reversals, bootsMet>>

Off ==
    /\ s1 = "off" /\ s2 = "off" /\ s3 = "off" /\ s4 = "off" /\ s5 = "off"
    /\ s6 = "off" /\ s7 = "off" /\ s8 = "off" /\ s9 = "off" /\ s10 = "off"

\* HouseInit, but for the ledger, in which a wallet of the DEX swap
\* may be on hold.
NoConversions ==
    /\ price \in Prices
    /\ swapReq = [r \in SwapRequests |-> Fresh0]
    /\ swaps = [k \in SwapKeys |-> NoSwap] /\ points = [k \in SwapKeys |-> 0] /\ cutShort = {}
    /\ boot = [b \in SwapBoots |-> "down"] /\ reversals = 0 /\ bootsMet = FALSE

\* They begin together; the price is chosen when the house runs.
Init ==
    /\ \/ running \in {"Invoices", "Outbox"} /\ InvoicesInit /\ Off
       \/ running = "HouseSwaps" /\ HouseInit /\ Off
       \/ running = "DexSwaps" /\ Dex!DexInit
    /\ NoOrders /\ OutboxInit /\ NoConversions
    /\ running # "HouseSwaps" => price = 2

Selling(A) == running = "Invoices" /\ A /\ UNCHANGED <<running, shared, outboxVars, houseRest>>
Relaying(A) == running = "Outbox" /\ A /\ UNCHANGED <<running, shared, invoiceVars, houseRest>>
Swapping(A) == running = "DexSwaps" /\ A /\ UNCHANGED <<running, invoiceRest, outboxVars, houseRest>>

Next ==
    \/ Selling(InvoicesNext) \/ Relaying(OutboxNext) \/ Swapping(Dex!DexNext)
    \/ running = "HouseSwaps" /\ HouseNext /\ UNCHANGED <<running, shared, invoiceRest, outboxVars>>

\* InvoicesFairness, OutboxFairness and DexFairness.
Fairness ==
    /\ \A w \in Watchers : WF_vars(Selling(WatcherStep(w)))
    /\ \A p \in 1..MaxPosts : WF_vars(Selling(DeliveryStep(p)))
    /\ \A i \in Invoices : WF_vars(Selling(RedeliverWebhook(i)))
    /\ \A r \in Relays : WF_vars(Relaying(RelayOnce(r)))
    /\ SF_vars(Swapping(Dex!Poll("k1", "r1")))
    /\ WF_vars(Swapping(Dex!WorkerStep("k1")))

Spec == Init /\ [][Next]_vars /\ Fairness

-------------------------------------------------------------------------------
\* A failed swap, or one the exchange is done with, is settled: track_inflight comes
\* back to it until it is (crates/worker/src/dex_swap_runner.rs:315-376).
SettledInTheEnd ==
    (running = "DexSwaps" /\ Dex!Due("r1")) ~> (running = "DexSwaps" => Dex!Settled("r1"))
===============================================================================
