------------------------------ MODULE Invoices ------------------------------
(***************************************************************************)
(* The merchant gateway: invoices a customer pays on a chain, in a coin of *)
(* his choice, or from a balance (db/merchant_deposits.rs and              *)
(* merchant_multicoin.rs, with the handlers of api-http), the watcher that *)
(* finds the payments (worker/invoice_watcher.rs) and the signed webhook   *)
(* that tells the merchant (webhooks).                                     *)
(*                                                                         *)
(* An invoice is told apart by its order id; its price in each coin is     *)
(* fixed when the coin is first shown.  The watcher works from a row it    *)
(* listed before, and takes each statement of a scan as a step of its own. *)
(***************************************************************************)
EXTENDS Accounts

CONSTANTS Invoices,          \* order ids, and references of the ledger
          Coins,             \* the accepted coins
          FirstCoins,        \* those of them an invoice may be opened in
          Price,             \* amount of the invoice in a coin, in units of the ledger
          FeeBps,            \* GATEWAY_FEE_BPS
          PayerWallet,       \* of a coin: the wallet of the customer who pays from a balance
          MerchantWallet,
          InvoiceBalance,    \* of the wallets, at first
          Payments,          \* amounts a customer may send on a chain
          Watchers,          \* replicas of the worker
          MaxReceived,       \* of a coin: the bound on what its address receives
          MaxPosts,          \* the bound on the deliveries in progress
          MaxWebhooks,       \* MAX_WEBHOOK_ATTEMPTS
          MaxInvoiceFaults   \* the bound on crashes, lost statements and tests of the webhook

\* An order id refers to one order; the wallets of the customer differ by their coin,
\* and so do those of the merchant.
ASSUME InvoicesAssumption ==
    /\ Invoices \subseteq Refs
    /\ {"MERCHANT_CHECKOUT", "MERCHANT_DEPOSIT"} \subseteq Types
    /\ "none" \notin Coins /\ FirstCoins \subseteq Coins
    /\ Price \in [Coins -> Nat] /\ FeeBps \in Nat /\ Payments \subseteq Nat
    /\ PayerWallet \in [Coins -> Wallets] /\ IsInjective(PayerWallet)
    /\ MerchantWallet \in [Coins -> Wallets] /\ IsInjective(MerchantWallet)
    /\ InvoiceBalance \in [Wallets -> Int]
    /\ MaxWebhooks \in Nat /\ MaxInvoiceFaults \in Nat

VARIABLES inv,      \* rows of merchant_deposit_invoices
          opening,  \* the coin whose address a request that creates has yet to register
          shown,    \* the invoices whose address the merchant was given
          addrs,    \* merchant_invoice_addresses: the coins, in the order of their rows
          chain,    \* what the address of a coin has received
          tick,     \* a watcher in the middle of a scan
          posts,    \* deliveries in progress
          heard,    \* the invoices the merchant was told are confirmed
          invFaults

invoiceVars == <<led, inv, opening, shown, addrs, chain, tick, posts, heard, invFaults>>

Open == {"PENDING", "DETECTED"}
InvoiceStatuses == Open \cup {"NONE", "CONFIRMED", "EXPIRED"}
NoCoin == "none"

\* split_fee: the fee is cut to whole units, in the merchant's favour.
Net(a) == a - (a * FeeBps) \div 10000

Checkout(i, c) == Entry(PayerWallet[c], -Price[c], "MERCHANT_CHECKOUT", i)
Income(i, c) == Entry(MerchantWallet[c], Net(Price[c]), "MERCHANT_DEPOSIT", i)

NoRow == [status |-> "NONE", coin |-> NoCoin, locked |-> FALSE, due |-> FALSE,
          by |-> "nobody", told |-> FALSE, tries |-> 0, retry |-> FALSE]

NotScanning == [at |-> "idle"]
NoPost == [stage |-> "free"]

NoOrders ==
    /\ inv = [i \in Invoices |-> NoRow]
    /\ opening = [i \in Invoices |-> NoCoin]
    /\ shown = {}
    /\ addrs = [i \in Invoices |-> <<>>]
    /\ chain = [i \in Invoices |-> [c \in Coins |-> [seen |-> 0, deep |-> 0]]]
    /\ tick = [w \in Watchers |-> NotScanning]
    /\ posts = [p \in 1..MaxPosts |-> NoPost]
    /\ heard = {}
    /\ invFaults = 0

InvoicesInit == led = [balance |-> InvoiceBalance, hold |-> {}, keys |-> {}] /\ NoOrders

-----------------------------------------------------------------------------
(***************************************************************************)
(* The merchant asks for an invoice, the customer chooses a coin.          *)
(***************************************************************************)

\* With one accepted coin there is nothing to choose.
Opened(c) == [NoRow EXCEPT !.status = "PENDING", !.coin = c, !.locked = (Cardinality(Coins) = 1)]

\* The order is new and one of its coins can be priced and has an address:
\* create_invoice, first statement.  (merchant_id, order_id) is unique.
InsertInvoice(i) ==
    /\ inv[i].status = "NONE"
    /\ \E c \in FirstCoins :
          /\ inv' = [inv EXCEPT ![i] = Opened(c)]
          /\ opening' = [opening EXCEPT ![i] = c]
    /\ UNCHANGED <<led, shown, addrs, chain, tick, posts, heard, invFaults>>

\* ON CONFLICT (invoice_id, coin): the first address of a coin stays.
WithAddress(cs, c) == IF Contains(cs, c) THEN cs ELSE Append(cs, c)

\* Its second statement, and the answer.
RegisterAddress(i) ==
    /\ opening[i] # NoCoin
    /\ addrs' = [addrs EXCEPT ![i] = WithAddress(@, opening[i])]
    /\ opening' = [opening EXCEPT ![i] = NoCoin]
    /\ shown' = shown \cup {i}
    /\ UNCHANGED <<led, inv, chain, tick, posts, heard, invFaults>>

\* The same order again: the row there is, as long as it can be paid.
ReplayInvoice(i) ==
    /\ inv[i].status \in Open /\ ~ inv[i].due
    /\ shown' = shown \cup {i}
    /\ UNCHANGED <<led, inv, opening, addrs, chain, tick, posts, heard, invFaults>>

\* Slip: the selection is not frozen once money is on its way.
SelectableAnyway(i) == inv[i].status = "PENDING" /\ ~ inv[i].due

Selectable(i) == ~ inv[i].locked /\ inv[i].status = "PENDING" /\ ~ inv[i].due

\* select_coin_handler: the address of the coin is stored ...
ShowCoin(i, c) ==
    /\ i \in shown /\ Selectable(i) /\ ~ Contains(addrs[i], c)
    /\ addrs' = [addrs EXCEPT ![i] = Append(@, c)]
    /\ UNCHANGED <<led, inv, opening, shown, chain, tick, posts, heard, invFaults>>

\* ... and select_coin looks again whether the choice is still open.
SelectCoin(i, c) ==
    /\ Contains(addrs[i], c) /\ inv[i].coin # c /\ Selectable(i)
    /\ inv' = [inv EXCEPT ![i].coin = c]
    /\ UNCHANGED <<led, opening, shown, addrs, chain, tick, posts, heard, invFaults>>

\* Time, and expire_due_invoices.
FallDue(i) ==
    /\ inv[i].status \in Open /\ ~ inv[i].due
    /\ inv' = [inv EXCEPT ![i].due = TRUE]
    /\ UNCHANGED <<led, opening, shown, addrs, chain, tick, posts, heard, invFaults>>

Overdue == {i \in Invoices : inv[i].status \in Open /\ inv[i].due}

ExpireDueInvoices ==
    /\ Overdue # {}
    /\ inv' = [i \in Invoices |-> IF i \in Overdue THEN [inv[i] EXCEPT !.status = "EXPIRED"] ELSE inv[i]]
    /\ UNCHANGED <<led, opening, shown, addrs, chain, tick, posts, heard, invFaults>>

-----------------------------------------------------------------------------
(***************************************************************************)
(* The chain: a customer pays an address he was shown once, whichever coin *)
(* is selected now.  A payment after the confirmation is left out: nothing *)
(* looks for it.                                                           *)
(***************************************************************************)
Receive(i, c, n) ==
    /\ i \in shown /\ Contains(addrs[i], c) /\ inv[i].status # "CONFIRMED"
    /\ chain[i][c].seen + n <= MaxReceived[c]
    /\ chain' = [chain EXCEPT ![i][c].seen = @ + n]
    /\ UNCHANGED <<led, inv, opening, shown, addrs, tick, posts, heard, invFaults>>

\* min_confirmations
Bury(i, c) ==
    /\ chain[i][c].deep < chain[i][c].seen /\ inv[i].status # "CONFIRMED"
    /\ chain' = [chain EXCEPT ![i][c].deep = chain[i][c].seen]
    /\ UNCHANGED <<led, inv, opening, shown, addrs, tick, posts, heard, invFaults>>

-----------------------------------------------------------------------------
(***************************************************************************)
(* dispatch_invoice_webhook: post, record the outcome, schedule a retry.   *)
(* What is posted is the row as the caller read it.                        *)
(***************************************************************************)
FreePost(p) == posts[p] = NoPost /\ \A q \in 1..(p - 1) : posts[q] # NoPost

Dispatching(i, row) ==
    \E p \in DOMAIN posts :
        /\ FreePost(p)
        /\ posts' = [posts EXCEPT ![p] = [stage |-> "post", inv |-> i, status |-> row.status,
                                          attempt |-> row.tries + 1, ok |-> FALSE]]

PostSigned(p) ==
    /\ posts[p].stage = "post"
    /\ \E ok \in BOOLEAN :
          /\ posts' = [posts EXCEPT ![p].stage = "record", ![p].ok = ok]
          /\ heard' = IF ok /\ posts[p].status = "CONFIRMED" THEN heard \cup {posts[p].inv} ELSE heard
    /\ UNCHANGED <<led, inv, opening, shown, addrs, chain, tick, invFaults>>

RecordWebhookDelivery(p) ==
    /\ posts[p].stage = "record"
    /\ inv' = [inv EXCEPT ![posts[p].inv].told = posts[p].ok,
                          ![posts[p].inv].tries = IF @ < MaxWebhooks THEN @ + 1 ELSE @]
    /\ posts' = [posts EXCEPT ![p].stage = "schedule"]
    /\ UNCHANGED <<led, opening, shown, addrs, chain, tick, heard, invFaults>>

\* Slip: the last attempt but one is the last.
RetryOnce(d) == ~ d.ok /\ d.attempt + 1 < MaxWebhooks

RetryAgain(d) == ~ d.ok /\ d.attempt < MaxWebhooks

ScheduleWebhookRetry(p) ==
    /\ posts[p].stage = "schedule"
    /\ inv' = [inv EXCEPT ![posts[p].inv].retry = RetryAgain(posts[p])]
    /\ posts' = [posts EXCEPT ![p] = NoPost]
    /\ UNCHANGED <<led, opening, shown, addrs, chain, tick, heard, invFaults>>

\* list_webhook_retries
RedeliverWebhook(i) ==
    /\ inv[i].status = "CONFIRMED" /\ ~ inv[i].told /\ inv[i].tries < MaxWebhooks /\ inv[i].retry
    /\ Dispatching(i, inv[i])
    /\ UNCHANGED <<led, inv, opening, shown, addrs, chain, tick, heard, invFaults>>

-----------------------------------------------------------------------------
(***************************************************************************)
(* Payment from a balance: one transaction, and a webhook from a task of   *)
(* its own.                                                                *)
(***************************************************************************)

Payable(i) == inv[i].status \in Open /\ ~ inv[i].due

PayInvoiceWithBalance(i) ==
    /\ i \in shown /\ Payable(i)
    /\ PostEach(<<Checkout(i, inv[i].coin), Income(i, inv[i].coin)>>)
    /\ inv' = [inv EXCEPT ![i].status = "CONFIRMED", ![i].by = "balance"]
    /\ Dispatching(i, inv'[i])
    /\ UNCHANGED <<opening, shown, addrs, chain, tick, heard, invFaults>>

-----------------------------------------------------------------------------
(***************************************************************************)
(* The watcher.  scan.coin and scan.left are what it read at first.        *)
(***************************************************************************)
At(w, a) == tick[w].at = a
GoOn(w, a) == tick' = [tick EXCEPT ![w].at = a]
NextAddress(w) == tick' = [tick EXCEPT ![w].at = "scan", ![w].left = Tail(@)]
Paid(w) == Head(tick[w].left)

ListOpenInvoice(w, i) ==
    /\ At(w, "idle") /\ inv[i].status \in Open /\ ~ inv[i].due
    /\ tick' = [tick EXCEPT ![w] = [at |-> "listed", inv |-> i, coin |-> inv[i].coin,
                                    left |-> <<>>, full |-> FALSE]]
    /\ UNCHANGED <<led, inv, opening, shown, addrs, chain, posts, heard, invFaults>>

ListInvoiceAddresses(w) ==
    /\ At(w, "listed")
    /\ tick' = [tick EXCEPT ![w].at = "scan", ![w].left = addrs[tick[w].inv]]
    /\ UNCHANGED <<led, inv, opening, shown, addrs, chain, posts, heard, invFaults>>

\* Slip: unconfirmed coins count.
CompleteUnconfirmed(got, c) == got.seen >= Price[c]

\* Against the amount of this coin, whatever is selected.
Complete(got, c) == got.deep >= Price[c]

\* Nothing there: the next address.
FetchDeposits(w) ==
    /\ At(w, "scan") /\ tick[w].left # <<>>
    /\ LET c == Paid(w)
           got == chain[tick[w].inv][c]
       IN  IF got.seen = 0
           THEN NextAddress(w)
           ELSE tick' = [tick EXCEPT ![w].at = "lock", ![w].full = Complete(got, c)]
    /\ UNCHANGED <<led, inv, opening, shown, addrs, chain, posts, heard, invFaults>>

ScanEnds(w) ==
    /\ At(w, "scan") /\ tick[w].left = <<>>
    /\ tick' = [tick EXCEPT ![w] = NotScanning]
    /\ UNCHANGED <<led, inv, opening, shown, addrs, chain, posts, heard, invFaults>>

LockCoin(w) ==
    /\ At(w, "lock")
    /\ inv' = [inv EXCEPT ![tick[w].inv].locked = TRUE]
    /\ GoOn(w, "point")
    /\ UNCHANGED <<led, opening, shown, addrs, chain, posts, heard, invFaults>>

\* Slip: a confirmed invoice is repointed too.
RepointableAnyway(i) == TRUE

Repointable(i) == inv[i].status # "CONFIRMED"

\* The coin of the row as it was listed, not as it is.
PointSelectionAt(w) ==
    /\ At(w, "point")
    /\ LET i == tick[w].inv IN
       inv' = IF tick[w].coin # Paid(w) /\ Repointable(i)
              THEN [inv EXCEPT ![i].coin = Paid(w)]
              ELSE inv
    /\ GoOn(w, "detect")
    /\ UNCHANGED <<led, opening, shown, addrs, chain, posts, heard, invFaults>>

MarkInvoiceDetected(w) ==
    /\ At(w, "detect")
    /\ inv' = [inv EXCEPT ![tick[w].inv].status = IF @ \in Open THEN "DETECTED" ELSE @]
    /\ IF tick[w].full THEN GoOn(w, "confirm") ELSE NextAddress(w)
    /\ UNCHANGED <<led, opening, shown, addrs, chain, posts, heard, invFaults>>

\* Slip: the invoice is confirmed whatever its row says by now.
ConfirmableAnyway(i) == TRUE

Confirmable(i) == inv[i].status \in Open

ConfirmInvoice(w) ==
    LET i == tick[w].inv IN
    /\ At(w, "confirm")
    /\ Confirmable(i)
    /\ Post(Income(i, inv[i].coin))
    /\ inv' = [inv EXCEPT ![i].status = "CONFIRMED", ![i].by = "chain"]
    /\ GoOn(w, "dispatch")
    /\ UNCHANGED <<opening, shown, addrs, chain, posts, heard, invFaults>>

\* Confirmed by another, which is as good; or expired, which is an error.
ConfirmNothing(w) ==
    /\ At(w, "confirm") /\ ~ Confirmable(tick[w].inv)
    /\ IF inv[tick[w].inv].status = "CONFIRMED" THEN GoOn(w, "dispatch") ELSE NextAddress(w)
    /\ UNCHANGED <<led, inv, opening, shown, addrs, chain, posts, heard, invFaults>>

\* The sweep to the hot wallet moves coins between addresses of the platform.
DispatchWebhook(w) ==
    /\ At(w, "dispatch")
    /\ Dispatching(tick[w].inv, inv[tick[w].inv])
    /\ tick' = [tick EXCEPT ![w] = NotScanning]
    /\ UNCHANGED <<led, inv, opening, shown, addrs, chain, heard, invFaults>>

-----------------------------------------------------------------------------
(***************************************************************************)
(* Faults, and the merchant's test of his webhook.                         *)
(***************************************************************************)
InvoiceFault == invFaults < MaxInvoiceFaults /\ invFaults' = invFaults + 1

\* The process, or its database, fails between two statements.
RequestStops(i) ==
    /\ opening[i] # NoCoin /\ InvoiceFault
    /\ opening' = [opening EXCEPT ![i] = NoCoin]
    /\ UNCHANGED <<led, inv, shown, addrs, chain, tick, posts, heard>>

WatcherStops(w) ==
    /\ tick[w] # NotScanning /\ InvoiceFault
    /\ tick' = [tick EXCEPT ![w] = NotScanning]
    /\ UNCHANGED <<led, inv, opening, shown, addrs, chain, posts, heard>>

DeliveryStops(p) ==
    /\ posts[p] # NoPost /\ InvoiceFault
    /\ posts' = [posts EXCEPT ![p] = NoPost]
    /\ UNCHANGED <<led, inv, opening, shown, addrs, chain, tick, heard>>

\* test_webhook_handler: the same delivery, of a row in any status.
TestWebhook(i) ==
    /\ inv[i].status # "NONE" /\ InvoiceFault
    /\ Dispatching(i, inv[i])
    /\ UNCHANGED <<led, inv, opening, shown, addrs, chain, tick, heard>>

-----------------------------------------------------------------------------
WatcherStep(w) ==
    \/ ListInvoiceAddresses(w) \/ FetchDeposits(w) \/ ScanEnds(w) \/ LockCoin(w)
    \/ PointSelectionAt(w) \/ MarkInvoiceDetected(w) \/ ConfirmInvoice(w) \/ ConfirmNothing(w)
    \/ DispatchWebhook(w)

DeliveryStep(p) == PostSigned(p) \/ RecordWebhookDelivery(p) \/ ScheduleWebhookRetry(p)

InvoicesNext ==
    \/ \E i \in Invoices :
          \/ InsertInvoice(i) \/ RegisterAddress(i) \/ ReplayInvoice(i)
          \/ FallDue(i) \/ PayInvoiceWithBalance(i) \/ RedeliverWebhook(i)
          \/ RequestStops(i) \/ TestWebhook(i)
          \/ \E c \in Coins : ShowCoin(i, c) \/ SelectCoin(i, c) \/ Bury(i, c)
          \/ \E c \in Coins, n \in Payments : Receive(i, c, n)
    \/ ExpireDueInvoices
    \/ \E w \in Watchers :
          \/ WatcherStep(w) \/ WatcherStops(w)
          \/ \E i \in Invoices : ListOpenInvoice(w, i)
    \/ \E p \in DOMAIN posts : DeliveryStep(p) \/ DeliveryStops(p)

\* The worker ticks, and a request that began goes on.
InvoicesFairness ==
    /\ \A w \in Watchers : WF_invoiceVars(WatcherStep(w))
    /\ \A p \in 1..MaxPosts : WF_invoiceVars(DeliveryStep(p))
    /\ \A i \in Invoices : WF_invoiceVars(RedeliverWebhook(i))

InvoicesSpec == InvoicesInit /\ [][InvoicesNext]_invoiceVars /\ InvoicesFairness

-----------------------------------------------------------------------------
InvoicesTypeOK ==
    /\ led \in Ledgers
    /\ inv \in [Invoices -> [status : InvoiceStatuses, coin : Coins \cup {NoCoin}, locked : BOOLEAN,
                             due : BOOLEAN, by : {"nobody", "chain", "balance"}, told : BOOLEAN,
                             tries : 0..MaxWebhooks, retry : BOOLEAN]]
    /\ opening \in [Invoices -> Coins \cup {NoCoin}]
    /\ shown \subseteq Invoices
    /\ \A i \in Invoices : Range(addrs[i]) \subseteq Coins /\ IsInjective(addrs[i])
    /\ \A i \in Invoices, c \in Coins : 0 <= chain[i][c].deep /\ chain[i][c].deep <= chain[i][c].seen
    /\ heard \subseteq Invoices
    /\ invFaults \in 0..MaxInvoiceFaults

\* A merchant is credited for an invoice in one coin at most, and exactly when
\* the invoice is confirmed; the customer's balance is debited, in the same
\* coin, exactly when it is what paid.  The watcher and the checkout race for
\* the row, and the ledger's index does not see a credit in another coin.
CreditedOnce ==
    \A i \in Invoices : \A c \in Coins :
        /\ Recorded(MerchantWallet[c], "MERCHANT_DEPOSIT", i)
              <=> inv[i].status = "CONFIRMED" /\ inv[i].coin = c
        /\ Recorded(PayerWallet[c], "MERCHANT_CHECKOUT", i)
              <=> inv[i].by = "balance" /\ inv[i].coin = c

\* The watcher confirms only what one address of the invoice has received in
\* full and deep enough, whatever was selected and listed meanwhile.
ConfirmedWasPaid ==
    \A i \in Invoices :
        inv[i].by = "chain" => \E c \in Coins : chain[i][c].deep >= Price[c]

\* "PENDING -> DETECTED -> CONFIRMED | EXPIRED" (http-api-reference.md:488),
\* and once the coin is locked only money that arrived moves the selection.
Onward == {<<"NONE", "PENDING">>, <<"PENDING", "DETECTED">>} \cup (Open \X {"CONFIRMED", "EXPIRED"})

Moves ==
    \A i \in Invoices :
       /\ inv'[i].status # inv[i].status => <<inv[i].status, inv'[i].status>> \in Onward
       /\ inv[i].locked /\ inv'[i].coin # inv[i].coin => chain[i][inv'[i].coin].seen > 0

InvoicesMove == [][Moves]_invoiceVars

\* The address a merchant was given is one the watcher scans, unless the
\* request that created the invoice stopped between its two statements.
ShownIsWatched ==
    \A i \in Invoices :
        i \in shown /\ invFaults = 0 => opening[i] # NoCoin \/ Contains(addrs[i], inv[i].coin)

\* What a merchant and a customer rely on.
InvoicesInv == InvoicesTypeOK /\ CreditedOnce /\ ConfirmedWasPaid /\ ShownIsWatched

\* With no fault and no test in between, the merchant hears of every confirmed
\* invoice, or all the attempts have been made.
Told(i) == i \in heard \/ inv[i].tries = MaxWebhooks \/ invFaults > 0

ConfirmedIsTold == \A i \in Invoices : inv[i].status = "CONFIRMED" ~> Told(i)
=============================================================================
