------------------------------ MODULE DexSwaps ------------------------------
(***************************************************************************)
(* Swaps through an outside exchange: POST /v1/swap                        *)
(* (crates/api-http/src/swap.rs), the table dex_swaps and its transactions *)
(* (crates/db/src/dex_swap.rs) and the worker that pays the exchange and   *)
(* follows it (crates/worker/src/dex_swap_runner.rs).                      *)
(*                                                                         *)
(* A swap is named by the request that creates it.  The exchange and the   *)
(* chain are external: a broadcast is answered as the client classifies it *)
(* (crates/chain/src/types.rs), and the exchange may fill only what it was *)
(* paid.  The statuses CREDITING and REFUNDING exist only inside the       *)
(* transactions that set them.  A tick of a worker lists all active rows   *)
(* and handles them one after the other; swaps do not touch each other, so *)
(* the list is taken row by row, each as old as it likes when it is        *)
(* handled.                                                                *)
(***************************************************************************)
EXTENDS Accounts, JobQueue

CONSTANTS
    Swaps,       \* calls of POST /v1/swap, valid ones
    KeyOf,       \* swap -> idempotency key, scoped to its user
    FromWallet,  \* swap -> the user's PERSONAL wallet of from_coin
    ToWallet,    \* swap -> that of to_coin
    FromAmount, ToAmount,
    InitialBalance,
    InitialHolds, \* the sets of wallets that may be on hold
    Workers,
    MaxSends,    \* bound on the payments of one swap
    MaxFaults    \* bound on lost statements and stopped processes

(***************************************************************************)
(* call: a contract call on one chain; bridge: a call that starts a        *)
(* transfer to another chain; transfer: a payment to an address; memo: one *)
(* with a memo, which the hot wallet cannot make; mismatch: a call whose   *)
(* value is not the amount of the swap.                                    *)
(***************************************************************************)
Kinds == {"call", "bridge", "transfer", "memo", "mismatch"}

ASSUME DexAssumption ==
    /\ FromWallet \in [Swaps -> Wallets] /\ ToWallet \in [Swaps -> Wallets]
    /\ FromAmount \in [Swaps -> Nat \ {0}] /\ ToAmount \in [Swaps -> Nat \ {0}]
    /\ InitialBalance \in [Wallets -> Nat]
    /\ InitialHolds \subseteq SUBSET Wallets
    /\ Swaps \subseteq Refs /\ Payloads = Swaps
    /\ {"DEX_SWAP_OUT", "DEX_SWAP_IN", "DEX_SWAP_REFUND"} \subseteq Types
    /\ MaxSends \in Nat /\ MaxFaults \in Nat

VARIABLES
    by,      \* the exchange of a request, until it is refused
    kind,    \* how the exchange wants to be paid
    api,     \* where each request is
    st,      \* dex_swaps.status, "NONE" when there is no row
    hand,    \* what each worker is doing
    sent,    \* how often the hot wallet paid for each swap
    prov,    \* what the exchange says of it
    marred,  \* swaps something went wrong with, see MarredBy below
    faults

dexVars == <<by, kind, api, st, hand, sent, prov, marred, faults, jobs>>
vars == <<led, dexVars>>

\* How each exchange may want to be paid.  An order of ChangeNOW that asks for
\* a memo is refused before anything is debited.
Offers == [swapkit |-> {"call", "bridge", "transfer", "memo", "mismatch"},
           relay |-> {"call", "bridge", "mismatch"},
           changenow |-> {"transfer"}]

NeedsDeposit(s) == kind[s] \in {"transfer", "memo"}
Refused(s) == kind[s] \in {"memo", "mismatch"}

Statuses == {"NONE", "LOCKED", "BROADCASTING", "IN_FLIGHT", "COMPLETED", "FAILED", "REFUNDED"}

Final == {"COMPLETED", "REFUNDED"}

Debit(s) == Entry(FromWallet[s], -FromAmount[s], "DEX_SWAP_OUT", s)
Payout(s) == Entry(ToWallet[s], ToAmount[s], "DEX_SWAP_IN", s)
Return(s) == Entry(FromWallet[s], FromAmount[s], "DEX_SWAP_REFUND", s)

Poller == 0

HandAt == {"claimed", "sending", "sent", "asking", "receipt", "crediting", "failing", "ambiguous",
           "rejected", "refunding", "requeueing", "ok", "error"}

Idle == [at |-> "idle"]
At(a, s, j) == [at |-> a, swap |-> s, job |-> j]

\* Slip: the job does not look at the status.
DoneAnyway(s) == FALSE

\* The worker leaves these alone; it does not leave a FAILED one alone.
DoneWith(s) == st[s] \in {"COMPLETED", "REFUNDED", "IN_FLIGHT"}

DexInit ==
    /\ \E held \in InitialHolds :
          led = [balance |-> InitialBalance, hold |-> held, keys |-> {}]
    /\ JobsInit
    /\ by = [s \in Swaps |-> "none"]
    /\ kind = [s \in Swaps |-> "none"]
    /\ api = [s \in Swaps |-> "new"]
    /\ st = [s \in Swaps |-> "NONE"]
    /\ hand = [k \in Workers |-> Idle]
    /\ sent = [s \in Swaps |-> 0]
    /\ prov = [s \in Swaps |-> "pending"]
    /\ marred = {}
    /\ faults = 0

-----------------------------------------------------------------------------
(***************************************************************************)
(* The request.                                                            *)
(***************************************************************************)

\* find_by_idempotency
WithKey(r) == {s \in Swaps : st[s] # "NONE" /\ KeyOf[s] = KeyOf[r]}

Api(r, here, next) == api[r] = here /\ api' = [api EXCEPT ![r] = next]

\* Nothing is debited until the exchange has agreed: to a route it quoted, to
\* a fresh quote, or to an order; and not if that is below the user's minimum.
QuoteSwapkit(r) == Api(r, "new", "quoted") /\ by' = [by EXCEPT ![r] = "swapkit"]
QuoteRelay(r) == Api(r, "new", "quoted") /\ by' = [by EXCEPT ![r] = "relay"]
QuoteChangenow(r) == Api(r, "new", "quoted") /\ by' = [by EXCEPT ![r] = "changenow"]
QuoteFails(r) == Api(r, "new", "done") /\ UNCHANGED by

Quote(r) ==
    /\ QuoteSwapkit(r) \/ QuoteRelay(r) \/ QuoteChangenow(r) \/ QuoteFails(r)
    /\ UNCHANGED <<led, kind, st, hand, sent, prov, marred, faults, jobs>>

\* Slip: no key, no look-up.
LockUnseen(r) == TRUE

\* No row has the key: the look-ups, and in the end the unique index.
KeyFree(r) == WithKey(r) = {}

\* lock_and_create, one transaction.  A request that comes second is answered
\* with the row of the first.
LockAndCreate(r) ==
    /\ api[r] = "quoted"
    /\ \/ /\ KeyFree(r) /\ Post(Debit(r))
          /\ st' = [st EXCEPT ![r] = "LOCKED"]
          /\ \E c \in Offers[by[r]] : kind' = [kind EXCEPT ![r] = c]
          /\ api' = [api EXCEPT ![r] = "locked"]
          /\ UNCHANGED by
       \/ /\ ~ KeyFree(r) \/ ~ Admits(led, Debit(r))
          /\ api' = [api EXCEPT ![r] = "done"] /\ by' = [by EXCEPT ![r] = "none"]
          /\ UNCHANGED <<led, st, kind>>
    /\ UNCHANGED <<hand, sent, prov, marred, faults, jobs>>

\* mark_broadcasting; its error is dropped.
MarkBroadcasting(r) ==
    /\ Api(r, "locked", "marked")
    /\ st' = IF st[r] \in {"LOCKED", "BROADCASTING"}
             THEN [st EXCEPT ![r] = "BROADCASTING"] ELSE st
    /\ UNCHANGED <<led, by, kind, hand, sent, prov, marred, faults, jobs>>

EnqueueBroadcast(r) ==
    /\ Api(r, "marked", "done")
    /\ Enqueue(r)
    /\ UNCHANGED <<led, by, kind, st, hand, sent, prov, marred, faults>>

\* The statement fails and the handler goes on, or the process stops.
RequestFault(r) ==
    /\ faults < MaxFaults /\ faults' = faults + 1
    /\ \/ Api(r, "locked", "marked") \/ Api(r, "locked", "done") \/ Api(r, "marked", "done")
    /\ UNCHANGED <<led, by, kind, st, hand, sent, prov, marred, jobs>>

-----------------------------------------------------------------------------
(***************************************************************************)
(* The worker: a job of the queue, or a row of list_active.                *)
(***************************************************************************)

Becomes(k, a) == hand' = [hand EXCEPT ![k].at = a]

\* The poller drops what becomes of a row; a job ends well whatever tracking says.
Leave(k) ==
    hand' = [hand EXCEPT ![k] = IF @.job = Poller THEN Idle ELSE [@ EXCEPT !.at = "ok"]]

\* A job that made a call on one chain takes its receipt for the payout.
FallsBack(k) == hand[k].job # Poller /\ kind[hand[k].swap] = "call"

ClaimJob(k, j) ==
    /\ hand[k] = Idle
    /\ ClaimNext(j)
    /\ hand' = [hand EXCEPT ![k] = At("claimed", jobs[j].payload, j)]
    /\ UNCHANGED <<led, by, kind, api, st, sent, prov, marred, faults>>

\* Another worker is at a job of the swap, past its look at the row.
Overlapping(k, s) ==
    \E i \in Workers \ {k} :
        /\ hand[i].at \in {"sending", "sent", "failing", "ambiguous", "refunding"}
        /\ hand[i].swap = s

\* get_by_id at the start of process_broadcast: nothing claims the row.
ReadRow(k) ==
    /\ hand[k].at = "claimed"
    /\ LET s == hand[k].swap
       IN /\ \/ DoneWith(s) /\ Becomes(k, "ok")
             \/ ~ DoneWith(s) /\ NeedsDeposit(s) /\ st[s] = "LOCKED" /\ Becomes(k, "error")
             \/ /\ ~ DoneWith(s) /\ ~ (NeedsDeposit(s) /\ st[s] = "LOCKED")
                /\ Becomes(k, IF Refused(s) THEN "failing" ELSE "sending")
          /\ marred' = IF ~ DoneWith(s) /\ (Overlapping(k, s) \/ st[s] = "FAILED")
                       THEN marred \cup {s} ELSE marred
    /\ UNCHANGED <<led, by, kind, api, st, sent, prov, faults, jobs>>

\* broadcast_withdrawal, broadcast_evm_contract_call, broadcast_solana_relay_tx.
Send(k) ==
    /\ hand[k].at = "sending"
    /\ LET s == hand[k].swap
           Paid == sent' = [sent EXCEPT ![s] = @ + 1]
       IN \/ Becomes(k, "sent") /\ sent[s] < MaxSends /\ Paid /\ UNCHANGED marred
          \/ Becomes(k, "failing") /\ UNCHANGED <<sent, marred>>
          \/ /\ Becomes(k, "ambiguous") /\ (UNCHANGED sent \/ (sent[s] < MaxSends /\ Paid))
             /\ marred' = marred \cup {s}
    /\ UNCHANGED <<led, by, kind, api, st, prov, faults, jobs>>

\* mark_in_flight.  The row may have moved since it was read, or was never
\* marked BROADCASTING: then the job fails, and will be tried again.
MarkInFlight(k) ==
    /\ hand[k].at = "sent"
    /\ LET s == hand[k].swap
       IN IF st[s] \in {"BROADCASTING", "IN_FLIGHT"}
          THEN /\ st' = [st EXCEPT ![s] = "IN_FLIGHT"]
               /\ Becomes(k, "asking")
               /\ UNCHANGED marred
          ELSE /\ marred' = marred \cup {s}
               /\ Becomes(k, "error")
               /\ UNCHANGED st
    /\ UNCHANGED <<led, by, kind, api, sent, prov, faults, jobs>>

\* Slip: the status is set whatever it was.
FailableAnyway(s) == st[s] # "NONE"

Failable(s) == st[s] \notin Final \cup {"NONE"}

\* mark_failed.  What failed for certain is refunded next; what the exchange
\* rejected, and what is ambiguous, is left FAILED.
MarkFailed(k) ==
    /\ hand[k].at \in {"failing", "ambiguous", "rejected"}
    /\ LET s == hand[k].swap
       IN st' = IF Failable(s) THEN [st EXCEPT ![s] = "FAILED"] ELSE st
    /\ \/ hand[k].at = "failing" /\ Becomes(k, "refunding")
       \/ hand[k].at = "ambiguous" /\ Becomes(k, "error")
       \/ hand[k].at = "rejected" /\ Leave(k)
    /\ UNCHANGED <<led, by, kind, api, sent, prov, marred, faults, jobs>>

Refundable(s) == st[s] \notin Final \cup {"NONE"}

\* refund, one transaction; an error of it is dropped, by a job too.
Refund(k) ==
    /\ hand[k].at = "refunding"
    /\ LET s == hand[k].swap
       IN \/ /\ Refundable(s) /\ Post(Return(s))
             /\ st' = [st EXCEPT ![s] = "REFUNDED"]
          \/ /\ ~ Refundable(s) \/ ~ Admits(led, Return(s))
             /\ UNCHANGED <<led, st>>
    /\ IF hand[k].job = Poller THEN hand' = [hand EXCEPT ![k] = Idle] ELSE Becomes(k, "error")
    /\ UNCHANGED <<by, kind, api, sent, prov, marred, faults, jobs>>

\* TrackResponse: SwapKit may say what it paid out.  Its is_failed is asked by
\* nobody, so a swap that failed there stays in flight.
TrackComplete(s) == prov[s] \in {"success", "short"}

\* RelayIntentStatus: Relay never says an amount.
IntentSuccess(s) == prov[s] \in {"success", "short"}
IntentFailed(s) == prov[s] = "failed"

\* ChangeNowStatus; an order that lapsed counts as failed.
OrderSuccess(s) == prov[s] \in {"success", "short"}
OrderFailed(s) == prov[s] = "failed"

\* try_track_and_credit.  A job that made a call then takes the receipt for it.
AskSwapkit(k, s) ==
    \/ TrackComplete(s) /\ Becomes(k, IF prov[s] = "short" THEN "rejected" ELSE "crediting")
    \/ ~ TrackComplete(s) /\ IF FallsBack(k) THEN Becomes(k, "receipt") ELSE Leave(k)

\* try_credit_relay
AskRelay(k, s) ==
    \/ st[s] # "IN_FLIGHT" /\ Leave(k)
    \/ /\ st[s] = "IN_FLIGHT"
       /\ \/ IntentFailed(s) /\ Becomes(k, "rejected")
          \/ IntentSuccess(s) /\ Becomes(k, "crediting")
          \/ /\ ~ IntentFailed(s) /\ ~ IntentSuccess(s)
             /\ IF kind[s] = "call" THEN Becomes(k, "receipt") ELSE Leave(k)

\* try_credit_changenow
AskChangenow(k, s) ==
    \/ st[s] # "IN_FLIGHT" /\ Leave(k)
    \/ /\ st[s] = "IN_FLIGHT"
       /\ \/ OrderFailed(s) /\ Becomes(k, "rejected")
          \/ OrderSuccess(s) /\ Becomes(k, IF prov[s] = "short" THEN "rejected" ELSE "crediting")
          \/ ~ OrderFailed(s) /\ ~ OrderSuccess(s) /\ Leave(k)

\* The exchange is asked; for Relay's call on an EVM chain a job asks SwapKit,
\* for one on Solana, and as the poller, it asks Relay.
Ask(k) ==
    /\ hand[k].at = "asking"
    /\ LET s == hand[k].swap
       IN \/ by[s] = "changenow" /\ AskChangenow(k, s)
          \/ by[s] = "relay" /\ AskRelay(k, s)
          \/ (by[s] = "swapkit" \/ (by[s] = "relay" /\ FallsBack(k))) /\ AskSwapkit(k, s)
    /\ UNCHANGED <<led, by, kind, api, st, sent, prov, marred, faults, jobs>>

\* credit_same_chain_after_receipt, up to the transaction.
TakeReceipt(k) ==
    /\ hand[k].at = "receipt"
    /\ IF st[hand[k].swap] = "IN_FLIGHT" THEN Becomes(k, "crediting") ELSE Leave(k)
    /\ UNCHANGED <<led, by, kind, api, st, sent, prov, marred, faults, jobs>>

\* Slip: any row may be credited that is not COMPLETED.
CreditableAnyway(s) == st[s] \notin {"NONE", "COMPLETED"}

Creditable(s) == st[s] \in {"BROADCASTING", "IN_FLIGHT"}

\* credit_and_complete, one transaction.
CreditAndComplete(k) ==
    /\ hand[k].at = "crediting"
    /\ LET s == hand[k].swap
       IN \/ /\ Creditable(s) /\ Post(Payout(s))
             /\ st' = [st EXCEPT ![s] = "COMPLETED"]
          \/ /\ ~ Creditable(s) \/ ~ Admits(led, Payout(s))
             /\ UNCHANGED <<led, st>>
    /\ Leave(k)
    /\ UNCHANGED <<by, kind, api, sent, prov, marred, faults, jobs>>

EndJob(k) ==
    /\ \/ hand[k].at = "ok" /\ Complete(hand[k].job)
       \/ hand[k].at = "error" /\ Fail(hand[k].job)
    /\ hand' = [hand EXCEPT ![k] = Idle]
    /\ UNCHANGED <<led, by, kind, api, st, sent, prov, marred, faults>>

\* Slip: only what is in flight is followed.
ListInFlight(k, s) ==
    st[s] = "IN_FLIGHT" /\ hand' = [hand EXCEPT ![k] = At("asking", s, Poller)]

\* track_inflight: what is to be done about a row, by its status when listed.
ListActive(k, s) ==
    \/ st[s] = "IN_FLIGHT" /\ hand' = [hand EXCEPT ![k] = At("asking", s, Poller)]
    \/ st[s] \in {"LOCKED", "BROADCASTING"} /\ hand' = [hand EXCEPT ![k] = At("requeueing", s, Poller)]
    \/ st[s] = "FAILED" /\ hand' = [hand EXCEPT ![k] = At("refunding", s, Poller)]

Poll(k, s) ==
    /\ hand[k] = Idle
    /\ ListActive(k, s)
    /\ UNCHANGED <<led, by, kind, api, st, sent, prov, marred, faults, jobs>>

\* Every tick adds a job for a row that is LOCKED or BROADCASTING; when all
\* slots are taken the model adds none, the bound on such duplicates.
Requeue(k) ==
    /\ hand[k].at = "requeueing"
    /\ \/ ~ QueueFull /\ Enqueue(hand[k].swap)
       \/ QueueFull /\ UNCHANGED jobs
    /\ hand' = [hand EXCEPT ![k] = Idle]
    /\ UNCHANGED <<led, by, kind, api, st, sent, prov, marred, faults>>

\* A statement fails where its error is dropped, one that is not fails the
\* job, or the process stops and its job stays RUNNING.
WorkerFault(k) ==
    /\ hand[k] # Idle
    /\ faults < MaxFaults /\ faults' = faults + 1
    /\ \/ hand[k].at = "failing" /\ Becomes(k, "refunding")
       \/ hand[k].at \in {"claimed", "sent", "ambiguous"} /\ Becomes(k, "error")
       \/ hand[k].at = "refunding" /\ hand[k].job # Poller /\ Becomes(k, "error")
       \/ hand[k].at \in {"asking", "receipt", "crediting", "rejected"} /\ Leave(k)
       \/ /\ hand[k].at \in {"asking", "crediting", "rejected"} /\ FallsBack(k)
          /\ Becomes(k, "receipt")
       \/ hand' = [hand EXCEPT ![k] = Idle]
    /\ marred' = marred \cup {hand[k].swap}
    /\ UNCHANGED <<led, by, kind, api, st, sent, prov, jobs>>

\* The exchange fills what it was paid, perhaps with less than the minimum, or
\* gives it back, or lets the order lapse.
Answer(s) ==
    /\ prov[s] = "pending" /\ st[s] # "NONE"
    /\ \E p \in {"success", "short", "failed"} :
          /\ p \in {"success", "short"} => sent[s] > 0
          /\ prov' = [prov EXCEPT ![s] = p]
    /\ UNCHANGED <<led, by, kind, api, st, hand, sent, marred, faults, jobs>>

WorkerStep(k) ==
    \/ ReadRow(k) \/ Send(k) \/ MarkInFlight(k) \/ MarkFailed(k) \/ Refund(k)
    \/ Ask(k) \/ TakeReceipt(k) \/ CreditAndComplete(k) \/ EndJob(k) \/ Requeue(k)

DexNext ==
    \/ \E s \in Swaps : \/ Quote(s) \/ LockAndCreate(s) \/ MarkBroadcasting(s)
                        \/ EnqueueBroadcast(s) \/ RequestFault(s) \/ Answer(s)
    \/ \E k \in Workers :
          \/ \E j \in Jobs : ClaimJob(k, j)
          \/ \E s \in Swaps : Poll(k, s)
          \/ WorkerStep(k) \/ WorkerFault(k)

(***************************************************************************)
(* Both loops of a worker go on, row after row and job after job; the      *)
(* other actors owe nothing.                                               *)
(***************************************************************************)
DexFairness ==
    \A k \in Workers :
        /\ \A s \in Swaps : SF_vars(Poll(k, s))
        /\ WF_vars(WorkerStep(k))

Spec == DexInit /\ [][DexNext]_vars /\ DexFairness
-----------------------------------------------------------------------------
TypeOK ==
    /\ led \in Ledgers
    /\ JobsType
    /\ kind \in [Swaps -> Kinds \cup {"none"}]
    /\ by \in [Swaps -> DOMAIN Offers \cup {"none"}]
    /\ api \in [Swaps -> {"new", "quoted", "locked", "marked", "done"}]
    /\ st \in [Swaps -> Statuses]
    /\ hand \in [Workers -> {Idle} \cup [at : HandAt, swap : Swaps, job : Jobs \cup {Poller}]]
    /\ sent \in [Swaps -> 0..MaxSends]
    /\ prov \in [Swaps -> {"pending", "success", "short", "failed"}]
    /\ marred \subseteq Swaps
    /\ faults \in 0..MaxFaults

LedgerTellsStatus ==
    \A s \in Swaps :
        /\ Recorded(FromWallet[s], "DEX_SWAP_OUT", s) <=> st[s] # "NONE"
        /\ Recorded(ToWallet[s], "DEX_SWAP_IN", s) <=> st[s] = "COMPLETED"
        /\ Recorded(FromWallet[s], "DEX_SWAP_REFUND", s) <=> st[s] = "REFUNDED"

\* What a worker holds is a swap there is, and one in flight has been paid for.
HandsTell ==
    /\ \A k \in Workers : hand[k] # Idle =>
          /\ st[hand[k].swap] # "NONE"
          /\ hand[k].at \in {"sent", "asking", "receipt", "crediting", "rejected"} => sent[hand[k].swap] > 0
          /\ hand[k].at \in {"sending", "sent"} => ~ Refused(hand[k].swap)
    /\ \A s \in Swaps : st[s] \in {"IN_FLIGHT", "COMPLETED"} => sent[s] > 0

OneSwapPerKey ==
    \A s, t \in Swaps : st[s] # "NONE" /\ st[t] # "NONE" /\ KeyOf[s] = KeyOf[t] => s = t

(***************************************************************************)
(* The ledger rows tell the status of every swap (so none is both paid out *)
(* and refunded), and only what was paid for is in flight or completed:    *)
(* credit_and_complete and refund (dex_swap.rs:333, 425) race under the    *)
(* lock of the row, with mark_failed (410) in between.  Requests with one  *)
(* idempotency key are one swap (144-157, 211-221), however they           *)
(* interleave.                                                             *)
(***************************************************************************)
Inv == TypeOK /\ LedgerTellsStatus /\ HandsTell /\ OneSwapPerKey

(***************************************************************************)
(* When is a swap paid for twice, or paid for and refunded although the    *)
(* exchange did its part?  Only when marred: two jobs of it overlapped, a  *)
(* FAILED row was taken up again, it was paid before mark_broadcasting,    *)
(* the client's answer was ambiguous, or a statement or a process failed.  *)
(* process_broadcast (dex_swap_runner.rs:105-320) claims nothing.          *)
(***************************************************************************)
PaidOnceUnlessMarred ==
    \A s \in Swaps \ marred :
        /\ sent[s] <= 1
        /\ st[s] = "REFUNDED" /\ sent[s] = 1 => prov[s] \in {"short", "failed"}

Moves == {<<"NONE", "LOCKED">>, <<"LOCKED", "BROADCASTING">>, <<"BROADCASTING", "IN_FLIGHT">>,
          <<"IN_FLIGHT", "COMPLETED">>}
         \cup {"LOCKED", "BROADCASTING", "IN_FLIGHT"} \X {"FAILED", "REFUNDED"}
         \cup {<<"FAILED", "REFUNDED">>}

(***************************************************************************)
(* The statuses of dex_swap.rs:36-46 move forward only; what is COMPLETED  *)
(* or REFUNDED stays so whichever worker comes late.                       *)
(***************************************************************************)
StatusesMove ==
    [][\A s \in Swaps : st'[s] # st[s] => <<st[s], st'[s]>> \in Moves]_vars

Due(s) ==
    /\ led.hold = {}
    /\ \/ st[s] = "FAILED"
       \/ /\ st[s] = "IN_FLIGHT" /\ prov[s] # "pending"
          /\ by[s] = "swapkit" => prov[s] # "failed"

Settled(s) == st[s] \in Final

(***************************************************************************)
(* A swap that is FAILED, or in flight and answered by the exchange, is    *)
(* settled in the end, if its wallets are not on hold: track_inflight      *)
(* (dex_swap_runner.rs:315-376) comes back to it until it is.  Not one     *)
(* that SwapKit says failed: try_track_and_credit (493) never asks that.   *)
(***************************************************************************)
SettledInTheEnd == \A s \in Swaps : Due(s) ~> Settled(s)

(***************************************************************************)
(* deployment.md:38: replicas never duplicate work.                        *)
(***************************************************************************)
ReplicasNeverBothPay ==
    \A k, i \in Workers :
        k # i /\ hand[k].at = "sent" /\ hand[i].at = "sent" => hand[k].swap # hand[i].swap

(***************************************************************************)
(* types.rs:45-48: after an ambiguous error the user is not credited again *)
(* while the payment may still confirm.                                    *)
(***************************************************************************)
NotReturnedWhilePaid ==
    \A s \in Swaps : st[s] = "REFUNDED" /\ sent[s] > 0 => prov[s] \in {"short", "failed"}
=============================================================================
