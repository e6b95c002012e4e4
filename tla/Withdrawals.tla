----------------------------- MODULE Withdrawals -----------------------------
(***************************************************************************)
(* Withdrawals from the request of a client to the chain and back:         *)
(* crates/db/src/withdrawals.rs, the handlers of crates/api-http that call *)
(* it, the decisions of an admin (crates/db/src/admin.rs) and the worker   *)
(* that drains the broadcast queue                                         *)
(* (crates/worker/src/withdrawal_reconciler.rs).                           *)
(*                                                                         *)
(* A withdrawal is named by the request that would create it.  Every step  *)
(* is one statement or one transaction of the database, or one call of the *)
(* chain client; the processes interleave between them, and a worker may   *)
(* stop or lose the database at any of them.                               *)
(***************************************************************************)
EXTENDS Books, JobQueue

CONSTANTS
    Requests,   \* calls of POST /v1/withdrawals, valid ones
    WalletOf,   \* request -> the PERSONAL wallet it debits
    KeyOf,      \* request -> idempotency key, scoped to its user, or NoKey
    NoKey,
    AmountOf,   \* request -> amount
    Fee,        \* coin_config(coin).withdrawal_fee
    Threshold,  \* approval_threshold_atomic(coin)
    Workers,    \* worker processes
    NoReply,
    MaxFaults   \* bound on worker crashes and database errors

ASSUME WithdrawalAssumption ==
    /\ WalletOf \in [Requests -> Wallets]
    /\ AmountOf \in [Requests -> Nat \ {0}]
    /\ Fee \in Nat
    /\ Threshold \in Nat
    /\ MaxFaults \in Nat
    /\ NoReply \notin Requests

VARIABLES
    status,    \* withdrawals.status, "NONE" when there is no row
    api,       \* where each request is
    reply,     \* the withdrawal each request was answered with
    toEnqueue, \* committed, and the handler has yet to enqueue the job
    wk,        \* what each worker is doing
    sent,      \* how often the hot wallet paid out each withdrawal
    verdict,   \* what the chain client answered about it
    faults

withdrawalVars == <<status, api, reply, toEnqueue, wk, sent, verdict, faults, jobs>>

Statuses == {"NONE", "PENDING", "APPROVED", "QUEUED", "BROADCASTING",
             "BROADCASTED", "CONFIRMED", "FAILED", "CANCELED"}

\* Slip: a broadcast that seems stuck is taken up again.
EligibleAgain(w) == status[w] \in {"QUEUED", "APPROVED", "BROADCASTING"}

\* Slip: so is one that waits for the admin.
EligibleUnapproved(w) == status[w] \in {"PENDING", "QUEUED", "APPROVED"}

Eligible(w) == status[w] \in {"QUEUED", "APPROVED"}

RequiresApproval(r) == AmountOf[r] >= Threshold

\* Slip: the debit does not name its withdrawal.
DebitWithoutRef(w) == Entry(WalletOf[w], -AmountOf[w], "WITHDRAWAL", NoRef)

\* Slip: the fee is kept when nothing was sent.
ReversalWithoutFee(w) == Entry(WalletOf[w], AmountOf[w], "WITHDRAWAL_REVERSAL", w)

Debit(w) == Entry(WalletOf[w], -AmountOf[w], "WITHDRAWAL", w)
FeeDebit(w) == Entry(WalletOf[w], -Fee, "WITHDRAWAL_FEE", w)
Reversal(w) == Entry(WalletOf[w], AmountOf[w] + Fee, "WITHDRAWAL_REVERSAL", w)

WorkerPCs == {"idle", "claim", "reread", "send", "persist", "reverse",
              "finalize", "complete", "fail", "requeue"}

Idle == [pc |-> "idle"]
Listing(ws) == [pc |-> "requeue", list |-> ws]
Holding(pc, j, w) == [pc |-> pc, job |-> j, wd |-> w]

WithdrawalInit ==
    /\ JobsInit
    /\ status = [w \in Requests |-> "NONE"]
    /\ api = [r \in Requests |-> "new"]
    /\ reply = [r \in Requests |-> NoReply]
    /\ toEnqueue = {}
    /\ wk = [k \in Workers |-> Idle]
    /\ sent = [w \in Requests |-> 0]
    /\ verdict = [w \in Requests |-> "none"]
    /\ faults = 0

-----------------------------------------------------------------------------
(***************************************************************************)
(* The request.                                                            *)
(***************************************************************************)

\* find_by_idempotency_key
WithKey(r) ==
    IF KeyOf[r] = NoKey THEN {}
    ELSE {w \in Requests : status[w] # "NONE" /\ KeyOf[w] = KeyOf[r]}

\* Slip: no unique index on idempotency_key, the look-ups will do.
KeyUnchecked(r) == api[r] = "insert"

\* The unique index on idempotency_key admits the row.
KeyFree(r) == WithKey(r) = {}

Answer(r, w) ==
    /\ api' = [api EXCEPT ![r] = "done"]
    /\ reply' = [reply EXCEPT ![r] = w]

\* The look-up before the transaction, and the one at its start.
Lookup(r, here, next) ==
    /\ api[r] = here
    /\ IF WithKey(r) # {}
       THEN \E w \in WithKey(r) : Answer(r, w)
       ELSE api' = [api EXCEPT ![r] = next] /\ UNCHANGED reply
    /\ UNCHANGED <<led, outbox, status, toEnqueue, wk, sent, verdict, faults, jobs>>

LookupOutside(r) == Lookup(r, "new", "begin")
LookupInside(r) == Lookup(r, "begin", "insert")

\* The unique index on idempotency_key let another request win: roll back
\* and answer with the winner.
LoseRace(r) ==
    /\ api[r] = "insert"
    /\ \E w \in WithKey(r) : Answer(r, w)
    /\ UNCHANGED <<led, outbox, status, toEnqueue, wk, sent, verdict, faults, jobs>>

\* INSERT INTO withdrawals, the debit, the fee (if any), commit.
CreateWithdrawal(r) ==
    /\ api[r] = "insert"
    /\ KeyFree(r)
    /\ LET debited == Posted(led, Debit(r))
       IN /\ Admits(led, Debit(r))
          /\ IF Fee > 0 THEN Admits(debited, FeeDebit(r)) /\ led' = Posted(debited, FeeDebit(r))
                        ELSE led' = debited
    /\ status' = [status EXCEPT ![r] = IF RequiresApproval(r) THEN "PENDING" ELSE "QUEUED"]
    /\ toEnqueue' = IF RequiresApproval(r) THEN toEnqueue ELSE toEnqueue \cup {r}
    /\ Answer(r, r)
    /\ UNCHANGED <<outbox, wk, sent, verdict, faults, jobs>>

\* The ledger refuses one of the debits: roll back, answer 400.
RefuseWithdrawal(r) ==
    /\ api[r] = "insert"
    /\ KeyFree(r)
    /\ \/ ~ Admits(led, Debit(r))
       \/ Fee > 0 /\ ~ Admits(Posted(led, Debit(r)), FeeDebit(r))
    /\ api' = [api EXCEPT ![r] = "refused"]
    /\ UNCHANGED <<led, outbox, status, reply, toEnqueue, wk, sent, verdict, faults, jobs>>

\* The handler enqueues the broadcast after the commit, or fails to (the error
\* is only logged), or the API process stops before it gets there.
EnqueueBroadcast(w) ==
    /\ w \in toEnqueue
    /\ Enqueue(w)
    /\ toEnqueue' = toEnqueue \ {w}
    /\ UNCHANGED <<led, outbox, status, api, reply, wk, sent, verdict, faults>>

EnqueueLost(w) ==
    /\ w \in toEnqueue
    /\ toEnqueue' = toEnqueue \ {w}
    /\ UNCHANGED <<led, outbox, status, api, reply, wk, sent, verdict, faults, jobs>>

RequestNext(r) ==
    \/ LookupOutside(r) \/ LookupInside(r) \/ LoseRace(r)
    \/ CreateWithdrawal(r) \/ RefuseWithdrawal(r)
    \/ EnqueueBroadcast(r) \/ EnqueueLost(r)

-----------------------------------------------------------------------------
(***************************************************************************)
(* The admin.                                                              *)
(***************************************************************************)

ApproveWithdrawal(w) ==
    /\ status[w] = "PENDING"
    /\ status' = [status EXCEPT ![w] = "APPROVED"]
    /\ toEnqueue' = toEnqueue \cup {w}
    /\ UNCHANGED <<led, outbox, api, reply, wk, sent, verdict, faults, jobs>>

\* PENDING -> CANCELED and the money back in one transaction; when the ledger
\* refuses the credit, neither.
RejectWithdrawal(w) ==
    /\ status[w] = "PENDING"
    /\ Post(Reversal(w))
    /\ status' = [status EXCEPT ![w] = "CANCELED"]
    /\ UNCHANGED <<outbox, api, reply, toEnqueue, wk, sent, verdict, faults, jobs>>

AdminNext(w) == ApproveWithdrawal(w) \/ RejectWithdrawal(w)

-----------------------------------------------------------------------------
(***************************************************************************)
(* The worker: drain_broadcast_queue, with process_broadcast for each job, *)
(* and requeue_eligible.                                                   *)
(***************************************************************************)

GoTo(k, pc) == wk' = [wk EXCEPT ![k].pc = pc]

ClaimJob(k, j) ==
    /\ wk[k].pc = "idle"
    /\ ClaimNext(j)
    /\ wk' = [wk EXCEPT ![k] = Holding("claim", j, jobs[j].payload)]
    /\ UNCHANGED <<led, outbox, status, api, reply, toEnqueue, sent, verdict, faults>>

\* Slip: the test of what the UPDATE returned is the wrong way round.
ClaimAndForget(k) ==
    /\ wk[k].pc = "claim"
    /\ IF Eligible(wk[k].wd)
       THEN status' = [status EXCEPT ![wk[k].wd] = "BROADCASTING"] /\ GoTo(k, "reread")
       ELSE UNCHANGED status /\ GoTo(k, "reread")
    /\ UNCHANGED <<led, outbox, api, reply, toEnqueue, sent, verdict, faults, jobs>>

\* UPDATE ... SET status = 'BROADCASTING' ... WHERE status IN ('QUEUED', 'APPROVED')
ClaimWithdrawal(k) ==
    /\ wk[k].pc = "claim"
    /\ IF Eligible(wk[k].wd)
       THEN status' = [status EXCEPT ![wk[k].wd] = "BROADCASTING"] /\ GoTo(k, "send")
       ELSE UNCHANGED status /\ GoTo(k, "reread")
    /\ UNCHANGED <<led, outbox, api, reply, toEnqueue, sent, verdict, faults, jobs>>

\* Not claimed: finalize it if it is BROADCASTED, else nothing to do.
Reread(k) ==
    /\ wk[k].pc = "reread"
    /\ GoTo(k, IF status[wk[k].wd] = "BROADCASTED" THEN "finalize" ELSE "complete")
    /\ UNCHANGED <<led, outbox, status, api, reply, toEnqueue, sent, verdict, faults, jobs>>

\* client.broadcast_withdrawal: sent; certainly not sent (safe_to_reverse); or
\* an error after which nobody knows.
Send(k) ==
    /\ wk[k].pc = "send"
    /\ LET w == wk[k].wd
       IN \/ /\ sent' = [sent EXCEPT ![w] = @ + 1]
             /\ verdict' = [verdict EXCEPT ![w] = "sent"]
             /\ GoTo(k, "persist")
          \/ /\ verdict' = [verdict EXCEPT ![w] = "safe"]
             /\ GoTo(k, "reverse")
             /\ UNCHANGED sent
          \/ /\ sent' \in {sent, [sent EXCEPT ![w] = @ + 1]}
             /\ verdict' = [verdict EXCEPT ![w] = "ambiguous"]
             /\ GoTo(k, "complete")
    /\ UNCHANGED <<led, outbox, status, api, reply, toEnqueue, faults, jobs>>

\* Phase 2: BROADCASTED, the hash and the event, whatever the status was.
PersistBroadcast(k) ==
    /\ wk[k].pc = "persist"
    /\ status' = [status EXCEPT ![wk[k].wd] = "BROADCASTED"]
    /\ Stage(wk[k].wd, "WithdrawalBroadcasted")
    /\ GoTo(k, "finalize")
    /\ UNCHANGED <<led, api, reply, toEnqueue, sent, verdict, faults, jobs>>

\* FAILED, the money back and the event, or, when the ledger refuses, an error.
ReverseWithdrawal(k) ==
    /\ wk[k].pc = "reverse"
    /\ LET w == wk[k].wd
       IN \/ /\ Post(Reversal(w))
             /\ status' = [status EXCEPT ![w] = "FAILED"]
             /\ Stage(w, "WithdrawalFailed")
             /\ GoTo(k, "complete")
          \/ /\ ~ Admits(led, Reversal(w))
             /\ GoTo(k, "fail")
             /\ UNCHANGED <<led, status, outbox>>
    /\ UNCHANGED <<api, reply, toEnqueue, sent, verdict, faults, jobs>>

\* Slip: CONFIRMED whatever it was.
FinalizeAnyway(k) ==
    /\ wk[k].pc = "finalize"
    /\ status' = [status EXCEPT ![wk[k].wd] = "CONFIRMED"]
    /\ Stage(wk[k].wd, "WithdrawalConfirmed")
    /\ GoTo(k, "complete")
    /\ UNCHANGED <<led, api, reply, toEnqueue, sent, verdict, faults, jobs>>

\* finalize_broadcasted
FinalizeBroadcasted(k) ==
    /\ wk[k].pc = "finalize"
    /\ IF status[wk[k].wd] = "BROADCASTED"
       THEN /\ status' = [status EXCEPT ![wk[k].wd] = "CONFIRMED"]
            /\ Stage(wk[k].wd, "WithdrawalConfirmed")
       ELSE UNCHANGED <<status, outbox>>
    /\ GoTo(k, "complete")
    /\ UNCHANGED <<led, api, reply, toEnqueue, sent, verdict, faults, jobs>>

CompleteJob(k) ==
    /\ wk[k].pc = "complete"
    /\ Complete(wk[k].job)
    /\ wk' = [wk EXCEPT ![k] = Idle]
    /\ UNCHANGED <<led, outbox, status, api, reply, toEnqueue, sent, verdict, faults>>

FailJob(k) ==
    /\ wk[k].pc = "fail"
    /\ Fail(wk[k].job)
    /\ wk' = [wk EXCEPT ![k] = Idle]
    /\ UNCHANGED <<led, outbox, status, api, reply, toEnqueue, sent, verdict, faults>>

\* Slip: only what an admin approved is listed.
ListApproved(k) ==
    /\ wk[k].pc = "idle"
    /\ \E w \in Requests : status[w] = "APPROVED"
    /\ wk' = [wk EXCEPT ![k] = Listing({w \in Requests : status[w] = "APPROVED"})]
    /\ UNCHANGED <<led, outbox, status, api, reply, toEnqueue, sent, verdict, faults, jobs>>

\* requeue_eligible lists the withdrawals that wait for a broadcast...
ListEligible(k) ==
    /\ wk[k].pc = "idle"
    /\ \E w \in Requests : Eligible(w)
    /\ wk' = [wk EXCEPT ![k] = Listing({w \in Requests : Eligible(w)})]
    /\ UNCHANGED <<led, outbox, status, api, reply, toEnqueue, sent, verdict, faults, jobs>>

\* ...and enqueues a job for each, wherever it has got to meanwhile (or gives
\* one up when every job slot of the bounded queue is taken).
Requeue(k) ==
    /\ wk[k].pc = "requeue"
    /\ \E w \in wk[k].list :
         /\ IF QueueFull THEN UNCHANGED jobs ELSE Enqueue(w)
         /\ wk' = [wk EXCEPT ![k] = IF @.list = {w} THEN Idle ELSE Listing(@.list \ {w})]
    /\ UNCHANGED <<led, outbox, status, api, reply, toEnqueue, sent, verdict, faults>>

\* A statement fails: the error goes to the job, or, when it is the statement
\* about the job that fails, to the log only.
DatabaseError(k) ==
    /\ faults < MaxFaults
    /\ \/ /\ wk[k].pc \in {"claim", "reread", "send", "persist", "reverse", "finalize"}
          /\ GoTo(k, "fail")
       \/ /\ wk[k].pc \in {"complete", "fail"}
          /\ wk' = [wk EXCEPT ![k] = Idle]
    /\ faults' = faults + 1
    /\ UNCHANGED <<led, outbox, status, api, reply, toEnqueue, sent, verdict, jobs>>

\* The process dies and another starts; the job it ran stays RUNNING.
WorkerCrash(k) ==
    /\ faults < MaxFaults
    /\ wk[k].pc # "idle"
    /\ wk' = [wk EXCEPT ![k] = Idle]
    /\ faults' = faults + 1
    /\ UNCHANGED <<led, outbox, status, api, reply, toEnqueue, sent, verdict, jobs>>

WorkerStep(k) ==
    \/ ClaimWithdrawal(k) \/ Reread(k) \/ Send(k) \/ PersistBroadcast(k)
    \/ ReverseWithdrawal(k) \/ FinalizeBroadcasted(k)
    \/ CompleteJob(k) \/ FailJob(k) \/ Requeue(k)

WorkerNext(k) ==
    \/ \E j \in Jobs : ClaimJob(k, j)
    \/ ListEligible(k) \/ WorkerStep(k) \/ DatabaseError(k) \/ WorkerCrash(k)

WithdrawalNext ==
    \/ \E r \in Requests : RequestNext(r) \/ AdminNext(r)
    \/ \E k \in Workers : WorkerNext(k)

WithdrawalFairness ==
    /\ \A r \in Requests : WF_<<led, outbox, withdrawalVars>>(EnqueueBroadcast(r) \/ EnqueueLost(r))
    /\ \A k \in Workers : /\ WF_<<led, outbox, withdrawalVars>>(WorkerStep(k))
                          /\ SF_<<led, outbox, withdrawalVars>>(ListEligible(k))
    /\ \A j \in Jobs : SF_<<led, outbox, withdrawalVars>>(\E k \in Workers : ClaimJob(k, j))
=============================================================================
