-------------------------------- MODULE Custody --------------------------------
(***************************************************************************)
(* Deposits and withdrawals over one ledger and one outbox, and what is    *)
(* expected of them together.                                              *)
(***************************************************************************)
EXTENDS Withdrawals, Deposits

CONSTANT InitialBalance  \* what other operations left, [Wallets -> Nat]

ASSUME CustodyAssumption ==
    /\ InitialBalance \in [Wallets -> Nat]
    /\ Requests \cap Outputs = {}
    /\ Refs = Requests \cup Outputs
    /\ Payloads = Requests
    /\ {"WITHDRAWAL", "WITHDRAWAL_FEE", "WITHDRAWAL_REVERSAL",
        "DEPOSIT", "DEPOSIT_REVERSAL"} \subseteq Types

vars == <<led, outbox, withdrawalVars, depositVars>>

Init ==
    /\ led = [balance |-> InitialBalance, hold |-> {}, keys |-> {}]
    /\ outbox = [x \in Refs |-> <<>>]
    /\ WithdrawalInit
    /\ DepositInit

Next ==
    \/ WithdrawalNext /\ UNCHANGED depositVars
    \/ DepositNext /\ UNCHANGED withdrawalVars

Spec == Init /\ [][Next]_vars

FairSpec == Spec /\ WithdrawalFairness /\ DepositFairness

-----------------------------------------------------------------------------

Debited(w) == Recorded(WalletOf[w], "WITHDRAWAL", w)
FeeDebited(w) == Recorded(WalletOf[w], "WITHDRAWAL_FEE", w)
Returned(w) == Recorded(WalletOf[w], "WITHDRAWAL_REVERSAL", w)
Credited(o) == Recorded(DepositWallet[o], "DEPOSIT", o)
TakenBack(o) == Recorded(DepositWallet[o], "DEPOSIT_REVERSAL", o)

\* Worker k is broadcasting withdrawal w, and has yet to record the outcome.
Broadcasts(k, w) == wk[k].pc \in {"send", "persist", "reverse"} /\ wk[k].wd = w

JobPCs == WorkerPCs \ {"idle", "requeue"}

WorkerStates == {Idle} \cup {Listing(S) : S \in SUBSET Requests}
                       \cup {Holding(pc, j, w) : pc \in JobPCs, j \in Jobs, w \in Requests}

\* Every variable has its type; verdict and sent are what the chain client did.
TypeOK ==
    /\ led \in Ledgers
    /\ outbox \in [Refs -> Seq(EventTypes)]
    /\ JobsType
    /\ status \in [Requests -> Statuses]
    /\ api \in [Requests -> {"new", "begin", "insert", "done", "refused"}]
    /\ reply \in [Requests -> Requests \cup {NoReply}]
    /\ toEnqueue \subseteq Requests
    /\ wk \in [Workers -> WorkerStates]
    /\ sent \in [Requests -> Nat]
    /\ verdict \in [Requests -> {"none", "sent", "safe", "ambiguous"}]
    /\ faults \in 0..MaxFaults
    /\ chain \in [Outputs -> Depths]
    /\ reorgs \in 0..MaxReorgs
    /\ dep \in [Outputs -> DepositStatuses]
    /\ watch \in [Watchers -> Histories]
    /\ misses \in 0..MaxMisses

\* The rows about a withdrawal are those its status tells of, and no others.
LedgerTellsStatus ==
    \A w \in Requests :
        /\ Debited(w) <=> status[w] # "NONE"
        /\ FeeDebited(w) <=> status[w] # "NONE" /\ Fee > 0
        /\ Returned(w) <=> status[w] \in {"FAILED", "CANCELED"}

\* One worker at most broadcasts a withdrawal, and nothing else happens to it
\* meanwhile.
OneSender ==
    \A w \in Requests : \A k \in Workers :
        Broadcasts(k, w) =>
            /\ status[w] = "BROADCASTING"
            /\ \A i \in Workers : Broadcasts(i, w) => i = k
            /\ wk[k].pc = "send" => verdict[w] = "none"
            /\ wk[k].pc = "persist" => verdict[w] = "sent"
            /\ wk[k].pc = "reverse" => verdict[w] = "safe"

\* What the client answered, what has been sent and where the row is agree.
VerdictTellsStatus ==
    \A w \in Requests :
        /\ status[w] \in {"NONE", "PENDING", "APPROVED", "QUEUED", "CANCELED"} => verdict[w] = "none"
        /\ status[w] \in {"BROADCASTED", "CONFIRMED"} => verdict[w] = "sent"
        /\ status[w] = "FAILED" => verdict[w] = "safe"
        /\ verdict[w] = "sent" => sent[w] = 1
        /\ verdict[w] \in {"none", "safe"} => sent[w] = 0
        /\ sent[w] <= 1

HasJob(k) == wk[k].pc \in JobPCs

\* A worker has its job, RUNNING, to itself, and a job that waits for a worker
\* has an attempt left.
JobsHeld ==
    /\ \A k \in Workers :
         HasJob(k) => /\ Running(wk[k].job)
                      /\ \A i \in Workers : HasJob(i) /\ wk[i].job = wk[k].job => i = k
    /\ \A j \in Jobs : Pending(j) => jobs[j].attempts < MaxAttempts

\* The withdrawal a request is answered with is there, and it is one of its key.
RepliesHaveRows ==
    \A r \in Requests :
        reply[r] # NoReply => status[reply[r]] # "NONE" /\ KeyOf[reply[r]] = KeyOf[r]

(***************************************************************************)
(* The inductive invariant: the rows of the ledger are those the status of *)
(* a withdrawal tells of, and one worker at most is between claiming it    *)
(* (process_broadcast's UPDATE to BROADCASTING) and recording the outcome. *)
(* JobsHeld and RepliesHaveRows are what its steps lean on.                *)
(***************************************************************************)
Inv ==
    /\ TypeOK
    /\ LedgerTellsStatus
    /\ OneSender
    /\ VerdictTellsStatus
    /\ JobsHeld
    /\ RepliesHaveRows

(***************************************************************************)
(* "Never reverse a withdrawal after a successful or ambiguous on-chain    *)
(* send", and never send one twice, however many jobs name it and workers  *)
(* run, crash and retry.                                                   *)
(***************************************************************************)
NeverSentAndReturned ==
    \A w \in Requests : /\ sent[w] <= 1
                        /\ Returned(w) => sent[w] = 0 /\ verdict[w] # "ambiguous"

(***************************************************************************)
(* Requests with the same idempotency key are one withdrawal: all that are *)
(* answered are answered with it.                                          *)
(***************************************************************************)
OneWithdrawalPerKey ==
    \A r, s \in Requests :
        KeyOf[r] = KeyOf[s] /\ KeyOf[r] # NoKey =>
            /\ status[r] # "NONE" /\ status[s] # "NONE" => r = s
            /\ NoReply \notin {reply[r], reply[s]} => reply[r] = reply[s]

(***************************************************************************)
(* The outbox tells the story of every withdrawal and deposit, each event  *)
(* once and in order: nothing is announced that did not commit, and        *)
(* nothing that committed goes unannounced.                                *)
(***************************************************************************)
EventsTellStatus ==
    /\ \A w \in Requests :
         /\ status[w] = "BROADCASTED" => outbox[w] = <<"WithdrawalBroadcasted">>
         /\ status[w] = "CONFIRMED" => outbox[w] = <<"WithdrawalBroadcasted", "WithdrawalConfirmed">>
         /\ status[w] = "FAILED" => outbox[w] = <<"WithdrawalFailed">>
         /\ status[w] \notin {"BROADCASTED", "CONFIRMED", "FAILED"} => outbox[w] = <<>>
    /\ \A o \in Outputs :
         outbox[o] = IF Credited(o) THEN <<"DepositConfirmed">> ELSE <<>>

(***************************************************************************)
(* A withdrawal whose broadcast nobody has in hand any more is one of      *)
(* those an operator must look at: the client's answer was ambiguous, a    *)
(* process or the database failed, or the wallet is on hold and took no    *)
(* reversal.                                                               *)
(***************************************************************************)
UnattendedBroadcasts ==
    \A w \in Requests :
        status[w] = "BROADCASTING" /\ (\A k \in Workers : ~ Broadcasts(k, w)) =>
            \/ verdict[w] = "ambiguous"
            \/ faults > 0
            \/ verdict[w] = "safe" /\ WalletOf[w] \in led.hold

(***************************************************************************)
(* A credited deposit has its entry and keeps it; one that is gone has     *)
(* given it back, or its wallet is on hold for it.                         *)
(***************************************************************************)
DepositsBacked ==
    \A o \in Outputs :
        /\ dep[o] = "CREDITED" => Credited(o) /\ ~ TakenBack(o)
        /\ TakenBack(o) => Credited(o)
        /\ Credited(o) => dep[o] = "CREDITED" \/ TakenBack(o) \/ DepositWallet[o] \in led.hold

\* The transitions the header of withdrawals.rs lists, and those of the request
\* and the admin that precede them.
Transitions ==
    {<<"NONE", "PENDING">>, <<"NONE", "QUEUED">>, <<"PENDING", "APPROVED">>,
     <<"PENDING", "CANCELED">>, <<"QUEUED", "BROADCASTING">>, <<"APPROVED", "BROADCASTING">>,
     <<"BROADCASTING", "BROADCASTED">>, <<"BROADCASTED", "CONFIRMED">>, <<"BROADCASTING", "FAILED">>}

(***************************************************************************)
(* A status never moves otherwise: no late worker, retried job or admin    *)
(* decision takes a withdrawal back or past a step.                        *)
(***************************************************************************)
DocumentedTransitions ==
    [][\A w \in Requests : status'[w] # status[w] => <<status[w], status'[w]>> \in Transitions]_vars

\* Custody in terms of the money alone.
FundsOf(w) ==
    IF status[w] = "NONE" THEN "none"
    ELSE IF status[w] \in {"FAILED", "CANCELED"} THEN "returned"
    ELSE IF sent[w] = 0 THEN "held"
    ELSE IF sent[w] = 1 THEN "paid" ELSE "paid twice"

CreditOf(o) ==
    IF ~ Credited(o) THEN "open"
    ELSE IF TakenBack(o) THEN "reversed"
    ELSE IF dep[o] = "CREDITED" THEN "credited" ELSE "owed"

(***************************************************************************)
(* Deposits, withdrawals, workers and faults, step by step, amount to the  *)
(* moves of money CustodyPromise allows.                                   *)
(***************************************************************************)
Promise == INSTANCE CustodyPromise WITH
    balance <- led.balance,
    funds   <- [w \in Requests |-> FundsOf(w)],
    credit  <- [o \in Outputs |-> CreditOf(o)],
    Cost    <- [w \in Requests |-> AmountOf[w] + Fee]

\* The refinement: FundsOf and CreditOf are the abstract state.
ImplementsPromise == Promise!Spec

(***************************************************************************)
(* A withdrawal that waits for its broadcast is taken up in the end, even  *)
(* if its job was never enqueued or the worker that had it stopped         *)
(* (requeue_eligible).                                                     *)
(***************************************************************************)
EligibleIsTakenUp == \A w \in Requests : Eligible(w) ~> ~ Eligible(w)

\* Some worker has the job in hand.
WorkedOn(j) == \E k \in Workers : HasJob(k) /\ wk[k].job = j

(***************************************************************************)
(* "Another worker can take over": a job whose worker is gone does not     *)
(* stay RUNNING (docs/architecture/events-and-jobs.md).                    *)
(***************************************************************************)
AbandonedJobsResume == \A j \in Jobs : Running(j) /\ ~ WorkedOn(j) ~> ~ Running(j) \/ WorkedOn(j)

(***************************************************************************)
(* "If broadcast later fails safely, we reverse" (request_withdrawal).     *)
(***************************************************************************)
SafeFailuresReturned == \A w \in Requests : verdict[w] = "safe" ~> Returned(w)

(***************************************************************************)
(* A deposit that stays confirmed is credited in the end, unless its       *)
(* wallet is on hold.                                                      *)
(***************************************************************************)
ConfirmedIsCredited ==
    \A o \in Outputs : <>[](chain[o] = "enough") => <>(Credited(o) \/ DepositWallet[o] \in led.hold)
=============================================================================
