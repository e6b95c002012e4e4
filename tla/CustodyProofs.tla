---------------------------- MODULE CustodyProofs ----------------------------
(***************************************************************************)
(* Proofs about Custody, for any number of requests, deposits, workers,    *)
(* watchers, jobs, crashes and reorganisations.                            *)
(***************************************************************************)
EXTENDS Custody, SequenceTheorems, TLAPS

-----------------------------------------------------------------------------
(* Facts about entries, workers and their steps.                           *)

\* The entries of a withdrawal and of a deposit are entries, each with a key
\* in the unique index.
LEMMA EntryTypes ==
    /\ \A w \in Requests :
         /\ Debit(w) \in Entries /\ FeeDebit(w) \in Entries /\ Reversal(w) \in Entries
         /\ KeysOf(Debit(w)) = {<<WalletOf[w], "WITHDRAWAL", w>>}
         /\ KeysOf(FeeDebit(w)) = {<<WalletOf[w], "WITHDRAWAL_FEE", w>>}
         /\ KeysOf(Reversal(w)) = {<<WalletOf[w], "WITHDRAWAL_REVERSAL", w>>}
    /\ \A o \in Outputs :
         /\ Credit(o) \in Entries /\ CreditReversal(o) \in Entries
         /\ KeysOf(Credit(o)) = {<<DepositWallet[o], "DEPOSIT", o>>}
         /\ KeysOf(CreditReversal(o)) = {<<DepositWallet[o], "DEPOSIT_REVERSAL", o>>}
<1>1. ASSUME NEW w \in Requests
      PROVE  /\ Debit(w) \in Entries /\ FeeDebit(w) \in Entries /\ Reversal(w) \in Entries
             /\ KeysOf(Debit(w)) = {<<WalletOf[w], "WITHDRAWAL", w>>}
             /\ KeysOf(FeeDebit(w)) = {<<WalletOf[w], "WITHDRAWAL_FEE", w>>}
             /\ KeysOf(Reversal(w)) = {<<WalletOf[w], "WITHDRAWAL_REVERSAL", w>>}
    <2>1. w \in Refs /\ w # NoRef /\ WalletOf[w] \in Wallets /\ AmountOf[w] \in Int /\ Fee \in Int
        BY CustodyAssumption, RefAssumption, WithdrawalAssumption
    <2> QED
        BY <2>1, CustodyAssumption DEF Debit, FeeDebit, Reversal, Entry, Entries, KeysOf
<1>2. ASSUME NEW o \in Outputs
      PROVE  /\ Credit(o) \in Entries /\ CreditReversal(o) \in Entries
             /\ KeysOf(Credit(o)) = {<<DepositWallet[o], "DEPOSIT", o>>}
             /\ KeysOf(CreditReversal(o)) = {<<DepositWallet[o], "DEPOSIT_REVERSAL", o>>}
    <2>1. o \in Refs /\ o # NoRef /\ DepositWallet[o] \in Wallets /\ DepositAmount[o] \in Int
        BY CustodyAssumption, RefAssumption, DepositAssumption
    <2> QED
        BY <2>1, CustodyAssumption DEF Credit, CreditReversal, Entry, Entries, KeysOf
<1> QED
    BY <1>1, <1>2

\* A posted entry leaves a ledger, with the keys of the entry added and the
\* holds as they were.
LEMMA PostedType ==
    ASSUME NEW l \in Ledgers, NEW e \in Entries
    PROVE  /\ Posted(l, e) \in Ledgers
           /\ Posted(l, e).keys = l.keys \cup KeysOf(e)
           /\ Posted(l, e).hold = l.hold
<1>1. KeysOf(e) \in SUBSET Keys /\ e.wallet \in Wallets /\ e.amount \in Int
    BY DEF KeysOf, Keys, Entries
<1>2. /\ l.balance \in [Wallets -> Int] /\ l.hold \in SUBSET Wallets /\ l.keys \in SUBSET Keys
    BY DEF Ledgers
<1>3. [l.balance EXCEPT ![e.wallet] = @ + e.amount] \in [Wallets -> Int]
    BY <1>1, <1>2
<1> QED
    BY <1>1, <1>2, <1>3 DEF Ledgers, Posted

\* A worker that has a job is in a state of that shape.
LEMMA WorkerHolds ==
    ASSUME TypeOK, NEW k \in Workers, HasJob(k)
    PROVE  /\ wk[k].job \in Jobs /\ wk[k].wd \in Requests
           /\ wk[k] = Holding(wk[k].pc, wk[k].job, wk[k].wd)
<1>1. wk[k] \in WorkerStates
    BY DEF TypeOK
<1>2. wk[k] # Idle /\ \A S \in SUBSET Requests : wk[k] # Listing(S)
    BY DEF HasJob, JobPCs, Idle, Listing
<1>3. PICK pc \in JobPCs, j \in Jobs, w \in Requests : wk[k] = Holding(pc, j, w)
    BY <1>1, <1>2 DEF WorkerStates
<1> QED
    BY <1>3 DEF Holding

\* A worker that goes on with its job keeps the job and the withdrawal.
LEMMA GoesOn ==
    ASSUME TypeOK, NEW k \in Workers, HasJob(k), NEW pc \in JobPCs, GoTo(k, pc)
    PROVE  /\ wk' \in [Workers -> WorkerStates]
           /\ wk'[k] = Holding(pc, wk[k].job, wk[k].wd)
           /\ wk'[k].pc = pc /\ wk'[k].job = wk[k].job /\ wk'[k].wd = wk[k].wd
           /\ \A i \in Workers \ {k} : wk'[i] = wk[i]
<1>1. wk[k].job \in Jobs /\ wk[k].wd \in Requests
      /\ wk[k] = Holding(wk[k].pc, wk[k].job, wk[k].wd)
    BY WorkerHolds
<1>2. wk \in [Workers -> WorkerStates]
    BY DEF TypeOK
<1>3. [wk[k] EXCEPT !.pc = pc] = Holding(pc, wk[k].job, wk[k].wd)
    BY <1>1 DEF Holding
<1>4. wk' = [wk EXCEPT ![k] = Holding(pc, wk[k].job, wk[k].wd)]
    BY <1>3 DEF GoTo
<1>5. Holding(pc, wk[k].job, wk[k].wd) \in WorkerStates
    BY <1>1 DEF WorkerStates
<1> QED
    BY <1>2, <1>4, <1>5 DEF Holding
-----------------------------------------------------------------------------
(* Custody maintains Inv, one action at a time.                            *)

\* Nothing has happened yet.
LEMMA InitInv == Init => Inv
<1> SUFFICES ASSUME Init PROVE Inv
    OBVIOUS
<1> USE DEF Init, WithdrawalInit, DepositInit, JobsInit
<1>1. TypeOK
    <2>1. led \in Ledgers
        BY CustodyAssumption DEF Ledgers
    <2>2. outbox \in [Refs -> Seq(EventTypes)]
        OBVIOUS
    <2>3. JobsType
        BY DEF JobsType
    <2>4. wk \in [Workers -> WorkerStates]
        BY DEF WorkerStates
    <2>5. watch \in [Watchers -> Histories]
        <3>1. Nothing \in [{} -> Depths \ {"absent"}]
            BY DEF Nothing
        <3>2. Nothing \in Histories
            BY <3>1 DEF Histories
        <3> QED
            BY <3>2
    <2>6. faults \in 0..MaxFaults /\ reorgs \in 0..MaxReorgs /\ misses \in 0..MaxMisses
        BY WithdrawalAssumption, DepositAssumption
    <2> QED
        BY <2>1, <2>2, <2>3, <2>4, <2>5, <2>6 DEF TypeOK, Statuses, Depths, DepositStatuses
<1>2. LedgerTellsStatus
    BY DEF LedgerTellsStatus, Debited, FeeDebited, Returned, Recorded
<1>3. OneSender
    BY DEF OneSender, Broadcasts, Idle
<1>4. VerdictTellsStatus
    BY DEF VerdictTellsStatus
<1>5. JobsHeld
    BY DEF JobsHeld, HasJob, JobPCs, Idle, FreeSlot, Pending
<1>6. RepliesHaveRows
    BY DEF RepliesHaveRows
<1> QED
    BY <1>1, <1>2, <1>3, <1>4, <1>5, <1>6 DEF Inv

\* A request that is answered with the withdrawal of its key.
LEMMA AnswerInv ==
    ASSUME Inv, NEW r \in Requests, NEW w \in WithKey(r), Answer(r, w),
           UNCHANGED <<led, outbox, status, toEnqueue, wk, sent, verdict, faults, jobs>>,
           UNCHANGED depositVars
    PROVE  Inv'
<1>1. w \in Requests /\ status[w] # "NONE" /\ KeyOf[w] = KeyOf[r]
    BY DEF WithKey
<1>2. TypeOK'
    BY <1>1 DEF Inv, TypeOK, JobsType, Answer, depositVars
<1>3. RepliesHaveRows'
    BY <1>1 DEF Inv, TypeOK, RepliesHaveRows, Answer
<1>4. LedgerTellsStatus' /\ OneSender' /\ VerdictTellsStatus' /\ JobsHeld'
    BY DEF Inv, LedgerTellsStatus, Debited, FeeDebited, Returned, Recorded, OneSender,
           Broadcasts, VerdictTellsStatus, JobsHeld, HasJob, Running, Pending
<1> QED
    BY <1>2, <1>3, <1>4 DEF Inv

\* The look-ups.
LEMMA LookupInv ==
    ASSUME Inv, NEW r \in Requests, NEW here, NEW next \in {"begin", "insert"},
           Lookup(r, here, next), UNCHANGED depositVars
    PROVE  Inv'
<1>1. CASE WithKey(r) # {}
    BY <1>1, AnswerInv DEF Lookup
<1>2. CASE WithKey(r) = {}
    <2>1. TypeOK'
        BY <1>2 DEF Inv, TypeOK, JobsType, Lookup, depositVars
    <2>2. LedgerTellsStatus' /\ OneSender' /\ VerdictTellsStatus' /\ JobsHeld' /\ RepliesHaveRows'
        BY <1>2 DEF Lookup, Inv, LedgerTellsStatus, Debited, FeeDebited, Returned, Recorded,
               OneSender, Broadcasts, VerdictTellsStatus, JobsHeld, HasJob, Running, Pending,
               RepliesHaveRows
    <2> QED
        BY <2>1, <2>2 DEF Inv
<1> QED
    BY <1>1, <1>2

\* The ledger refuses the debits.
LEMMA RefuseInv ==
    ASSUME Inv, NEW r \in Requests, RefuseWithdrawal(r), UNCHANGED depositVars
    PROVE  Inv'
<1>1. TypeOK'
    BY DEF Inv, TypeOK, JobsType, RefuseWithdrawal, depositVars
<1>2. LedgerTellsStatus' /\ OneSender' /\ VerdictTellsStatus' /\ JobsHeld' /\ RepliesHaveRows'
    BY DEF RefuseWithdrawal, Inv, LedgerTellsStatus, Debited, FeeDebited, Returned, Recorded,
           OneSender, Broadcasts, VerdictTellsStatus, JobsHeld, HasJob, Running, Pending,
           RepliesHaveRows
<1> QED
    BY <1>1, <1>2 DEF Inv

\* A job is enqueued: a slot that was free, and that no worker can have.
LEMMA EnqueueKeepsJobs ==
    ASSUME Inv, NEW w \in Requests, Enqueue(w),
           \A i \in Workers : HasJob(i)' => HasJob(i) /\ wk'[i] = wk[i]
    PROVE  JobsType' /\ JobsHeld'
<1>1. PICK j \in Jobs :
          /\ Free(j)
          /\ jobs' = [jobs EXCEPT ![j] = [status |-> "PENDING", payload |-> w, attempts |-> 0]]
    BY DEF Enqueue
<1>2. jobs \in [Jobs -> {FreeSlot} \cup LiveJobs]
    BY DEF Inv, TypeOK, JobsType
<1>3. [status |-> "PENDING", payload |-> w, attempts |-> 0] \in LiveJobs
    BY JobQueueAssumption, CustodyAssumption DEF LiveJobs
<1>4. JobsType'
    BY <1>1, <1>2, <1>3 DEF JobsType
<1>5. \A k \in Workers : HasJob(k) => wk[k].job # j /\ wk[k].job \in Jobs
    <2> SUFFICES ASSUME NEW k \in Workers, HasJob(k) PROVE wk[k].job # j /\ wk[k].job \in Jobs
        OBVIOUS
    <2>1. wk[k].job \in Jobs /\ jobs[wk[k].job].status = "RUNNING"
        BY WorkerHolds DEF Inv, JobsHeld, Running
    <2>2. jobs[j].status = "FREE"
        BY <1>1 DEF Free
    <2> QED
        BY <2>1, <2>2
<1>6. JobsHeld'
    <2>1. \A i \in Jobs \ {j} : jobs'[i] = jobs[i]
        BY <1>1, <1>2
    <2>2. jobs'[j].status = "PENDING" /\ jobs'[j].attempts < MaxAttempts
        BY <1>1, <1>2, JobQueueAssumption
    <2>3. \A i \in Workers : HasJob(i)' => jobs'[wk'[i].job].status = "RUNNING"
        BY <1>5, <2>1 DEF Inv, JobsHeld, Running
    <2>4. \A i, h \in Workers : HasJob(i)' /\ HasJob(h)' /\ wk'[i].job = wk'[h].job => i = h
        BY DEF Inv, JobsHeld
    <2>5. \A i \in Jobs : Pending(i)' => jobs'[i].attempts < MaxAttempts
        BY <2>1, <2>2 DEF Inv, JobsHeld, Pending
    <2> QED
        BY <2>3, <2>4, <2>5 DEF JobsHeld, Running
<1> QED
    BY <1>4, <1>6

\* The handler enqueues the job of a withdrawal, or does not get to it.
LEMMA EnqueueInv ==
    ASSUME Inv, NEW w \in Requests, EnqueueBroadcast(w) \/ EnqueueLost(w), UNCHANGED depositVars
    PROVE  Inv'
<1>1. UNCHANGED <<led, outbox, status, api, reply, wk, sent, verdict, faults>>
      /\ toEnqueue' = toEnqueue \ {w}
    BY DEF EnqueueBroadcast, EnqueueLost
<1>2. JobsType' /\ JobsHeld'
    <2>1. CASE EnqueueBroadcast(w)
        BY <2>1, <1>1, EnqueueKeepsJobs DEF EnqueueBroadcast, HasJob
    <2>2. CASE EnqueueLost(w)
        BY <2>2 DEF EnqueueLost, Inv, TypeOK, JobsType, JobsHeld, HasJob, Running, Pending
    <2> QED
        BY <2>1, <2>2
<1>3. TypeOK'
    BY <1>1, <1>2 DEF Inv, TypeOK, depositVars
<1>4. LedgerTellsStatus' /\ OneSender' /\ VerdictTellsStatus' /\ RepliesHaveRows'
    BY <1>1 DEF Inv, LedgerTellsStatus, Debited, FeeDebited, Returned, Recorded, OneSender,
           Broadcasts, VerdictTellsStatus, RepliesHaveRows
<1> QED
    BY <1>2, <1>3, <1>4 DEF Inv

\* The withdrawal is created with its debits.
LEMMA CreateInv ==
    ASSUME Inv, NEW r \in Requests, CreateWithdrawal(r), UNCHANGED depositVars
    PROVE  Inv'
<1> DEFINE debited == Posted(led, Debit(r))
<1>1. led \in Ledgers
    BY DEF Inv, TypeOK
<1>2. /\ debited \in Ledgers
      /\ debited.keys = led.keys \cup {<<WalletOf[r], "WITHDRAWAL", r>>}
    BY <1>1, EntryTypes, PostedType
<1>3. \/ /\ Fee > 0 /\ led' \in Ledgers
         /\ led'.keys = led.keys \cup {<<WalletOf[r], "WITHDRAWAL", r>>,
                                        <<WalletOf[r], "WITHDRAWAL_FEE", r>>}
      \/ /\ ~ (Fee > 0) /\ led' \in Ledgers
         /\ led'.keys = led.keys \cup {<<WalletOf[r], "WITHDRAWAL", r>>}
    <2>1. CASE Fee > 0
        <3>1. led' = Posted(debited, FeeDebit(r))
            BY <2>1 DEF CreateWithdrawal
        <3>2. led' \in Ledgers /\ led'.keys = debited.keys \cup KeysOf(FeeDebit(r))
            BY <3>1, <1>2, EntryTypes, PostedType
        <3> QED
            BY <2>1, <3>2, <1>2, EntryTypes
    <2>2. CASE ~ (Fee > 0)
        BY <2>2, <1>2 DEF CreateWithdrawal
    <2> QED
        BY <2>1, <2>2
<1>4. status[r] = "NONE"
    <2>1. <<WalletOf[r], "WITHDRAWAL", r>> \notin led.keys
        BY EntryTypes DEF CreateWithdrawal, Admits, Fresh
    <2> QED
        BY <2>1 DEF Inv, LedgerTellsStatus, Debited, Recorded
<1>5. PICK st \in {"PENDING", "QUEUED"} : status' = [status EXCEPT ![r] = st]
    BY DEF CreateWithdrawal
<1>6. status \in [Requests -> Statuses] /\ status' \in [Requests -> Statuses]
    BY <1>5 DEF Inv, TypeOK, Statuses
<1>7. TypeOK'
    BY <1>3, <1>6 DEF Inv, TypeOK, JobsType, CreateWithdrawal, Answer, depositVars
<1>8. LedgerTellsStatus'
    <2> SUFFICES ASSUME NEW w \in Requests
                 PROVE  /\ Debited(w)' <=> status'[w] # "NONE"
                        /\ FeeDebited(w)' <=> status'[w] # "NONE" /\ Fee > 0
                        /\ Returned(w)' <=> status'[w] \in {"FAILED", "CANCELED"}
        BY DEF LedgerTellsStatus
    <2>1. /\ Debited(w) <=> status[w] # "NONE"
          /\ FeeDebited(w) <=> status[w] # "NONE" /\ Fee > 0
          /\ Returned(w) <=> status[w] \in {"FAILED", "CANCELED"}
        BY DEF Inv, LedgerTellsStatus
    <2>2. CASE w = r
        BY <2>1, <2>2, <1>3, <1>4, <1>5, <1>6 DEF Debited, FeeDebited, Returned, Recorded
    <2>3. CASE w # r
        BY <2>1, <2>3, <1>3, <1>5, <1>6 DEF Debited, FeeDebited, Returned, Recorded
    <2> QED
        BY <2>2, <2>3
<1>9. OneSender'
    BY <1>4, <1>5, <1>6 DEF Inv, OneSender, Broadcasts, CreateWithdrawal
<1>10. VerdictTellsStatus'
    BY <1>4, <1>5, <1>6 DEF Inv, VerdictTellsStatus, CreateWithdrawal
<1>11. JobsHeld'
    BY DEF Inv, JobsHeld, HasJob, Running, Pending, CreateWithdrawal
<1>12. RepliesHaveRows'
    BY <1>4, <1>5, <1>6 DEF Inv, TypeOK, RepliesHaveRows, CreateWithdrawal, Answer
<1> QED
    BY <1>7, <1>8, <1>9, <1>10, <1>11, <1>12 DEF Inv

\* The money goes back and the status says so, in one transaction.
LEMMA ReturnKeepsLedger ==
    ASSUME Inv, NEW w \in Requests, Post(Reversal(w)), NEW st \in {"FAILED", "CANCELED"},
           status[w] # "NONE", status' = [status EXCEPT ![w] = st]
    PROVE  led' \in Ledgers /\ LedgerTellsStatus'
<1>1. led \in Ledgers /\ status \in [Requests -> Statuses]
    BY DEF Inv, TypeOK
<1>2. led' \in Ledgers /\ led'.keys = led.keys \cup {<<WalletOf[w], "WITHDRAWAL_REVERSAL", w>>}
    BY <1>1, EntryTypes, PostedType DEF Post
<1>3. LedgerTellsStatus'
    <2> SUFFICES ASSUME NEW v \in Requests
                 PROVE  /\ Debited(v)' <=> status'[v] # "NONE"
                        /\ FeeDebited(v)' <=> status'[v] # "NONE" /\ Fee > 0
                        /\ Returned(v)' <=> status'[v] \in {"FAILED", "CANCELED"}
        BY DEF LedgerTellsStatus
    <2>1. /\ Debited(v) <=> status[v] # "NONE"
          /\ FeeDebited(v) <=> status[v] # "NONE" /\ Fee > 0
          /\ Returned(v) <=> status[v] \in {"FAILED", "CANCELED"}
        BY DEF Inv, LedgerTellsStatus
    <2>2. CASE v = w
        BY <2>1, <2>2, <1>1, <1>2 DEF Debited, FeeDebited, Returned, Recorded
    <2>3. CASE v # w
        BY <2>1, <2>3, <1>1, <1>2 DEF Debited, FeeDebited, Returned, Recorded
    <2> QED
        BY <2>2, <2>3
<1> QED
    BY <1>2, <1>3

\* The decisions of an admin.
LEMMA AdminInv ==
    ASSUME Inv, NEW w \in Requests, AdminNext(w), UNCHANGED depositVars
    PROVE  Inv'
<1>1. PICK st \in {"APPROVED", "CANCELED"} : status' = [status EXCEPT ![w] = st]
    BY DEF AdminNext, ApproveWithdrawal, RejectWithdrawal
<1>2. /\ status[w] = "PENDING"
      /\ UNCHANGED <<outbox, api, reply, wk, sent, verdict, faults, jobs>>
      /\ status \in [Requests -> Statuses]
    BY DEF AdminNext, ApproveWithdrawal, RejectWithdrawal, Inv, TypeOK
<1>3. led' \in Ledgers /\ LedgerTellsStatus'
    <2>1. CASE ApproveWithdrawal(w)
        BY <2>1, <1>2 DEF ApproveWithdrawal, Inv, TypeOK, LedgerTellsStatus, Debited, FeeDebited,
                          Returned, Recorded
    <2>2. CASE RejectWithdrawal(w)
        BY <2>2, <1>2, ReturnKeepsLedger DEF RejectWithdrawal
    <2> QED
        BY <2>1, <2>2 DEF AdminNext
<1>4. toEnqueue' \subseteq Requests
    BY DEF AdminNext, ApproveWithdrawal, RejectWithdrawal, Inv, TypeOK
<1>5. TypeOK'
    BY <1>1, <1>2, <1>3, <1>4 DEF Inv, TypeOK, JobsType, Statuses, depositVars
<1>6. OneSender'
    BY <1>1, <1>2 DEF Inv, OneSender, Broadcasts
<1>7. VerdictTellsStatus'
    BY <1>1, <1>2 DEF Inv, VerdictTellsStatus
<1>8. JobsHeld'
    BY <1>2 DEF Inv, JobsHeld, HasJob, Running, Pending
<1>9. RepliesHaveRows'
    BY <1>1, <1>2 DEF Inv, TypeOK, RepliesHaveRows
<1> QED
    BY <1>3, <1>5, <1>6, <1>7, <1>8, <1>9 DEF Inv

\* A worker that goes on with its job still has it to itself.
LEMMA GoesOnWithJob ==
    ASSUME Inv, NEW k \in Workers, HasJob(k), NEW pc \in JobPCs, GoTo(k, pc), UNCHANGED jobs
    PROVE  JobsHeld' /\ JobsType'
<1>1. /\ wk'[k].pc = pc /\ wk'[k].job = wk[k].job
      /\ \A i \in Workers \ {k} : wk'[i] = wk[i]
    BY GoesOn DEF Inv
<1>2. \A i \in Workers : HasJob(i)' <=> HasJob(i)
    BY <1>1 DEF HasJob
<1>3. \A i \in Workers : wk'[i].job = wk[i].job
    BY <1>1
<1> QED
    BY <1>2, <1>3 DEF Inv, TypeOK, JobsHeld, JobsType, Running, Pending

\* A worker leaves its job, or its list, and takes no other.
LEMMA GoneIdle ==
    ASSUME Inv, NEW k \in Workers, NEW s \in WorkerStates, s.pc \notin JobPCs,
           wk' = [wk EXCEPT ![k] = s]
    PROVE  /\ wk' \in [Workers -> WorkerStates]
           /\ \A i \in Workers : HasJob(i)' => i # k /\ HasJob(i) /\ wk'[i] = wk[i]
           /\ UNCHANGED <<status, verdict>> => OneSender'
           /\ UNCHANGED jobs => JobsHeld'
<1>1. wk \in [Workers -> WorkerStates]
    BY DEF Inv, TypeOK
<1>2. \A i \in Workers : HasJob(i)' => i # k /\ HasJob(i) /\ wk'[i] = wk[i]
    BY <1>1 DEF HasJob
<1>3. \A i \in Workers, w \in Requests : Broadcasts(i, w)' => Broadcasts(i, w) /\ wk'[i] = wk[i]
    BY <1>1 DEF Broadcasts, JobPCs, WorkerPCs
<1>4. ASSUME UNCHANGED <<status, verdict>> PROVE OneSender'
    BY <1>3, <1>4 DEF Inv, OneSender
<1>5. ASSUME UNCHANGED jobs PROVE JobsHeld'
    BY <1>2, <1>5 DEF Inv, JobsHeld, Running, Pending
<1> QED
    BY <1>1, <1>2, <1>4, <1>5

\* A job is claimed: it was PENDING, so no worker had it.
LEMMA ClaimJobInv ==
    ASSUME Inv, NEW k \in Workers, NEW j \in Jobs, ClaimJob(k, j), UNCHANGED depositVars
    PROVE  Inv'
<1>1. /\ wk[k].pc = "idle" /\ jobs[j].status = "PENDING"
      /\ jobs' = [jobs EXCEPT ![j].status = "RUNNING", ![j].attempts = @ + 1]
      /\ wk' = [wk EXCEPT ![k] = Holding("claim", j, jobs[j].payload)]
      /\ UNCHANGED <<led, outbox, status, api, reply, toEnqueue, sent, verdict, faults>>
    BY DEF ClaimJob, ClaimNext, Pending
<1>2. jobs \in [Jobs -> {FreeSlot} \cup LiveJobs] /\ wk \in [Workers -> WorkerStates]
    BY DEF Inv, TypeOK, JobsType
<1>3. jobs[j] \in LiveJobs /\ jobs[j].attempts < MaxAttempts
    BY <1>1, <1>2 DEF FreeSlot, Inv, JobsHeld, Pending
<1>4. /\ jobs[j].payload \in Requests /\ jobs[j].attempts \in 0..MaxAttempts
      /\ jobs[j] = [status |-> "PENDING", payload |-> jobs[j].payload, attempts |-> jobs[j].attempts]
    BY <1>1, <1>3, CustodyAssumption DEF LiveJobs
<1>5. jobs' = [jobs EXCEPT ![j] = [status |-> "RUNNING", payload |-> jobs[j].payload,
                                   attempts |-> jobs[j].attempts + 1]]
    BY <1>1, <1>2, <1>4
<1>6. [status |-> "RUNNING", payload |-> jobs[j].payload, attempts |-> jobs[j].attempts + 1]
          \in LiveJobs
    BY <1>3, <1>4, JobQueueAssumption, CustodyAssumption DEF LiveJobs
<1>7. JobsType'
    BY <1>2, <1>5, <1>6 DEF JobsType
<1>8. Holding("claim", j, jobs[j].payload) \in WorkerStates
    BY <1>4 DEF WorkerStates, JobPCs, WorkerPCs
<1>9. TypeOK'
    BY <1>1, <1>2, <1>7, <1>8 DEF Inv, TypeOK, depositVars
<1>10. /\ wk'[k].pc = "claim" /\ wk'[k].job = j /\ \A i \in Workers \ {k} : wk'[i] = wk[i]
    BY <1>1, <1>2 DEF Holding
<1>11. OneSender'
    BY <1>1, <1>10 DEF Inv, OneSender, Broadcasts
<1>12. \A i \in Workers : HasJob(i) => wk[i].job # j /\ i # k /\ wk[i].job \in Jobs
    BY <1>1, WorkerHolds DEF Inv, JobsHeld, Running, HasJob, JobPCs
<1>13. JobsHeld'
    <2>1. \A i \in Workers : HasJob(i)' => i = k \/ (HasJob(i) /\ wk'[i] = wk[i])
        BY <1>10 DEF HasJob
    <2>2. \A i \in Jobs \ {j} : jobs'[i] = jobs[i]
        BY <1>2, <1>5
    <2>3. jobs'[j].status = "RUNNING"
        BY <1>2, <1>5
    <2>4. ASSUME NEW i \in Workers, HasJob(i)', i # k
          PROVE  jobs'[wk'[i].job].status = "RUNNING"
        <3>1. HasJob(i) /\ wk'[i] = wk[i]
            BY <2>1, <2>4
        <3>2. wk[i].job # j /\ wk[i].job \in Jobs /\ jobs[wk[i].job].status = "RUNNING"
            BY <3>1, <1>12 DEF Inv, JobsHeld, Running
        <3> QED
            BY <3>1, <3>2, <2>2
    <2>5. \A i \in Workers : HasJob(i)' => jobs'[wk'[i].job].status = "RUNNING"
        BY <2>3, <2>4, <1>10
    <2>6. \A i, h \in Workers : HasJob(i)' /\ HasJob(h)' /\ wk'[i].job = wk'[h].job => i = h
        BY <2>1, <1>10, <1>12 DEF Inv, JobsHeld
    <2>7. \A i \in Jobs : Pending(i)' => jobs'[i].attempts < MaxAttempts
        BY <2>2, <2>3 DEF Inv, JobsHeld, Pending
    <2> QED
        BY <2>5, <2>6, <2>7 DEF JobsHeld, Running
<1>14. LedgerTellsStatus' /\ VerdictTellsStatus' /\ RepliesHaveRows'
    BY <1>1 DEF Inv, LedgerTellsStatus, Debited, FeeDebited, Returned, Recorded,
                VerdictTellsStatus, RepliesHaveRows
<1> QED
    BY <1>9, <1>11, <1>13, <1>14 DEF Inv

\* An event staged about a withdrawal or a deposit.
LEMMA StagedType ==
    ASSUME TypeOK, NEW ref \in Refs, NEW event \in EventTypes, Stage(ref, event)
    PROVE  outbox' \in [Refs -> Seq(EventTypes)]
<1>1. outbox \in [Refs -> Seq(EventTypes)]
    BY DEF TypeOK
<1>2. outbox[ref] \in Seq(EventTypes)
    BY <1>1
<1>3. Append(outbox[ref], event) \in Seq(EventTypes)
    BY <1>2
<1> QED
    BY <1>1, <1>3 DEF Stage

\* A second event goes after the first.
LEMMA AppendToOne ==
    ASSUME NEW S, NEW a \in S, NEW b \in S, NEW s \in Seq(S), s = <<a>>
    PROVE  Append(s, b) = <<a, b>>
<1>1. Len(s) = 1
    OBVIOUS
<1>2. /\ Append(s, b) \in Seq(S) /\ Len(Append(s, b)) = 2
      /\ Append(s, b)[1] = s[1] /\ Append(s, b)[2] = b
    BY <1>1
<1>3. <<a, b>> \in Seq(S) /\ Len(<<a, b>>) = 2 /\ <<a, b>>[1] = a /\ <<a, b>>[2] = b
    OBVIOUS
<1>4. \A i \in 1..2 : Append(s, b)[i] = <<a, b>>[i]
    BY <1>2, <1>3
<1> QED
    BY <1>2, <1>3, <1>4, SeqEqual

\* The UPDATE takes the withdrawal, which no other worker can have.
LEMMA ClaimWithdrawalInv ==
    ASSUME Inv, NEW k \in Workers, ClaimWithdrawal(k), UNCHANGED depositVars
    PROVE  Inv'
<1> DEFINE w == wk[k].wd
<1>1. HasJob(k) /\ w \in Requests
    BY WorkerHolds DEF ClaimWithdrawal, HasJob, JobPCs, WorkerPCs, Inv
<1>2. PICK pc \in {"send", "reread"} :
          /\ GoTo(k, pc)
          /\ IF pc = "send" THEN Eligible(w) /\ status' = [status EXCEPT ![w] = "BROADCASTING"]
                            ELSE UNCHANGED status
    BY DEF ClaimWithdrawal
<1>3. UNCHANGED <<led, outbox, api, reply, toEnqueue, sent, verdict, faults, jobs>>
    BY DEF ClaimWithdrawal
<1>4. pc \in JobPCs
    BY DEF JobPCs, WorkerPCs
<1>5. /\ wk' \in [Workers -> WorkerStates] /\ wk'[k].pc = pc /\ wk'[k].wd = w
      /\ \A i \in Workers \ {k} : wk'[i] = wk[i]
    BY <1>1, <1>2, <1>4, GoesOn DEF Inv
<1>6. JobsHeld' /\ JobsType'
    BY <1>1, <1>2, <1>3, <1>4, GoesOnWithJob
<1>7. status \in [Requests -> Statuses]
    BY DEF Inv, TypeOK
<1>8. TypeOK'
    BY <1>1, <1>2, <1>3, <1>5, <1>6 DEF Inv, TypeOK, Statuses, depositVars
<1>9. LedgerTellsStatus'
    BY <1>1, <1>2, <1>3, <1>7 DEF Inv, LedgerTellsStatus, Debited, FeeDebited, Returned,
                                  Recorded, Eligible
<1>10. VerdictTellsStatus'
    BY <1>1, <1>2, <1>3, <1>7 DEF Inv, VerdictTellsStatus, Eligible
<1>11. OneSender'
    <2> SUFFICES ASSUME NEW v \in Requests, NEW i \in Workers, Broadcasts(i, v)'
                 PROVE  /\ status'[v] = "BROADCASTING"
                        /\ \A h \in Workers : Broadcasts(h, v)' => h = i
                        /\ wk'[i].pc = "send" => verdict'[v] = "none"
                        /\ wk'[i].pc = "persist" => verdict'[v] = "sent"
                        /\ wk'[i].pc = "reverse" => verdict'[v] = "safe"
        BY DEF OneSender
    <2>1. \A h \in Workers \ {k} : Broadcasts(h, v)' => Broadcasts(h, v)
        BY <1>5 DEF Broadcasts
    <2>2. Broadcasts(k, v)' => pc = "send" /\ v = w
        BY <1>2, <1>5 DEF Broadcasts
    <2>3. \A h \in Workers : Broadcasts(h, v) => status[v] = "BROADCASTING"
        BY DEF Inv, OneSender
    <2>4. CASE pc = "send" /\ v = w
        <3>1. status[w] # "BROADCASTING" /\ verdict[w] = "none"
            BY <2>4, <1>1, <1>2 DEF Eligible, Inv, VerdictTellsStatus
        <3>2. \A h \in Workers : Broadcasts(h, v)' => h = k
            BY <3>1, <2>1, <2>3, <2>4
        <3> QED
            BY <3>1, <3>2, <2>4, <1>1, <1>2, <1>3, <1>5, <1>7
    <2>5. CASE ~ (pc = "send" /\ v = w)
        <3>1. i # k /\ wk'[i] = wk[i] /\ \A h \in Workers : Broadcasts(h, v)' => Broadcasts(h, v)
            BY <2>1, <2>2, <2>5, <1>5
        <3>2. Broadcasts(i, v)
            BY <3>1
        <3>3. status'[v] = status[v]
            BY <3>2, <2>3, <2>5, <1>1, <1>2, <1>7 DEF Eligible
        <3> QED
            BY <3>1, <3>2, <3>3, <1>3 DEF Inv, OneSender
    <2> QED
        BY <2>4, <2>5
<1>12. RepliesHaveRows'
    BY <1>1, <1>2, <1>3, <1>7 DEF Inv, TypeOK, RepliesHaveRows
<1> QED
    BY <1>6, <1>8, <1>9, <1>10, <1>11, <1>12 DEF Inv

\* A step of a worker that stops broadcasting, or did not, and leaves the rows
\* alone.
LEMMA QuietStepInv ==
    ASSUME Inv, NEW k \in Workers, HasJob(k), NEW pc \in {"finalize", "complete", "fail"},
           GoTo(k, pc), faults' \in 0..MaxFaults,
           UNCHANGED <<led, outbox, status, api, reply, toEnqueue, sent, verdict, jobs>>,
           UNCHANGED depositVars
    PROVE  Inv'
<1>1. pc \in JobPCs
    BY DEF JobPCs, WorkerPCs
<1>2. /\ wk' \in [Workers -> WorkerStates] /\ wk'[k].pc = pc
      /\ \A i \in Workers \ {k} : wk'[i] = wk[i]
    BY <1>1, GoesOn DEF Inv
<1>3. JobsHeld' /\ JobsType'
    BY <1>1, GoesOnWithJob
<1>4. TypeOK'
    BY <1>2, <1>3 DEF Inv, TypeOK, depositVars
<1>5. \A i \in Workers, w \in Requests : Broadcasts(i, w)' => Broadcasts(i, w) /\ wk'[i] = wk[i]
    BY <1>2 DEF Broadcasts
<1>6. OneSender'
    BY <1>5 DEF Inv, OneSender
<1>7. LedgerTellsStatus' /\ VerdictTellsStatus' /\ RepliesHaveRows'
    BY DEF Inv, LedgerTellsStatus, Debited, FeeDebited, Returned, Recorded,
           VerdictTellsStatus, RepliesHaveRows
<1> QED
    BY <1>3, <1>4, <1>6, <1>7 DEF Inv

\* The withdrawal was not for this worker to send.
LEMMA RereadInv ==
    ASSUME Inv, NEW k \in Workers, Reread(k), UNCHANGED depositVars
    PROVE  Inv'
<1>1. HasJob(k)
    BY DEF Reread, HasJob, JobPCs, WorkerPCs
<1>2. \E pc \in {"finalize", "complete"} : GoTo(k, pc)
    BY DEF Reread
<1>3. faults \in 0..MaxFaults
    BY DEF Inv, TypeOK
<1> QED
    BY <1>1, <1>2, <1>3, QuietStepInv DEF Reread

\* The chain client answers.
LEMMA SendInv ==
    ASSUME Inv, NEW k \in Workers, Send(k), UNCHANGED depositVars
    PROVE  Inv'
<1> DEFINE w == wk[k].wd
<1>1. HasJob(k) /\ w \in Requests
    BY WorkerHolds DEF Send, HasJob, JobPCs, WorkerPCs, Inv
<1>2. /\ Broadcasts(k, w) /\ status[w] = "BROADCASTING" /\ verdict[w] = "none" /\ sent[w] = 0
      /\ \A i \in Workers : Broadcasts(i, w) => i = k
    BY <1>1 DEF Send, Broadcasts, Inv, OneSender, VerdictTellsStatus
<1>3. PICK pc \in {"persist", "reverse", "complete"}, v \in {"sent", "safe", "ambiguous"}, n \in {0, 1} :
          /\ GoTo(k, pc)
          /\ verdict' = [verdict EXCEPT ![w] = v]
          /\ sent' = [sent EXCEPT ![w] = n]
          /\ pc = "persist" => v = "sent"
          /\ pc = "reverse" => v = "safe"
          /\ v = "sent" => n = 1
          /\ v = "safe" => n = 0
    <2>1. sent \in [Requests -> Nat] /\ [sent EXCEPT ![w] = @ + 1] = [sent EXCEPT ![w] = 1]
          /\ sent = [sent EXCEPT ![w] = 0]
        BY <1>1, <1>2 DEF Inv, TypeOK
    <2>2. \/ /\ sent' = [sent EXCEPT ![w] = 1] /\ verdict' = [verdict EXCEPT ![w] = "sent"]
             /\ GoTo(k, "persist")
          \/ /\ sent' = [sent EXCEPT ![w] = 0] /\ verdict' = [verdict EXCEPT ![w] = "safe"]
             /\ GoTo(k, "reverse")
          \/ /\ sent' \in {[sent EXCEPT ![w] = 0], [sent EXCEPT ![w] = 1]}
             /\ verdict' = [verdict EXCEPT ![w] = "ambiguous"]
             /\ GoTo(k, "complete")
        BY <2>1 DEF Send
    <2> QED
        BY <2>2
<1>4. UNCHANGED <<led, outbox, status, api, reply, toEnqueue, faults, jobs>>
    BY DEF Send
<1>5. pc \in JobPCs
    BY DEF JobPCs, WorkerPCs
<1>6. /\ wk' \in [Workers -> WorkerStates] /\ wk'[k].pc = pc /\ wk'[k].wd = w
      /\ \A i \in Workers \ {k} : wk'[i] = wk[i]
    BY <1>1, <1>3, <1>5, GoesOn DEF Inv
<1>7. JobsHeld' /\ JobsType'
    BY <1>1, <1>3, <1>4, <1>5, GoesOnWithJob
<1>8. /\ verdict \in [Requests -> {"none", "sent", "safe", "ambiguous"}]
      /\ sent \in [Requests -> Nat]
    BY DEF Inv, TypeOK
<1>9. TypeOK'
    BY <1>1, <1>3, <1>4, <1>6, <1>7 DEF Inv, TypeOK, depositVars
<1>10. OneSender'
    <2> SUFFICES ASSUME NEW x \in Requests, NEW i \in Workers, Broadcasts(i, x)'
                 PROVE  /\ status[x] = "BROADCASTING"
                        /\ \A h \in Workers : Broadcasts(h, x)' => h = i
                        /\ wk'[i].pc = "send" => verdict'[x] = "none"
                        /\ wk'[i].pc = "persist" => verdict'[x] = "sent"
                        /\ wk'[i].pc = "reverse" => verdict'[x] = "safe"
        BY <1>4 DEF OneSender
    <2>1. \A h \in Workers : Broadcasts(h, x)' => Broadcasts(h, x)
        BY <1>2, <1>6 DEF Broadcasts
    <2>2. status[x] = "BROADCASTING" /\ \A h \in Workers : Broadcasts(h, x) => h = i
        BY <2>1 DEF Inv, OneSender
    <2>3. CASE x = w
        <3>1. i = k
            BY <2>1, <2>3, <1>2
        <3> QED
            BY <3>1, <2>1, <2>2, <2>3, <1>1, <1>3, <1>6, <1>8
    <2>4. CASE x # w
        <3>1. i # k /\ wk'[i] = wk[i] /\ verdict'[x] = verdict[x]
            BY <2>4, <1>1, <1>3, <1>6, <1>8 DEF Broadcasts
        <3> QED
            BY <3>1, <2>1, <2>2 DEF Inv, OneSender
    <2> QED
        BY <2>3, <2>4
<1>11. VerdictTellsStatus'
    BY <1>1, <1>2, <1>3, <1>4, <1>8 DEF Inv, VerdictTellsStatus
<1>12. LedgerTellsStatus' /\ RepliesHaveRows'
    BY <1>4 DEF Inv, LedgerTellsStatus, Debited, FeeDebited, Returned, Recorded, RepliesHaveRows
<1> QED
    BY <1>7, <1>9, <1>10, <1>11, <1>12 DEF Inv

\* The sole sender of a withdrawal records how its broadcast ended.
LEMMA OutcomeInv ==
    ASSUME Inv, NEW k \in Workers, HasJob(k), NEW w \in Requests, w = wk[k].wd,
           NEW pc \in {"finalize", "complete"}, GoTo(k, pc),
           NEW st \in {"BROADCASTED", "CONFIRMED", "FAILED"},
           status' = [status EXCEPT ![w] = st],
           \/ st = "BROADCASTED" /\ Broadcasts(k, w) /\ wk[k].pc = "persist"
           \/ st = "CONFIRMED" /\ status[w] = "BROADCASTED"
           \/ st = "FAILED" /\ Broadcasts(k, w) /\ wk[k].pc = "reverse",
           led' \in Ledgers, LedgerTellsStatus', outbox' \in [Refs -> Seq(EventTypes)],
           UNCHANGED <<api, reply, toEnqueue, sent, verdict, faults, jobs>>,
           UNCHANGED depositVars
    PROVE  Inv'
<1>1. pc \in JobPCs
    BY DEF JobPCs, WorkerPCs
<1>2. /\ wk' \in [Workers -> WorkerStates] /\ wk'[k].pc = pc
      /\ \A i \in Workers \ {k} : wk'[i] = wk[i]
    BY <1>1, GoesOn DEF Inv
<1>3. JobsHeld' /\ JobsType'
    BY <1>1, GoesOnWithJob
<1>4. status \in [Requests -> Statuses]
    BY DEF Inv, TypeOK
<1>5. TypeOK'
    BY <1>2, <1>3 DEF Inv, TypeOK, Statuses, depositVars
<1>6. \A i \in Workers, x \in Requests :
          Broadcasts(i, x)' => i # k /\ Broadcasts(i, x) /\ wk'[i] = wk[i]
    BY <1>2 DEF Broadcasts
<1>7. \A i \in Workers : Broadcasts(i, w)' => FALSE
    BY <1>6 DEF Inv, OneSender
<1>8. OneSender'
    <2> SUFFICES ASSUME NEW x \in Requests, NEW i \in Workers, Broadcasts(i, x)'
                 PROVE  /\ status'[x] = "BROADCASTING"
                        /\ \A h \in Workers : Broadcasts(h, x)' => h = i
                        /\ wk'[i].pc = "send" => verdict[x] = "none"
                        /\ wk'[i].pc = "persist" => verdict[x] = "sent"
                        /\ wk'[i].pc = "reverse" => verdict[x] = "safe"
        BY DEF OneSender
    <2>1. x # w /\ status'[x] = status[x]
        BY <1>4, <1>7
    <2> QED
        BY <2>1, <1>6 DEF Inv, OneSender
<1>9. VerdictTellsStatus'
    BY <1>4 DEF Inv, VerdictTellsStatus, OneSender
<1>10. RepliesHaveRows'
    BY <1>4 DEF Inv, TypeOK, RepliesHaveRows
<1> QED
    BY <1>3, <1>5, <1>8, <1>9, <1>10 DEF Inv

\* BROADCASTED, the hash and the event.
LEMMA PersistInv ==
    ASSUME Inv, NEW k \in Workers, PersistBroadcast(k), UNCHANGED depositVars
    PROVE  Inv'
<1> DEFINE w == wk[k].wd
<1>1. HasJob(k) /\ w \in Requests /\ w \in Refs
    BY WorkerHolds, CustodyAssumption DEF PersistBroadcast, HasJob, JobPCs, WorkerPCs, Inv
<1>2. Broadcasts(k, w) /\ status[w] = "BROADCASTING"
    BY <1>1 DEF PersistBroadcast, Broadcasts, Inv, OneSender
<1>3. /\ wk[k].pc = "persist" /\ GoTo(k, "finalize")
      /\ status' = [status EXCEPT ![w] = "BROADCASTED"] /\ Stage(w, "WithdrawalBroadcasted")
      /\ UNCHANGED <<led, api, reply, toEnqueue, sent, verdict, faults, jobs>>
    BY DEF PersistBroadcast
<1>4. outbox' \in [Refs -> Seq(EventTypes)]
    BY <1>1, <1>3, StagedType DEF Inv, EventTypes
<1>5. led' \in Ledgers /\ LedgerTellsStatus'
    BY <1>1, <1>2, <1>3 DEF Inv, TypeOK, LedgerTellsStatus, Debited, FeeDebited, Returned, Recorded
<1> HIDE DEF w
<1> QED
    BY <1>1, <1>2, <1>3, <1>4, <1>5, OutcomeInv DEF w

\* CONFIRMED and the event, once.
LEMMA FinalizeInv ==
    ASSUME Inv, NEW k \in Workers, FinalizeBroadcasted(k), UNCHANGED depositVars
    PROVE  Inv'
<1> DEFINE w == wk[k].wd
<1>1. HasJob(k) /\ w \in Requests /\ w \in Refs
    BY WorkerHolds, CustodyAssumption DEF FinalizeBroadcasted, HasJob, JobPCs, WorkerPCs, Inv
<1>2. GoTo(k, "complete") /\ UNCHANGED <<led, api, reply, toEnqueue, sent, verdict, faults, jobs>>
    BY DEF FinalizeBroadcasted
<1>3. CASE status[w] = "BROADCASTED"
    <2>1. status' = [status EXCEPT ![w] = "CONFIRMED"] /\ Stage(w, "WithdrawalConfirmed")
        BY <1>3 DEF FinalizeBroadcasted
    <2>2. outbox' \in [Refs -> Seq(EventTypes)]
        BY <1>1, <2>1, StagedType DEF Inv, EventTypes
    <2>3. led' \in Ledgers /\ LedgerTellsStatus'
        BY <1>1, <1>2, <1>3, <2>1
        DEF Inv, TypeOK, LedgerTellsStatus, Debited, FeeDebited, Returned, Recorded
    <2> HIDE DEF w
    <2> QED
        BY <1>1, <1>2, <1>3, <2>1, <2>2, <2>3, OutcomeInv DEF w
<1>4. CASE status[w] # "BROADCASTED"
    <2>1. faults' \in 0..MaxFaults /\ UNCHANGED <<status, outbox>>
        BY <1>2, <1>4 DEF FinalizeBroadcasted, Inv, TypeOK
    <2> QED
        BY <1>1, <1>2, <2>1, QuietStepInv
<1> QED
    BY <1>3, <1>4

\* FAILED and the money back, or an error that leaves things as they are.
LEMMA ReverseInv ==
    ASSUME Inv, NEW k \in Workers, ReverseWithdrawal(k), UNCHANGED depositVars
    PROVE  Inv'
<1> DEFINE w == wk[k].wd
<1>1. HasJob(k) /\ w \in Requests /\ w \in Refs
    BY WorkerHolds, CustodyAssumption DEF ReverseWithdrawal, HasJob, JobPCs, WorkerPCs, Inv
<1>2. wk[k].pc = "reverse" /\ Broadcasts(k, w) /\ status[w] = "BROADCASTING"
    BY <1>1 DEF ReverseWithdrawal, Broadcasts, Inv, OneSender
<1>3. UNCHANGED <<api, reply, toEnqueue, sent, verdict, faults, jobs>>
    BY DEF ReverseWithdrawal
<1>4. CASE /\ Post(Reversal(w)) /\ status' = [status EXCEPT ![w] = "FAILED"]
           /\ Stage(w, "WithdrawalFailed") /\ GoTo(k, "complete")
    <2>1. outbox' \in [Refs -> Seq(EventTypes)]
        BY <1>1, <1>4, StagedType DEF Inv, EventTypes
    <2>2. led' \in Ledgers /\ LedgerTellsStatus'
        BY <1>1, <1>2, <1>4, ReturnKeepsLedger
    <2> HIDE DEF w
    <2> QED
        BY <1>1, <1>2, <1>3, <1>4, <2>1, <2>2, OutcomeInv DEF w
<1>5. CASE GoTo(k, "fail") /\ UNCHANGED <<led, status, outbox>>
    <2>1. faults' \in 0..MaxFaults
        BY <1>3 DEF Inv, TypeOK
    <2> QED
        BY <1>1, <1>3, <1>5, <2>1, QuietStepInv
<1> QED
    BY <1>4, <1>5 DEF ReverseWithdrawal

\* A worker that was given up, or has its list done, or takes one up.
LEMMA LeavesInv ==
    ASSUME Inv, NEW k \in Workers, NEW s \in WorkerStates, s.pc \notin JobPCs,
           wk' = [wk EXCEPT ![k] = s], JobsType', JobsHeld', faults' \in 0..MaxFaults,
           UNCHANGED <<led, outbox, status, api, reply, toEnqueue, sent, verdict>>,
           UNCHANGED depositVars
    PROVE  Inv'
<1>1. wk' \in [Workers -> WorkerStates] /\ OneSender'
    BY GoneIdle
<1>2. TypeOK'
    BY <1>1 DEF Inv, TypeOK, depositVars
<1>3. LedgerTellsStatus' /\ VerdictTellsStatus' /\ RepliesHaveRows'
    BY DEF Inv, LedgerTellsStatus, Debited, FeeDebited, Returned, Recorded,
           VerdictTellsStatus, RepliesHaveRows
<1> QED
    BY <1>1, <1>2, <1>3 DEF Inv

\* A job is DONE, or FAILED, or PENDING for another attempt.
LEMMA EndJobInv ==
    ASSUME Inv, NEW k \in Workers, CompleteJob(k) \/ FailJob(k), UNCHANGED depositVars
    PROVE  Inv'
<1> DEFINE j == wk[k].job
<1>1. HasJob(k) /\ j \in Jobs /\ jobs[j].status = "RUNNING"
    BY WorkerHolds DEF CompleteJob, FailJob, HasJob, JobPCs, WorkerPCs, Inv, JobsHeld, Running
<1>2. /\ wk' = [wk EXCEPT ![k] = Idle]
      /\ UNCHANGED <<led, outbox, status, api, reply, toEnqueue, sent, verdict, faults>>
    BY DEF CompleteJob, FailJob
<1>3. jobs \in [Jobs -> {FreeSlot} \cup LiveJobs]
    BY DEF Inv, TypeOK, JobsType
<1>4. jobs[j] \in LiveJobs
    BY <1>1, <1>3 DEF FreeSlot
<1>5. PICK row \in {FreeSlot} \cup LiveJobs :
          /\ jobs' = [jobs EXCEPT ![j] = row]
          /\ row.status = "PENDING" => row.attempts < MaxAttempts
    <2>1. FreeSlot.status # "PENDING"
        BY DEF FreeSlot
    <2>2. CASE Complete(j) \/ (Fail(j) /\ jobs[j].attempts >= MaxAttempts)
        BY <2>1, <2>2 DEF Complete, Fail
    <2>3. CASE Fail(j) /\ ~ (jobs[j].attempts >= MaxAttempts)
        <3> DEFINE row == [jobs[j] EXCEPT !.status = "PENDING"]
        <3>1. jobs' = [jobs EXCEPT ![j] = row]
            BY <2>3 DEF Fail
        <3>2. row \in LiveJobs /\ row.attempts < MaxAttempts
            BY <1>4, <2>3, JobQueueAssumption DEF LiveJobs
        <3> QED
            BY <3>1, <3>2
    <2> QED
        BY <2>2, <2>3 DEF CompleteJob, FailJob
<1>6. JobsType'
    BY <1>3, <1>5 DEF JobsType
<1>7. Idle \in WorkerStates /\ Idle.pc \notin JobPCs
    BY DEF WorkerStates, Idle, JobPCs
<1>8. \A i \in Workers : HasJob(i)' => i # k /\ HasJob(i) /\ wk'[i] = wk[i]
    BY <1>2, <1>7, GoneIdle
<1>9. \A i \in Workers : HasJob(i) /\ i # k => wk[i].job # j /\ wk[i].job \in Jobs
    BY <1>1, WorkerHolds DEF Inv, JobsHeld
<1>10. JobsHeld'
    <2>1. \A i \in Jobs \ {j} : jobs'[i] = jobs[i]
        BY <1>3, <1>5
    <2>2. jobs'[j] = row
        BY <1>1, <1>3, <1>5
    <2>3. \A i \in Workers : HasJob(i)' => jobs'[wk'[i].job].status = "RUNNING"
        BY <1>8, <1>9, <2>1 DEF Inv, JobsHeld, Running
    <2>4. \A i, h \in Workers : HasJob(i)' /\ HasJob(h)' /\ wk'[i].job = wk'[h].job => i = h
        BY <1>8 DEF Inv, JobsHeld
    <2>5. \A i \in Jobs : Pending(i)' => jobs'[i].attempts < MaxAttempts
        BY <1>5, <2>1, <2>2 DEF Inv, JobsHeld, Pending
    <2> QED
        BY <2>3, <2>4, <2>5 DEF JobsHeld, Running
<1>11. faults' \in 0..MaxFaults
    BY <1>2 DEF Inv, TypeOK
<1> QED
    BY <1>2, <1>6, <1>7, <1>10, <1>11, LeavesInv

\* requeue_eligible lists what is eligible, then enqueues it one by one.
LEMMA RequeueInv ==
    ASSUME Inv, NEW k \in Workers, ListEligible(k) \/ Requeue(k), UNCHANGED depositVars
    PROVE  Inv'
<1>1. UNCHANGED <<led, outbox, status, api, reply, toEnqueue, sent, verdict, faults>>
    BY DEF ListEligible, Requeue
<1>2. faults' \in 0..MaxFaults
    BY <1>1 DEF Inv, TypeOK
<1>3. Idle \in WorkerStates /\ Idle.pc \notin JobPCs
    BY DEF WorkerStates, Idle, JobPCs
<1>4. \A S \in SUBSET Requests : Listing(S) \in WorkerStates /\ Listing(S).pc \notin JobPCs
    BY DEF WorkerStates, Listing, JobPCs
<1>5. CASE ListEligible(k)
    <2>1. {w \in Requests : Eligible(w)} \in SUBSET Requests
        OBVIOUS
    <2>2. wk' = [wk EXCEPT ![k] = Listing({w \in Requests : Eligible(w)})] /\ UNCHANGED jobs
        BY <1>5 DEF ListEligible
    <2>3. JobsType' /\ JobsHeld'
        BY <2>1, <2>2, <1>4, GoneIdle DEF Inv, TypeOK, JobsType
    <2> QED
        BY <2>1, <2>2, <2>3, <1>1, <1>2, <1>4, LeavesInv
<1>6. CASE Requeue(k)
    <2>1. wk[k] \in WorkerStates /\ wk[k].pc = "requeue"
        BY <1>6 DEF Requeue, Inv, TypeOK
    <2>2. PICK S \in SUBSET Requests : wk[k] = Listing(S)
        BY <2>1 DEF WorkerStates, Idle, Holding, JobPCs
    <2>3. wk[k].list = S
        BY <2>2 DEF Listing
    <2>4. PICK w \in S : /\ IF QueueFull THEN UNCHANGED jobs ELSE Enqueue(w)
                         /\ wk' = [wk EXCEPT ![k] = IF S = {w} THEN Idle ELSE Listing(S \ {w})]
        BY <1>6, <2>3 DEF Requeue
    <2>5. PICK s \in WorkerStates : s.pc \notin JobPCs /\ wk' = [wk EXCEPT ![k] = s]
        BY <2>4, <1>3, <1>4
    <2>6. \A i \in Workers : HasJob(i)' => HasJob(i) /\ wk'[i] = wk[i]
        BY <2>5, GoneIdle
    <2>7. JobsType' /\ JobsHeld'
        <3>1. CASE UNCHANGED jobs
            BY <3>1, <2>5, GoneIdle DEF Inv, TypeOK, JobsType
        <3>2. CASE Enqueue(w)
            BY <3>2, <2>6, EnqueueKeepsJobs
        <3> QED
            BY <2>4, <3>1, <3>2
    <2> QED
        BY <2>5, <2>7, <1>1, <1>2, LeavesInv
<1> QED
    BY <1>5, <1>6

\* A statement fails, or the process dies.
LEMMA FaultInv ==
    ASSUME Inv, NEW k \in Workers, DatabaseError(k) \/ WorkerCrash(k), UNCHANGED depositVars
    PROVE  Inv'
<1>1. /\ faults' = faults + 1 /\ faults < MaxFaults
      /\ UNCHANGED <<led, outbox, status, api, reply, toEnqueue, sent, verdict, jobs>>
    BY DEF DatabaseError, WorkerCrash
<1>2. faults' \in 0..MaxFaults
    BY <1>1, WithdrawalAssumption DEF Inv, TypeOK
<1>3. CASE wk' = [wk EXCEPT ![k] = Idle]
    <2>1. Idle \in WorkerStates /\ Idle.pc \notin JobPCs
        BY DEF WorkerStates, Idle, JobPCs
    <2>2. JobsType' /\ JobsHeld'
        BY <2>1, <1>1, <1>3, GoneIdle DEF Inv, TypeOK, JobsType
    <2> QED
        BY <2>1, <2>2, <1>1, <1>2, <1>3, LeavesInv
<1>4. CASE HasJob(k) /\ GoTo(k, "fail")
    BY <1>1, <1>2, <1>4, QuietStepInv
<1> QED
    BY <1>3, <1>4 DEF DatabaseError, WorkerCrash, HasJob, JobPCs, WorkerPCs

\* What remains of Inv when only deposits move: the ledger is still one, and
\* the rows of the withdrawals are those it had.
LEMMA DepositFrame ==
    ASSUME Inv, UNCHANGED withdrawalVars,
           led' \in Ledgers, outbox' \in [Refs -> Seq(EventTypes)],
           chain' \in [Outputs -> Depths], reorgs' \in 0..MaxReorgs,
           dep' \in [Outputs -> DepositStatuses], watch' \in [Watchers -> Histories],
           misses' \in 0..MaxMisses,
           \A w \in Requests, v \in Wallets,
              type \in {"WITHDRAWAL", "WITHDRAWAL_FEE", "WITHDRAWAL_REVERSAL"} :
                  <<v, type, w>> \in led'.keys <=> <<v, type, w>> \in led.keys
    PROVE  Inv'
<1>1. TypeOK'
    BY DEF Inv, TypeOK, JobsType, withdrawalVars
<1>2. LedgerTellsStatus'
    <2>1. \A w \in Requests : WalletOf[w] \in Wallets
        BY WithdrawalAssumption
    <2>2. \A w \in Requests : /\ Debited(w)' <=> Debited(w)
                              /\ FeeDebited(w)' <=> FeeDebited(w)
                              /\ Returned(w)' <=> Returned(w)
        BY <2>1 DEF Debited, FeeDebited, Returned, Recorded
    <2> QED
        BY <2>2 DEF Inv, LedgerTellsStatus, withdrawalVars
<1>3. OneSender' /\ VerdictTellsStatus' /\ JobsHeld' /\ RepliesHaveRows'
    BY DEF Inv, OneSender, Broadcasts, VerdictTellsStatus, JobsHeld, HasJob, Running, Pending,
           RepliesHaveRows, withdrawalVars
<1> QED
    BY <1>1, <1>2, <1>3 DEF Inv

\* The rest of a history, once an output is handed on, is a history.
LEMMA WithoutType ==
    ASSUME NEW h \in Histories, NEW o
    PROVE  Without(h, o) \in Histories
<1>1. PICK S \in SUBSET Outputs : h \in [S -> Depths \ {"absent"}]
    BY DEF Histories
<1>2. Without(h, o) \in [S \ {o} -> Depths \ {"absent"}]
    BY <1>1 DEF Without
<1> QED
    BY <1>2 DEF Histories

\* An entry about a deposit is none about a withdrawal.
LEMMA DepositEntry ==
    ASSUME Inv, NEW o \in Outputs, NEW e \in {Credit(o), CreditReversal(o)}, Post(e)
    PROVE  /\ led' \in Ledgers /\ led'.hold = led.hold
           /\ \A w \in Requests, v \in Wallets,
                 type \in {"WITHDRAWAL", "WITHDRAWAL_FEE", "WITHDRAWAL_REVERSAL"} :
                     <<v, type, w>> \in led'.keys <=> <<v, type, w>> \in led.keys
<1>1. e \in Entries /\ led \in Ledgers
    BY EntryTypes DEF Inv, TypeOK
<1>2. led' \in Ledgers /\ led'.keys = led.keys \cup KeysOf(e) /\ led'.hold = led.hold
    BY <1>1, PostedType DEF Post
<1>3. KeysOf(e) \in {{<<DepositWallet[o], "DEPOSIT", o>>}, {<<DepositWallet[o], "DEPOSIT_REVERSAL", o>>}}
    BY EntryTypes
<1> QED
    BY <1>2, <1>3

\* The chain, the watcher and the operator who looks at a reorganisation.
LEMMA ChainInv ==
    ASSUME Inv, NEW o \in Outputs, Confirm(o) \/ Reorganise(o), UNCHANGED withdrawalVars
    PROVE  Inv'
<1>1. UNCHANGED <<led, outbox, dep, watch, misses>>
    BY DEF Confirm, Reorganise
<1>2. chain' \in [Outputs -> Depths]
    <2>1. \E d \in Depths : chain' = [chain EXCEPT ![o] = d]
        BY DEF Confirm, Reorganise, Depths
    <2> QED
        BY <2>1 DEF Inv, TypeOK
<1>3. reorgs' \in 0..MaxReorgs
    <2>1. reorgs \in 0..MaxReorgs
        BY DEF Inv, TypeOK
    <2> QED
        BY <2>1, DepositAssumption DEF Confirm, Reorganise
<1> QED
    BY <1>1, <1>2, <1>3, DepositFrame DEF Inv, TypeOK

\* A history is fetched.
LEMMA FetchInv ==
    ASSUME Inv, NEW k \in Watchers, NEW w \in Wallets, FetchDeposits(k, w), UNCHANGED withdrawalVars
    PROVE  Inv'
<1> DEFINE seen == {o \in Outputs : DepositWallet[o] = w /\ chain[o] # "absent"}
<1>1. UNCHANGED <<led, outbox, chain, reorgs, dep, misses>>
      /\ watch' = [watch EXCEPT ![k] = [o \in seen |-> chain[o]]]
    BY DEF FetchDeposits
<1>2. [o \in seen |-> chain[o]] \in [seen -> Depths \ {"absent"}] /\ seen \in SUBSET Outputs
    BY DEF Inv, TypeOK
<1>3. [o \in seen |-> chain[o]] \in Histories
    BY <1>2 DEF Histories
<1>4. watch' \in [Watchers -> Histories]
    BY <1>1, <1>3 DEF Inv, TypeOK
<1> QED
    BY <1>1, <1>4, DepositFrame DEF Inv, TypeOK

\* A deposit is credited, noted, or left for the next round.
LEMMA CreditDepositInv ==
    ASSUME Inv, NEW k \in Watchers, NEW o \in Outputs, CreditDeposit(k, o), UNCHANGED withdrawalVars
    PROVE  Inv'
<1>1. UNCHANGED <<chain, reorgs, misses>> /\ watch' = [watch EXCEPT ![k] = Without(@, o)]
    BY DEF CreditDeposit
<1>2. watch' \in [Watchers -> Histories]
    BY <1>1, WithoutType DEF Inv, TypeOK
<1>3. dep \in [Outputs -> DepositStatuses] /\ dep' \in [Outputs -> DepositStatuses]
    BY DEF CreditDeposit, Inv, TypeOK, DepositStatuses
<1>4. CASE UNCHANGED <<led, outbox>>
    BY <1>1, <1>2, <1>3, <1>4, DepositFrame DEF Inv, TypeOK
<1>5. CASE Post(Credit(o)) /\ Stage(o, "DepositConfirmed")
    <2>1. outbox' \in [Refs -> Seq(EventTypes)]
        BY <1>5, StagedType, CustodyAssumption DEF Inv, EventTypes
    <2> QED
        BY <1>1, <1>2, <1>3, <1>5, <2>1, DepositEntry, DepositFrame DEF Inv, TypeOK
<1> QED
    BY <1>4, <1>5 DEF CreditDeposit

\* A watcher misses deposits it has fetched.
LEMMA MissInv ==
    ASSUME Inv, NEW k \in Watchers, MissDeposits(k), UNCHANGED withdrawalVars
    PROVE  Inv'
<1>1. misses' \in 0..MaxMisses /\ UNCHANGED <<led, outbox, chain, reorgs, dep>>
    BY DepositAssumption DEF MissDeposits, Inv, TypeOK
<1>2. Nothing \in Histories
    <2>1. Nothing \in [{} -> Depths \ {"absent"}]
        BY DEF Nothing
    <2> QED
        BY <2>1 DEF Histories
<1>3. watch' \in [Watchers -> Histories]
    <2>1. watch \in [Watchers -> Histories]
        BY DEF Inv, TypeOK
    <2>2. \A o : Without(watch[k], o) \in Histories
        BY <2>1, WithoutType
    <2>3. \E h \in Histories : watch' = [watch EXCEPT ![k] = h]
        BY <1>2, <2>2 DEF MissDeposits
    <2> QED
        BY <2>1, <2>3
<1> QED
    BY <1>1, <1>3, DepositFrame DEF Inv, TypeOK

\* A deposit is orphaned, and its credit taken back or its wallet put on hold.
LEMMA ReconcileInv ==
    ASSUME Inv, NEW o \in Outputs, ReconcileDeposit(o), UNCHANGED withdrawalVars
    PROVE  Inv'
<1>1. UNCHANGED <<outbox, chain, reorgs, watch, misses>> /\ dep' = [dep EXCEPT ![o] = "ORPHANED"]
    BY DEF ReconcileDeposit
<1>2. dep' \in [Outputs -> DepositStatuses]
    BY <1>1 DEF Inv, TypeOK, DepositStatuses
<1>3. CASE UNCHANGED led
    BY <1>1, <1>2, <1>3, DepositFrame DEF Inv, TypeOK
<1>4. CASE Post(CreditReversal(o))
    BY <1>1, <1>2, <1>4, DepositEntry, DepositFrame DEF Inv, TypeOK
<1>5. CASE PutOnHold(DepositWallet[o])
    <2>1. led \in Ledgers /\ DepositWallet[o] \in Wallets
        BY DepositAssumption DEF Inv, TypeOK
    <2>2. led' \in Ledgers /\ led'.keys = led.keys
        BY <1>5, <2>1 DEF PutOnHold, Ledgers
    <2> QED
        BY <1>1, <1>2, <2>2, DepositFrame DEF Inv, TypeOK
<1> QED
    BY <1>3, <1>4, <1>5 DEF ReconcileDeposit

\* Nothing happens.
LEMMA StutterInv ==
    ASSUME Inv, UNCHANGED vars
    PROVE  Inv'
<1>1. UNCHANGED <<led, outbox>> /\ UNCHANGED withdrawalVars /\ UNCHANGED depositVars
    BY DEF vars
<1> QED
    BY <1>1, DepositFrame DEF Inv, TypeOK, depositVars

\* Every step keeps Inv.
LEMMA NextInv ==
    ASSUME Inv, [Next]_vars
    PROVE  Inv'
<1>1. ASSUME NEW r \in Requests, RequestNext(r), UNCHANGED depositVars
      PROVE  Inv'
    <2>1. CASE LookupOutside(r) \/ LookupInside(r)
        BY <1>1, <2>1, LookupInv DEF LookupOutside, LookupInside
    <2>2. CASE LoseRace(r)
        BY <1>1, <2>2, AnswerInv DEF LoseRace
    <2>3. CASE CreateWithdrawal(r)
        BY <1>1, <2>3, CreateInv
    <2>4. CASE RefuseWithdrawal(r)
        BY <1>1, <2>4, RefuseInv
    <2>5. CASE EnqueueBroadcast(r) \/ EnqueueLost(r)
        BY <1>1, <2>5, EnqueueInv
    <2> QED
        BY <1>1, <2>1, <2>2, <2>3, <2>4, <2>5 DEF RequestNext
<1>2. ASSUME NEW k \in Workers, WorkerNext(k), UNCHANGED depositVars
      PROVE  Inv'
    <2>1. CASE \E j \in Jobs : ClaimJob(k, j)
        BY <1>2, <2>1, ClaimJobInv
    <2>2. CASE ListEligible(k) \/ Requeue(k)
        BY <1>2, <2>2, RequeueInv
    <2>3. CASE DatabaseError(k) \/ WorkerCrash(k)
        BY <1>2, <2>3, FaultInv
    <2>4. CASE CompleteJob(k) \/ FailJob(k)
        BY <1>2, <2>4, EndJobInv
    <2>5. CASE ClaimWithdrawal(k)
        BY <1>2, <2>5, ClaimWithdrawalInv
    <2>6. CASE Reread(k)
        BY <1>2, <2>6, RereadInv
    <2>7. CASE Send(k)
        BY <1>2, <2>7, SendInv
    <2>8. CASE PersistBroadcast(k)
        BY <1>2, <2>8, PersistInv
    <2>9. CASE ReverseWithdrawal(k)
        BY <1>2, <2>9, ReverseInv
    <2>10. CASE FinalizeBroadcasted(k)
        BY <1>2, <2>10, FinalizeInv
    <2> QED
        BY <1>2, <2>1, <2>2, <2>3, <2>4, <2>5, <2>6, <2>7, <2>8, <2>9, <2>10
        DEF WorkerNext, WorkerStep
<1>3. CASE WithdrawalNext /\ UNCHANGED depositVars
    BY <1>1, <1>2, <1>3, AdminInv DEF WithdrawalNext
<1>4. CASE DepositNext /\ UNCHANGED withdrawalVars
    BY <1>4, ChainInv, ReconcileInv, FetchInv, CreditDepositInv, MissInv DEF DepositNext
<1>5. CASE UNCHANGED vars
    BY <1>5, StutterInv
<1> QED
    BY <1>3, <1>4, <1>5 DEF Next

-----------------------------------------------------------------------------

(***************************************************************************)
(* In every state the rows of the ledger are those the statuses tell of,   *)
(* one worker at most is broadcasting a withdrawal, and the client's       *)
(* answer, what was sent and the status agree.                             *)
(***************************************************************************)
THEOREM CustodyInvariant == Spec => []Inv
<1>1. Inv /\ [Next]_vars => Inv'
    BY NextInv
<1> QED
    BY InitInv, <1>1, PTL DEF Spec

(***************************************************************************)
(* A withdrawal is sent at most once, and what was given back was not      *)
(* sent: the safety of the two phases of process_broadcast.                *)
(***************************************************************************)
THEOREM SendOrReturn == Spec => []NeverSentAndReturned
<1>1. Inv => NeverSentAndReturned
    BY DEF Inv, TypeOK, LedgerTellsStatus, VerdictTellsStatus, NeverSentAndReturned
<1> QED
    BY <1>1, CustodyInvariant, PTL

-----------------------------------------------------------------------------
(* Which steps move a status, and what they do besides.                    *)

\* A step leaves the statuses and the events of the withdrawals alone, or it
\* moves one status along a documented transition and stages its event.
LEMMA StatusMoves ==
    ASSUME Inv, [Next]_vars
    PROVE  \/ UNCHANGED status /\ \A w \in Requests : outbox'[w] = outbox[w]
           \/ \E w \in Requests, st \in Statuses :
                 /\ status' = [status EXCEPT ![w] = st]
                 /\ <<status[w], st>> \in Transitions
                 /\ st = "BROADCASTED" => Stage(w, "WithdrawalBroadcasted")
                 /\ st = "CONFIRMED" => Stage(w, "WithdrawalConfirmed")
                 /\ st = "FAILED" => Stage(w, "WithdrawalFailed")
                 /\ st \notin {"BROADCASTED", "CONFIRMED", "FAILED"} => UNCHANGED outbox
                 /\ status[w] = "NONE" => KeyFree(w)
<1> DEFINE Quiet == UNCHANGED status /\ \A w \in Requests : outbox'[w] = outbox[w]
           Moved(w, st) ==
               /\ status' = [status EXCEPT ![w] = st]
               /\ <<status[w], st>> \in Transitions
               /\ st = "BROADCASTED" => Stage(w, "WithdrawalBroadcasted")
               /\ st = "CONFIRMED" => Stage(w, "WithdrawalConfirmed")
               /\ st = "FAILED" => Stage(w, "WithdrawalFailed")
               /\ st \notin {"BROADCASTED", "CONFIRMED", "FAILED"} => UNCHANGED outbox
               /\ status[w] = "NONE" => KeyFree(w)
<1> SUFFICES Quiet \/ \E w \in Requests, st \in Statuses : Moved(w, st)
    OBVIOUS
<1>1. ASSUME NEW r \in Requests, RequestNext(r)
      PROVE  Quiet \/ \E w \in Requests, st \in Statuses : Moved(w, st)
    <2>1. CASE CreateWithdrawal(r)
        <3>1. status[r] = "NONE"
            <4>1. <<WalletOf[r], "WITHDRAWAL", r>> \notin led.keys
                BY <2>1, EntryTypes DEF CreateWithdrawal, Admits, Fresh
            <4> QED
                BY <4>1 DEF Inv, LedgerTellsStatus, Debited, Recorded
        <3>2. \E st \in {"PENDING", "QUEUED"} : status' = [status EXCEPT ![r] = st]
            BY <2>1 DEF CreateWithdrawal
        <3>3. KeyFree(r) /\ UNCHANGED outbox
            BY <2>1 DEF CreateWithdrawal
        <3>4. \E st \in Statuses : Moved(r, st)
            BY <3>1, <3>2, <3>3 DEF Statuses, Transitions
        <3> QED
            BY <3>4
    <2>2. CASE ~ CreateWithdrawal(r)
        BY <1>1, <2>2 DEF RequestNext, LookupOutside, LookupInside, Lookup, LoseRace, RefuseWithdrawal,
                          EnqueueBroadcast, EnqueueLost
    <2> QED
        BY <2>1, <2>2
<1>2. ASSUME NEW w \in Requests, AdminNext(w)
      PROVE  \E st \in Statuses : Moved(w, st)
    BY <1>2 DEF AdminNext, ApproveWithdrawal, RejectWithdrawal, Statuses, Transitions
<1>3. ASSUME NEW k \in Workers, WorkerNext(k)
      PROVE  Quiet \/ \E w \in Requests, st \in Statuses : Moved(w, st)
    <2> DEFINE w == wk[k].wd
    <2>1. CASE ClaimWithdrawal(k)
        <3>1. w \in Requests
            BY <2>1, WorkerHolds DEF ClaimWithdrawal, HasJob, JobPCs, WorkerPCs, Inv
        <3>2. CASE Eligible(w)
            <4>1. Moved(w, "BROADCASTING")
                BY <2>1, <3>2 DEF ClaimWithdrawal, Eligible, Transitions
            <4> QED
                BY <3>1, <4>1 DEF Statuses
        <3>3. CASE ~ Eligible(w)
            BY <2>1, <3>3 DEF ClaimWithdrawal
        <3> QED
            BY <3>2, <3>3
    <2>2. CASE PersistBroadcast(k)
        <3>1. w \in Requests
            BY <2>2, WorkerHolds DEF PersistBroadcast, HasJob, JobPCs, WorkerPCs, Inv
        <3>2. status[w] = "BROADCASTING"
            BY <2>2, <3>1 DEF PersistBroadcast, Broadcasts, Inv, OneSender
        <3>3. Moved(w, "BROADCASTED")
            BY <2>2, <3>2 DEF PersistBroadcast, Transitions
        <3> QED
            BY <3>1, <3>3 DEF Statuses
    <2>3. CASE ReverseWithdrawal(k)
        <3>1. w \in Requests
            BY <2>3, WorkerHolds DEF ReverseWithdrawal, HasJob, JobPCs, WorkerPCs, Inv
        <3>2. status[w] = "BROADCASTING"
            BY <2>3, <3>1 DEF ReverseWithdrawal, Broadcasts, Inv, OneSender
        <3>3. Quiet \/ Moved(w, "FAILED")
            BY <2>3, <3>2 DEF ReverseWithdrawal, Transitions
        <3> QED
            BY <3>1, <3>3 DEF Statuses
    <2>4. CASE FinalizeBroadcasted(k)
        <3>1. w \in Requests
            BY <2>4, WorkerHolds DEF FinalizeBroadcasted, HasJob, JobPCs, WorkerPCs, Inv
        <3>2. Quiet \/ Moved(w, "CONFIRMED")
            BY <2>4 DEF FinalizeBroadcasted, Transitions
        <3> QED
            BY <3>1, <3>2 DEF Statuses
    <2>5. CASE \/ \E j \in Jobs : ClaimJob(k, j)
               \/ ListEligible(k) \/ Reread(k) \/ Send(k) \/ CompleteJob(k) \/ FailJob(k)
               \/ Requeue(k) \/ DatabaseError(k) \/ WorkerCrash(k)
        BY <2>5 DEF ClaimJob, ListEligible, Reread, Send, CompleteJob, FailJob, Requeue,
                    DatabaseError, WorkerCrash
    <2> QED
        BY <1>3, <2>1, <2>2, <2>3, <2>4, <2>5 DEF WorkerNext, WorkerStep
<1>4. CASE DepositNext /\ UNCHANGED withdrawalVars
    <2>1. ASSUME NEW o \in Outputs, Stage(o, "DepositConfirmed")
          PROVE  \A w \in Requests : outbox'[w] = outbox[w]
        BY <2>1, CustodyAssumption DEF Stage, Inv, TypeOK
    <2>2. UNCHANGED outbox \/ \E o \in Outputs : Stage(o, "DepositConfirmed")
        BY <1>4 DEF DepositNext, Confirm, Reorganise, ReconcileDeposit, FetchDeposits, CreditDeposit,
                    MissDeposits
    <2> QED
        BY <1>4, <2>1, <2>2 DEF withdrawalVars
<1>5. CASE UNCHANGED vars
    BY <1>5 DEF vars, withdrawalVars
<1> QED
    BY <1>1, <1>2, <1>3, <1>4, <1>5 DEF Next, WithdrawalNext

(***************************************************************************)
(* A status moves as the header of withdrawals.rs says, whatever workers,  *)
(* jobs and requests meet.                                                 *)
(***************************************************************************)
THEOREM StatusesMoveAsDocumented == Spec => DocumentedTransitions
<1>1. Inv /\ [Next]_vars
      => [\A w \in Requests : status'[w] # status[w] => <<status[w], status'[w]>> \in Transitions]_vars
    BY StatusMoves DEF Inv, TypeOK
<1> QED
    BY <1>1, CustodyInvariant, PTL DEF Spec, DocumentedTransitions

(***************************************************************************)
(* Requests with one idempotency key make one withdrawal, however their    *)
(* look-ups and inserts interleave.                                        *)
(***************************************************************************)
THEOREM KeysAreUnique == Spec => []OneWithdrawalPerKey
<1> DEFINE Unique == \A r, s \in Requests :
                         KeyOf[r] = KeyOf[s] /\ KeyOf[r] # NoKey /\ status[r] # "NONE" /\ status[s] # "NONE"
                         => r = s
<1>1. Init => Unique
    BY DEF Init, WithdrawalInit
<1>2. ASSUME Inv, Unique, [Next]_vars
      PROVE  Unique'
    <2>1. status \in [Requests -> Statuses]
        BY <1>2 DEF Inv, TypeOK
    <2>2. CASE UNCHANGED status
        BY <1>2, <2>2
    <2>3. CASE \E w \in Requests, st \in Statuses :
                  /\ status' = [status EXCEPT ![w] = st]
                  /\ status[w] = "NONE" => KeyFree(w)
        <3>1. PICK w \in Requests, st \in Statuses :
                  /\ status' = [status EXCEPT ![w] = st]
                  /\ status[w] = "NONE" => KeyFree(w)
            BY <2>3
        <3>2. KeyFree(w) /\ KeyOf[w] # NoKey
              => \A v \in Requests : status[v] # "NONE" => KeyOf[v] # KeyOf[w]
            BY DEF KeyFree, WithKey
        <3> QED
            BY <1>2, <2>1, <3>1, <3>2
    <2> QED
        BY <1>2, <2>2, <2>3, StatusMoves
<1>3. Inv /\ Unique => OneWithdrawalPerKey
    <2> SUFFICES ASSUME Inv, Unique, NEW r \in Requests, NEW s \in Requests,
                        KeyOf[r] = KeyOf[s], KeyOf[r] # NoKey,
                        reply[r] # NoReply, reply[s] # NoReply
                 PROVE  reply[r] = reply[s]
        BY DEF OneWithdrawalPerKey
    <2>1. reply[r] \in Requests /\ reply[s] \in Requests
        BY DEF Inv, TypeOK
    <2>2. /\ status[reply[r]] # "NONE" /\ KeyOf[reply[r]] = KeyOf[r]
          /\ status[reply[s]] # "NONE" /\ KeyOf[reply[s]] = KeyOf[s]
        BY DEF Inv, RepliesHaveRows
    <2> QED
        BY <2>1, <2>2
<1> HIDE DEF Unique
<1> QED
    BY <1>1, <1>2, <1>3, CustodyInvariant, PTL DEF Spec

-----------------------------------------------------------------------------
(* What a step does to the deposits.                                       *)

\* Withdrawals leave the rows and events of deposits, and the holds, alone.
LEMMA WithdrawalsLeaveDeposits ==
    ASSUME Inv, WithdrawalNext
    PROVE  /\ led'.hold = led.hold
           /\ \A o \in Outputs : /\ outbox'[o] = outbox[o]
                                 /\ Credited(o)' <=> Credited(o)
                                 /\ TakenBack(o)' <=> TakenBack(o)
<1> DEFINE Same == /\ led'.hold = led.hold
                   /\ \A o \in Outputs, v \in Wallets, type \in {"DEPOSIT", "DEPOSIT_REVERSAL"} :
                          <<v, type, o>> \in led'.keys <=> <<v, type, o>> \in led.keys
<1>1. led \in Ledgers
    BY DEF Inv, TypeOK
<1>2. ASSUME NEW w \in Requests, Post(Reversal(w)) PROVE Same
    <2>1. /\ led'.hold = led.hold
          /\ led'.keys = led.keys \cup {<<WalletOf[w], "WITHDRAWAL_REVERSAL", w>>}
        BY <1>1, <1>2, EntryTypes, PostedType DEF Post
    <2> QED
        BY <2>1
<1>3. ASSUME NEW w \in Requests, CreateWithdrawal(w) PROVE Same
    <2> DEFINE debited == Posted(led, Debit(w))
    <2>1. /\ debited \in Ledgers /\ debited.hold = led.hold
          /\ debited.keys = led.keys \cup {<<WalletOf[w], "WITHDRAWAL", w>>}
        BY <1>1, EntryTypes, PostedType
    <2>2. CASE led' = debited
        BY <2>1, <2>2
    <2>3. CASE led' = Posted(debited, FeeDebit(w))
        <3>1. /\ led'.hold = debited.hold
              /\ led'.keys = debited.keys \cup {<<WalletOf[w], "WITHDRAWAL_FEE", w>>}
            BY <2>1, <2>3, EntryTypes, PostedType
        <3> QED
            BY <2>1, <3>1
    <2> QED
        BY <1>3, <2>2, <2>3 DEF CreateWithdrawal
<1>4. UNCHANGED led \/ (\E w \in Requests : Post(Reversal(w)) \/ CreateWithdrawal(w))
    <2>1. ASSUME NEW k \in Workers, ReverseWithdrawal(k)
          PROVE  UNCHANGED led \/ (\E w \in Requests : Post(Reversal(w)))
        <3>1. wk[k].wd \in Requests
            BY <2>1, WorkerHolds DEF ReverseWithdrawal, HasJob, JobPCs, WorkerPCs, Inv
        <3> QED
            BY <2>1, <3>1 DEF ReverseWithdrawal
    <2>2. ASSUME NEW k \in Workers, WorkerNext(k), ~ ReverseWithdrawal(k)
          PROVE  UNCHANGED led
        BY <2>2 DEF WorkerNext, WorkerStep, ClaimJob, ListEligible, ClaimWithdrawal, Reread, Send,
                    PersistBroadcast, FinalizeBroadcasted, CompleteJob, FailJob, Requeue,
                    DatabaseError, WorkerCrash
    <2>3. ASSUME NEW r \in Requests, RequestNext(r), ~ CreateWithdrawal(r)
          PROVE  UNCHANGED led
        BY <2>3 DEF RequestNext, LookupOutside, LookupInside, Lookup, LoseRace, RefuseWithdrawal,
                    EnqueueBroadcast, EnqueueLost
    <2>4. ASSUME NEW w \in Requests, AdminNext(w)
          PROVE  UNCHANGED led \/ Post(Reversal(w))
        BY <2>4 DEF AdminNext, ApproveWithdrawal, RejectWithdrawal
    <2> QED
        BY <2>1, <2>2, <2>3, <2>4 DEF WithdrawalNext
<1>5. Same
    BY <1>2, <1>3, <1>4
<1>6. \A o \in Outputs : /\ Credited(o)' <=> Credited(o)
                         /\ TakenBack(o)' <=> TakenBack(o)
    BY <1>5, DepositAssumption DEF Credited, TakenBack, Recorded
<1>7. UNCHANGED outbox \/ \E w \in Requests, event \in EventTypes : Stage(w, event)
    <2>1. ASSUME NEW k \in Workers,
                 PersistBroadcast(k) \/ ReverseWithdrawal(k) \/ FinalizeBroadcasted(k)
          PROVE  UNCHANGED outbox \/ \E w \in Requests, event \in EventTypes : Stage(w, event)
        <3>1. wk[k].wd \in Requests
            BY <2>1, WorkerHolds
            DEF PersistBroadcast, ReverseWithdrawal, FinalizeBroadcasted, HasJob, JobPCs, WorkerPCs, Inv
        <3> QED
            BY <2>1, <3>1 DEF PersistBroadcast, ReverseWithdrawal, FinalizeBroadcasted, EventTypes
    <2>2. ASSUME NEW k \in Workers, WorkerNext(k),
                 ~ (PersistBroadcast(k) \/ ReverseWithdrawal(k) \/ FinalizeBroadcasted(k))
          PROVE  UNCHANGED outbox
        BY <2>2 DEF WorkerNext, WorkerStep, ClaimJob, ListEligible, ClaimWithdrawal, Reread, Send,
                    CompleteJob, FailJob, Requeue, DatabaseError, WorkerCrash
    <2>3. ASSUME NEW r \in Requests, RequestNext(r) \/ AdminNext(r)
          PROVE  UNCHANGED outbox
        BY <2>3 DEF RequestNext, LookupOutside, LookupInside, Lookup, LoseRace, CreateWithdrawal,
                    RefuseWithdrawal, EnqueueBroadcast, EnqueueLost, AdminNext, ApproveWithdrawal,
                    RejectWithdrawal
    <2> QED
        BY <2>1, <2>2, <2>3 DEF WithdrawalNext
<1>8. \A o \in Outputs : outbox'[o] = outbox[o]
    BY <1>7, CustodyAssumption DEF Stage, Inv, TypeOK
<1> QED
    BY <1>5, <1>6, <1>8

\* The step that credits a deposit, and the one that takes it back, write one
\* row about it, and none about another.
LEMMA DepositRows ==
    ASSUME Inv, NEW o \in Outputs, NEW e \in {Credit(o), CreditReversal(o)}, Post(e)
    PROVE  /\ e = Credit(o) => ~ Credited(o)
           /\ e = CreditReversal(o) => ~ TakenBack(o)
           /\ \A p \in Outputs : /\ Credited(p)' <=> Credited(p) \/ (p = o /\ e = Credit(o))
                                 /\ TakenBack(p)' <=> TakenBack(p) \/ (p = o /\ e = CreditReversal(o))
<1>1. led \in Ledgers
    BY DEF Inv, TypeOK
<1>2. KeysOf(e) \cap led.keys = {} /\ led'.keys = led.keys \cup KeysOf(e)
    BY <1>1, EntryTypes, PostedType DEF Post, Admits, Fresh
<1>3. Credit(o) # CreditReversal(o)
    BY DEF Credit, CreditReversal, Entry
<1>4. CASE e = Credit(o)
    <2>1. KeysOf(e) = {<<DepositWallet[o], "DEPOSIT", o>>}
        BY <1>4, EntryTypes
    <2> QED
        BY <1>2, <1>3, <1>4, <2>1 DEF Credited, TakenBack, Recorded
<1>5. CASE e = CreditReversal(o)
    <2>1. KeysOf(e) = {<<DepositWallet[o], "DEPOSIT_REVERSAL", o>>}
        BY <1>5, EntryTypes
    <2> QED
        BY <1>2, <1>3, <1>5, <2>1 DEF Credited, TakenBack, Recorded
<1> QED
    BY <1>4, <1>5

(***************************************************************************)
(* The outbox has the events of what committed, in order, and no others:   *)
(* staging in the transaction of the change (OutboxWriter::stage) works.   *)
(***************************************************************************)
THEOREM EventsAreFaithful == Spec => []EventsTellStatus
<1>1. Init => EventsTellStatus
    BY CustodyAssumption
    DEF Init, WithdrawalInit, DepositInit, EventsTellStatus, Credited, Recorded
<1>2. ASSUME Inv, EventsTellStatus, [Next]_vars
      PROVE  EventsTellStatus'
    <2>1. /\ outbox \in [Refs -> Seq(EventTypes)] /\ status \in [Requests -> Statuses]
          /\ Requests \subseteq Refs /\ Outputs \subseteq Refs
        BY <1>2, CustodyAssumption DEF Inv, TypeOK
    <2>2. ASSUME NEW w \in Requests
          PROVE  /\ status'[w] = "BROADCASTED" => outbox'[w] = <<"WithdrawalBroadcasted">>
                 /\ status'[w] = "CONFIRMED"
                    => outbox'[w] = <<"WithdrawalBroadcasted", "WithdrawalConfirmed">>
                 /\ status'[w] = "FAILED" => outbox'[w] = <<"WithdrawalFailed">>
                 /\ status'[w] \notin {"BROADCASTED", "CONFIRMED", "FAILED"} => outbox'[w] = <<>>
        <3>1. CASE UNCHANGED status /\ \A v \in Requests : outbox'[v] = outbox[v]
            BY <1>2, <2>2, <3>1 DEF EventsTellStatus
        <3>2. CASE \E v \in Requests, st \in Statuses :
                      /\ status' = [status EXCEPT ![v] = st]
                      /\ <<status[v], st>> \in Transitions
                      /\ st = "BROADCASTED" => Stage(v, "WithdrawalBroadcasted")
                      /\ st = "CONFIRMED" => Stage(v, "WithdrawalConfirmed")
                      /\ st = "FAILED" => Stage(v, "WithdrawalFailed")
                      /\ st \notin {"BROADCASTED", "CONFIRMED", "FAILED"} => UNCHANGED outbox
            <4>1. PICK v \in Requests, st \in Statuses :
                      /\ status' = [status EXCEPT ![v] = st]
                      /\ <<status[v], st>> \in Transitions
                      /\ st = "BROADCASTED" => Stage(v, "WithdrawalBroadcasted")
                      /\ st = "CONFIRMED" => Stage(v, "WithdrawalConfirmed")
                      /\ st = "FAILED" => Stage(v, "WithdrawalFailed")
                      /\ st \notin {"BROADCASTED", "CONFIRMED", "FAILED"} => UNCHANGED outbox
                BY <3>2
            <4>2. CASE v # w
                <5>1. status'[w] = status[w] /\ outbox'[w] = outbox[w]
                    BY <2>1, <4>1, <4>2 DEF Stage
                <5> QED
                    BY <1>2, <5>1 DEF EventsTellStatus
            <4>3. CASE v = w
                <5>1. status'[w] = st
                    BY <2>1, <4>1, <4>3
                <5>2. CASE st = "CONFIRMED"
                    <6>1. status[w] = "BROADCASTED"
                        BY <4>1, <4>3, <5>2 DEF Transitions
                    <6>2. outbox[w] = <<"WithdrawalBroadcasted">>
                        BY <1>2, <6>1 DEF EventsTellStatus
                    <6>3. outbox'[w] = Append(outbox[w], "WithdrawalConfirmed")
                        BY <2>1, <4>1, <4>3, <5>2 DEF Stage
                    <6>4. outbox'[w] = <<"WithdrawalBroadcasted", "WithdrawalConfirmed">>
                        <7>1. outbox[w] \in Seq(EventTypes)
                            BY <2>1
                        <7> QED
                            BY <6>2, <6>3, <7>1, AppendToOne DEF EventTypes
                    <6> QED
                        BY <5>1, <5>2, <6>4
                <5>3. CASE st # "CONFIRMED"
                    <6>1. status[w] \notin {"BROADCASTED", "CONFIRMED", "FAILED"}
                        BY <4>1, <4>3, <5>3 DEF Transitions
                    <6>2. outbox[w] = <<>>
                        BY <1>2, <6>1 DEF EventsTellStatus
                    <6>3. /\ st = "BROADCASTED" => outbox'[w] = Append(outbox[w], "WithdrawalBroadcasted")
                          /\ st = "FAILED" => outbox'[w] = Append(outbox[w], "WithdrawalFailed")
                          /\ st \notin {"BROADCASTED", "CONFIRMED", "FAILED"} => outbox'[w] = outbox[w]
                        BY <2>1, <4>1, <4>3 DEF Stage
                    <6> QED
                        BY <5>1, <5>3, <6>2, <6>3
                <5> QED
                    BY <5>2, <5>3
            <4> QED
                BY <4>2, <4>3
        <3> QED
            BY <1>2, <3>1, <3>2, StatusMoves
    <2>3. ASSUME NEW o \in Outputs
          PROVE  outbox'[o] = IF Credited(o)' THEN <<"DepositConfirmed">> ELSE <<>>
        <3>1. outbox[o] = IF Credited(o) THEN <<"DepositConfirmed">> ELSE <<>>
            BY <1>2 DEF EventsTellStatus
        <3>2. CASE outbox'[o] = outbox[o] /\ (Credited(o)' <=> Credited(o))
            BY <3>1, <3>2
        <3>3. CASE WithdrawalNext
            BY <1>2, <3>2, <3>3, WithdrawalsLeaveDeposits
        <3>4. ASSUME NEW p \in Outputs, Post(Credit(p)), Stage(p, "DepositConfirmed")
              PROVE  outbox'[o] = IF Credited(o)' THEN <<"DepositConfirmed">> ELSE <<>>
            <4>1. ~ Credited(p) /\ (Credited(o)' <=> Credited(o) \/ o = p)
                BY <1>2, <3>4, DepositRows
            <4>2. CASE o # p
                BY <2>1, <3>2, <3>4, <4>1, <4>2 DEF Stage
            <4>3. CASE o = p
                <5>1. outbox[o] = <<>> /\ outbox'[o] = Append(outbox[o], "DepositConfirmed")
                    BY <2>1, <3>1, <3>4, <4>1, <4>3 DEF Stage
                <5> QED
                    BY <4>1, <4>3, <5>1
            <4> QED
                BY <4>2, <4>3
        <3>5. ASSUME NEW p \in Outputs, Post(CreditReversal(p)), UNCHANGED outbox
              PROVE  outbox'[o] = outbox[o] /\ (Credited(o)' <=> Credited(o))
            <4>1. CreditReversal(p) # Credit(p)
                BY DEF Credit, CreditReversal, Entry
            <4> QED
                BY <1>2, <3>5, <4>1, DepositRows
        <3>6. CASE UNCHANGED <<led, outbox>>
            BY <3>2, <3>6 DEF Credited, Recorded
        <3>7. ASSUME NEW w \in Wallets, PutOnHold(w), UNCHANGED outbox
              PROVE  outbox'[o] = outbox[o] /\ (Credited(o)' <=> Credited(o))
            <4>1. led'.keys = led.keys
                BY <1>2, <3>7 DEF PutOnHold, Inv, TypeOK, Ledgers
            <4> QED
                BY <3>7, <4>1 DEF Credited, Recorded
        <3>8. CASE DepositNext
            <4>1. \/ UNCHANGED <<led, outbox>>
                  \/ \E p \in Outputs : \/ Post(Credit(p)) /\ Stage(p, "DepositConfirmed")
                                        \/ Post(CreditReversal(p)) /\ UNCHANGED outbox
                                        \/ PutOnHold(DepositWallet[p]) /\ UNCHANGED outbox
                BY <3>8 DEF DepositNext, Confirm, Reorganise, ReconcileDeposit, FetchDeposits,
                            CreditDeposit, MissDeposits
            <4> QED
                BY <4>1, <3>2, <3>4, <3>5, <3>6, <3>7, DepositAssumption
        <3> QED
            BY <1>2, <3>3, <3>6, <3>8 DEF Next, vars
    <2> QED
        BY <2>2, <2>3 DEF EventsTellStatus
<1> QED
    BY <1>1, <1>2, CustodyInvariant, PTL DEF Spec

\* What a step of the deposits does to their rows, and when.
LEMMA DepositMoves ==
    ASSUME Inv, DepositNext
    PROVE  \/ /\ led' = led
              /\ \A o \in Outputs : dep[o] = "CREDITED" <=> dep'[o] = "CREDITED"
           \/ \E o \in Outputs : /\ Post(Credit(o)) /\ dep' = [dep EXCEPT ![o] = "CREDITED"]
           \/ \E o \in Outputs : /\ dep[o] = "CREDITED" /\ dep' = [dep EXCEPT ![o] = "ORPHANED"]
                                 /\ Covers(led, CreditReversal(o)) /\ Post(CreditReversal(o))
           \/ \E o \in Outputs : /\ dep[o] = "CREDITED" /\ dep' = [dep EXCEPT ![o] = "ORPHANED"]
                                 /\ ~ Covers(led, CreditReversal(o)) /\ PutOnHold(DepositWallet[o])
<1> DEFINE Still == /\ led' = led
                    /\ \A o \in Outputs : dep[o] = "CREDITED" <=> dep'[o] = "CREDITED"
           Taken(o) == Post(Credit(o)) /\ dep' = [dep EXCEPT ![o] = "CREDITED"]
           Undone(o) == /\ dep[o] = "CREDITED" /\ dep' = [dep EXCEPT ![o] = "ORPHANED"]
                        /\ Covers(led, CreditReversal(o)) /\ Post(CreditReversal(o))
           Owed(o) == /\ dep[o] = "CREDITED" /\ dep' = [dep EXCEPT ![o] = "ORPHANED"]
                      /\ ~ Covers(led, CreditReversal(o)) /\ PutOnHold(DepositWallet[o])
<1>1. dep \in [Outputs -> DepositStatuses]
    BY DEF Inv, TypeOK
<1>2. ASSUME NEW o \in Outputs, Confirm(o) \/ Reorganise(o) PROVE Still
    BY <1>2 DEF Confirm, Reorganise
<1>3. ASSUME NEW o \in Outputs, ReconcileDeposit(o) PROVE Still \/ Undone(o) \/ Owed(o)
    BY <1>1, <1>3 DEF ReconcileDeposit
<1>4. ASSUME NEW k \in Watchers, NEW o \in Outputs, CreditDeposit(k, o) PROVE Still \/ Taken(o)
    BY <1>1, <1>4 DEF CreditDeposit, AlreadyCredited
<1>5. ASSUME NEW k \in Watchers, MissDeposits(k) \/ (\E w \in Wallets : FetchDeposits(k, w)) PROVE Still
    BY <1>5 DEF MissDeposits, FetchDeposits
<1> QED
    BY <1>2, <1>3, <1>4, <1>5 DEF DepositNext

\* A wallet on hold, or credited rows and what has been taken back.
LEMMA DepositsBackedNext ==
    ASSUME Inv, DepositsBacked, [Next]_vars
    PROVE  DepositsBacked'
<1>1. led \in Ledgers /\ dep \in [Outputs -> DepositStatuses]
    BY DEF Inv, TypeOK
<1>2. CASE WithdrawalNext /\ UNCHANGED depositVars
    BY <1>2, WithdrawalsLeaveDeposits DEF DepositsBacked, depositVars
<1>3. CASE /\ led' = led
           /\ \A o \in Outputs : dep[o] = "CREDITED" <=> dep'[o] = "CREDITED"
    BY <1>3 DEF DepositsBacked, Credited, TakenBack, Recorded
<1>4. ASSUME NEW p \in Outputs, Post(Credit(p)), dep' = [dep EXCEPT ![p] = "CREDITED"]
      PROVE  DepositsBacked'
    <2>1. led'.hold = led.hold
        BY <1>4, DepositEntry
    <2>2. /\ ~ Credited(p)
          /\ \A o \in Outputs : /\ Credited(o)' <=> Credited(o) \/ o = p
                                /\ TakenBack(o)' <=> TakenBack(o)
        <3>1. Credit(p) # CreditReversal(p)
            BY DEF Credit, CreditReversal, Entry
        <3> QED
            BY <1>4, <3>1, DepositRows
    <2> QED
        BY <1>1, <1>4, <2>1, <2>2 DEF DepositsBacked
<1>5. ASSUME NEW p \in Outputs, dep[p] = "CREDITED", Post(CreditReversal(p)),
             dep' = [dep EXCEPT ![p] = "ORPHANED"]
      PROVE  DepositsBacked'
    <2>1. led'.hold = led.hold
        BY <1>5, DepositEntry
    <2>2. \A o \in Outputs : /\ Credited(o)' <=> Credited(o)
                             /\ TakenBack(o)' <=> TakenBack(o) \/ o = p
        <3>1. Credit(p) # CreditReversal(p)
            BY DEF Credit, CreditReversal, Entry
        <3> QED
            BY <1>5, <3>1, DepositRows
    <2> QED
        BY <1>1, <1>5, <2>1, <2>2 DEF DepositsBacked
<1>6. ASSUME NEW p \in Outputs, PutOnHold(DepositWallet[p]), dep' = [dep EXCEPT ![p] = "ORPHANED"]
      PROVE  DepositsBacked'
    <2>1. led'.keys = led.keys /\ led'.hold = led.hold \cup {DepositWallet[p]}
        BY <1>1, <1>6 DEF PutOnHold, Ledgers
    <2>2. \A o \in Outputs : /\ Credited(o)' <=> Credited(o)
                             /\ TakenBack(o)' <=> TakenBack(o)
        BY <2>1 DEF Credited, TakenBack, Recorded
    <2> QED
        BY <1>1, <1>6, <2>1, <2>2 DEF DepositsBacked
<1>7. CASE DepositNext
    BY <1>3, <1>4, <1>5, <1>6, <1>7, DepositMoves
<1>8. CASE UNCHANGED vars
    BY <1>3, <1>8 DEF vars, depositVars
<1> QED
    BY <1>2, <1>7, <1>8 DEF Next

(***************************************************************************)
(* A deposit is credited once; it keeps its credit, has given it back, or  *)
(* its wallet is on hold (credit_deposit and reconcile_deposit).           *)
(***************************************************************************)
THEOREM CreditsAreBacked == Spec => []DepositsBacked
<1>1. Init => DepositsBacked
    BY DEF Init, DepositInit, DepositsBacked, Credited, TakenBack, Recorded
<1> QED
    BY <1>1, DepositsBackedNext, CustodyInvariant, PTL DEF Spec

-----------------------------------------------------------------------------
(* Custody implements CustodyPromise.                                      *)

\* What a posted entry does to the balances.
LEMMA PostedBalance ==
    ASSUME NEW l \in Ledgers, NEW e \in Entries
    PROVE  Posted(l, e).balance = [l.balance EXCEPT ![e.wallet] = @ + e.amount]
BY DEF Posted

\* A wallet the promise takes for frozen is on hold.
LEMMA OwingWalletsOnHold ==
    ASSUME DepositsBacked, NEW w \in Wallets, w \notin led.hold
    PROVE  ~ Promise!Frozen(w)
BY DEF Promise!Frozen, CreditOf, DepositsBacked

\* A withdrawal is created: its cost is held.
LEMMA CreateImplements ==
    ASSUME Inv, DepositsBacked, NEW r \in Requests, CreateWithdrawal(r), UNCHANGED depositVars
    PROVE  Promise!Hold(r)
<1> DEFINE debited == Posted(led, Debit(r))
           w == WalletOf[r]
<1>1. /\ led \in Ledgers /\ status \in [Requests -> Statuses]
      /\ led.balance \in [Wallets -> Int] /\ w \in Wallets
      /\ AmountOf[r] \in Nat \ {0} /\ Fee \in Nat
    BY WithdrawalAssumption DEF Inv, TypeOK, Ledgers
<1>2. /\ Debit(r) \in Entries /\ Debit(r).wallet = w /\ Debit(r).amount = -AmountOf[r]
      /\ Debit(r).type = "WITHDRAWAL"
      /\ FeeDebit(r) \in Entries /\ FeeDebit(r).wallet = w /\ FeeDebit(r).amount = -Fee
    BY EntryTypes DEF Debit, FeeDebit, Entry
<1>3. /\ debited \in Ledgers
      /\ debited.balance = [led.balance EXCEPT ![w] = @ + -AmountOf[r]]
    BY <1>1, <1>2, PostedType, PostedBalance
<1>4. /\ Admits(led, Debit(r))
      /\ Fee > 0 => Admits(debited, FeeDebit(r)) /\ led' = Posted(debited, FeeDebit(r))
      /\ ~ (Fee > 0) => led' = debited
      /\ KeyFree(r) /\ UNCHANGED sent
      /\ \E st \in {"PENDING", "QUEUED"} : status' = [status EXCEPT ![r] = st]
    BY DEF CreateWithdrawal
<1>5. w \notin led.hold /\ led.balance[w] - AmountOf[r] >= 0
    BY <1>1, <1>2, <1>4 DEF Admits, HoldPermits, Covers
<1>6. /\ led.balance[w] >= AmountOf[r] + Fee
      /\ led'.balance = [led.balance EXCEPT ![w] = @ - (AmountOf[r] + Fee)]
    <2>1. CASE Fee > 0
        <3>1. led'.balance = [debited.balance EXCEPT ![w] = @ + -Fee]
            BY <1>2, <1>3, <1>4, <2>1, PostedBalance
        <3>2. debited.balance[w] = led.balance[w] - AmountOf[r]
            BY <1>1, <1>3
        <3>3. debited.balance[w] - Fee >= 0
            BY <1>1, <1>2, <1>3, <1>4, <2>1, <3>2 DEF Admits, Covers
        <3> HIDE DEF debited
        <3>4. led.balance[w] - AmountOf[r] + -Fee = led.balance[w] - (AmountOf[r] + Fee)
            BY <1>1
        <3>5. led'.balance = [led.balance EXCEPT ![w] = led.balance[w] - AmountOf[r] + -Fee]
            BY <1>1, <1>3, <3>1, <3>2
        <3> QED
            BY <1>1, <3>2, <3>3, <3>4, <3>5
    <2>2. CASE ~ (Fee > 0)
        BY <1>1, <1>3, <1>4, <1>5, <2>2
    <2> QED
        BY <2>1, <2>2
<1>7. status[r] = "NONE"
    <2>1. <<w, "WITHDRAWAL", r>> \notin led.keys
        BY <1>4, EntryTypes DEF Admits, Fresh
    <2> QED
        BY <2>1 DEF Inv, LedgerTellsStatus, Debited, Recorded
<1>8. sent[r] = 0
    BY <1>7 DEF Inv, VerdictTellsStatus
<1>9. \A s \in Requests : FundsOf(s)' = IF s = r THEN "held" ELSE FundsOf(s)
    BY <1>1, <1>4, <1>7, <1>8 DEF FundsOf
<1>10. \A s \in Requests : KeyOf[s] = KeyOf[r] /\ KeyOf[r] # NoKey => status[s] = "NONE"
    BY <1>4 DEF KeyFree, WithKey
<1>11. \A o \in Outputs : CreditOf(o)' = CreditOf(o)
    <2>1. WithdrawalNext
        BY DEF WithdrawalNext, RequestNext
    <2> QED
        BY <2>1, WithdrawalsLeaveDeposits DEF CreditOf, depositVars
<1>12. ~ Promise!Frozen(w)
    BY <1>1, <1>5, OwingWalletsOnHold
<1>13. FundsOf(r) = "none" /\ \A s \in Requests : status[s] = "NONE" => FundsOf(s) = "none"
    BY <1>7 DEF FundsOf
<1> QED
    BY <1>6, <1>9, <1>10, <1>11, <1>12, <1>13 DEF Promise!Hold, Promise!Move

\* The cost goes back: a rejection, or a broadcast that safely failed.
LEMMA ReturnImplements ==
    ASSUME Inv, DepositsBacked, WithdrawalNext, UNCHANGED depositVars,
           NEW r \in Requests, Post(Reversal(r)), status[r] \in {"PENDING", "BROADCASTING"}, sent[r] = 0,
           NEW st \in {"FAILED", "CANCELED"}, status' = [status EXCEPT ![r] = st], UNCHANGED sent
    PROVE  Promise!Return(r)
<1> DEFINE w == WalletOf[r]
<1>1. /\ led \in Ledgers /\ status \in [Requests -> Statuses]
      /\ led.balance \in [Wallets -> Int] /\ w \in Wallets
      /\ AmountOf[r] \in Nat \ {0} /\ Fee \in Nat
    BY WithdrawalAssumption DEF Inv, TypeOK, Ledgers
<1>2. /\ Reversal(r) \in Entries /\ Reversal(r).wallet = w
      /\ Reversal(r).amount = AmountOf[r] + Fee /\ Reversal(r).type = "WITHDRAWAL_REVERSAL"
    BY EntryTypes DEF Reversal, Entry
<1>3. w \notin led.hold /\ led'.balance = [led.balance EXCEPT ![w] = @ + (AmountOf[r] + Fee)]
    BY <1>1, <1>2, PostedBalance DEF Post, Admits, HoldPermits
<1>4. FundsOf(r) = "held" /\ \A s \in Requests : FundsOf(s)' = IF s = r THEN "returned" ELSE FundsOf(s)
    BY <1>1 DEF FundsOf
<1>5. \A o \in Outputs : CreditOf(o)' = CreditOf(o)
    BY WithdrawalsLeaveDeposits DEF CreditOf, depositVars
<1>6. ~ Promise!Frozen(w)
    BY <1>1, <1>3, OwingWalletsOnHold
<1> QED
    BY <1>3, <1>4, <1>5, <1>6 DEF Promise!Return, Promise!Move

\* The other steps of withdrawals move no money, but for the client's payment.
LEMMA OtherWithdrawalsImplement ==
    ASSUME Inv, WithdrawalNext, UNCHANGED depositVars, UNCHANGED led,
           \/ UNCHANGED sent
           \/ \E r \in Requests : /\ sent' = [sent EXCEPT ![r] = 1] /\ sent[r] = 0
                                  /\ status[r] = "BROADCASTING" /\ UNCHANGED status,
           \/ UNCHANGED status
           \/ \E w \in Requests, st \in Statuses \ {"NONE", "FAILED", "CANCELED"} :
                  status[w] \notin {"NONE", "FAILED", "CANCELED"} /\ status' = [status EXCEPT ![w] = st]
    PROVE  (\E r \in Requests : Promise!PayOut(r)) \/ UNCHANGED Promise!vars
<1>1. status \in [Requests -> Statuses] /\ sent \in [Requests -> Nat]
    BY DEF Inv, TypeOK
<1>2. \A o \in Outputs : CreditOf(o)' = CreditOf(o)
    BY WithdrawalsLeaveDeposits DEF CreditOf, depositVars
<1>3. CASE UNCHANGED sent
    <2>1. \A s \in Requests : FundsOf(s)' = FundsOf(s)
        BY <1>1, <1>3 DEF FundsOf
    <2> QED
        BY <1>2, <2>1 DEF Promise!vars
<1>4. ASSUME NEW r \in Requests, sent' = [sent EXCEPT ![r] = 1], sent[r] = 0,
             status[r] = "BROADCASTING", UNCHANGED status
      PROVE  Promise!PayOut(r)
    <2>1. sent'[r] = 1 /\ \A s \in Requests \ {r} : sent'[s] = sent[s]
        BY <1>1, <1>4
    <2>2. FundsOf(r) = "held" /\ FundsOf(r)' = "paid"
        BY <1>4, <2>1 DEF FundsOf
    <2>3. \A s \in Requests \ {r} : FundsOf(s)' = FundsOf(s)
        BY <1>4, <2>1 DEF FundsOf
    <2> QED
        BY <1>2, <2>2, <2>3 DEF Promise!PayOut
<1> QED
    BY <1>3, <1>4

\* Every step of the withdrawals is one of the promise, or a stutter.
LEMMA WithdrawalsImplement ==
    ASSUME Inv, DepositsBacked, WithdrawalNext, UNCHANGED depositVars
    PROVE  Promise!Next \/ UNCHANGED Promise!vars
<1>1. status \in [Requests -> Statuses]
    BY DEF Inv, TypeOK
<1>2. ASSUME NEW r \in Requests, RequestNext(r)
      PROVE  Promise!Next \/ UNCHANGED Promise!vars
    <2>1. CASE CreateWithdrawal(r)
        BY <2>1, CreateImplements DEF Promise!Next
    <2>2. CASE ~ CreateWithdrawal(r)
        <3>1. UNCHANGED <<led, sent, status>>
            BY <1>2, <2>2 DEF RequestNext, LookupOutside, LookupInside, Lookup, LoseRace,
                              RefuseWithdrawal, EnqueueBroadcast, EnqueueLost
        <3> QED
            BY <3>1, OtherWithdrawalsImplement DEF Promise!Next
    <2> QED
        BY <2>1, <2>2
<1>3. ASSUME NEW w \in Requests, AdminNext(w)
      PROVE  Promise!Next \/ UNCHANGED Promise!vars
    <2>1. CASE ApproveWithdrawal(w)
        <3>1. /\ UNCHANGED <<led, sent>> /\ status[w] = "PENDING"
              /\ status' = [status EXCEPT ![w] = "APPROVED"]
            BY <2>1 DEF ApproveWithdrawal
        <3> QED
            BY <3>1, OtherWithdrawalsImplement DEF Promise!Next, Statuses
    <2>2. CASE RejectWithdrawal(w)
        <3>1. /\ Post(Reversal(w)) /\ status[w] = "PENDING" /\ UNCHANGED sent
              /\ status' = [status EXCEPT ![w] = "CANCELED"]
            BY <2>2 DEF RejectWithdrawal
        <3>2. sent[w] = 0
            BY <3>1 DEF Inv, VerdictTellsStatus
        <3> QED
            BY <3>1, <3>2, ReturnImplements DEF Promise!Next
    <2> QED
        BY <1>3, <2>1, <2>2 DEF AdminNext
<1>4. ASSUME NEW k \in Workers, WorkerNext(k)
      PROVE  Promise!Next \/ UNCHANGED Promise!vars
    <2> DEFINE w == wk[k].wd
    <2>1. CASE ClaimWithdrawal(k)
        <3>1. w \in Requests
            BY <2>1, WorkerHolds DEF ClaimWithdrawal, HasJob, JobPCs, WorkerPCs, Inv
        <3>2. /\ UNCHANGED <<led, sent>>
              /\ UNCHANGED status \/ (status[w] \in {"QUEUED", "APPROVED"}
                                      /\ status' = [status EXCEPT ![w] = "BROADCASTING"])
            BY <2>1 DEF ClaimWithdrawal, Eligible
        <3> QED
            BY <3>1, <3>2, OtherWithdrawalsImplement DEF Promise!Next, Statuses
    <2>2. CASE PersistBroadcast(k) \/ FinalizeBroadcasted(k)
        <3>1. w \in Requests
            BY <2>2, WorkerHolds DEF PersistBroadcast, FinalizeBroadcasted, HasJob, JobPCs, WorkerPCs, Inv
        <3>2. PersistBroadcast(k) => status[w] = "BROADCASTING"
            BY <3>1 DEF PersistBroadcast, Broadcasts, Inv, OneSender
        <3>3. /\ UNCHANGED <<led, sent>>
              /\ \/ UNCHANGED status
                 \/ \E st \in {"BROADCASTED", "CONFIRMED"} :
                        /\ status[w] \in {"BROADCASTING", "BROADCASTED"}
                        /\ status' = [status EXCEPT ![w] = st]
            BY <2>2, <3>2 DEF PersistBroadcast, FinalizeBroadcasted
        <3> QED
            BY <3>1, <3>3, OtherWithdrawalsImplement DEF Promise!Next, Statuses
    <2>3. CASE ReverseWithdrawal(k)
        <3>1. w \in Requests
            BY <2>3, WorkerHolds DEF ReverseWithdrawal, HasJob, JobPCs, WorkerPCs, Inv
        <3>2. status[w] = "BROADCASTING" /\ verdict[w] = "safe" /\ sent[w] = 0
            BY <2>3, <3>1 DEF ReverseWithdrawal, Broadcasts, Inv, OneSender, VerdictTellsStatus
        <3>3. UNCHANGED sent
            BY <2>3 DEF ReverseWithdrawal
        <3>4. CASE Post(Reversal(w)) /\ status' = [status EXCEPT ![w] = "FAILED"]
            BY <3>1, <3>2, <3>3, <3>4, ReturnImplements DEF Promise!Next
        <3>5. CASE UNCHANGED <<led, status>>
            BY <3>3, <3>5, OtherWithdrawalsImplement DEF Promise!Next
        <3> QED
            BY <2>3, <3>4, <3>5 DEF ReverseWithdrawal
    <2>4. CASE Send(k)
        <3>1. w \in Requests
            BY <2>4, WorkerHolds DEF Send, HasJob, JobPCs, WorkerPCs, Inv
        <3>2. status[w] = "BROADCASTING" /\ sent[w] = 0 /\ sent \in [Requests -> Nat]
            BY <2>4, <3>1 DEF Send, Broadcasts, Inv, TypeOK, OneSender, VerdictTellsStatus
        <3>3. [sent EXCEPT ![w] = @ + 1] = [sent EXCEPT ![w] = 1]
            BY <3>1, <3>2
        <3>4. UNCHANGED <<led, status>> /\ (UNCHANGED sent \/ sent' = [sent EXCEPT ![w] = 1])
            BY <2>4, <3>3 DEF Send
        <3> QED
            BY <3>1, <3>2, <3>4, OtherWithdrawalsImplement DEF Promise!Next
    <2>5. CASE \/ \E j \in Jobs : ClaimJob(k, j)
               \/ ListEligible(k) \/ Reread(k) \/ CompleteJob(k) \/ FailJob(k)
               \/ Requeue(k) \/ DatabaseError(k) \/ WorkerCrash(k)
        <3>1. UNCHANGED <<led, sent, status>>
            BY <2>5 DEF ClaimJob, ListEligible, Reread, CompleteJob, FailJob, Requeue,
                        DatabaseError, WorkerCrash
        <3> QED
            BY <3>1, OtherWithdrawalsImplement DEF Promise!Next
    <2> QED
        BY <1>4, <2>1, <2>2, <2>3, <2>4, <2>5 DEF WorkerNext, WorkerStep
<1> QED
    BY <1>2, <1>3, <1>4 DEF WithdrawalNext

\* Every step of the deposits is one of the promise, or a stutter.
LEMMA DepositsImplement ==
    ASSUME Inv, DepositsBacked, DepositNext, UNCHANGED withdrawalVars
    PROVE  Promise!Next \/ UNCHANGED Promise!vars
<1>1. /\ led \in Ledgers /\ led.balance \in [Wallets -> Int]
      /\ dep \in [Outputs -> DepositStatuses]
      /\ DepositWallet \in [Outputs -> Wallets] /\ DepositAmount \in [Outputs -> Nat \ {0}]
    BY DepositAssumption DEF Inv, TypeOK, Ledgers
<1>2. \A w \in Requests : FundsOf(w)' = FundsOf(w)
    BY DEF FundsOf, withdrawalVars
<1>3. CASE /\ led' = led
           /\ \A o \in Outputs : dep[o] = "CREDITED" <=> dep'[o] = "CREDITED"
    <2>1. \A o \in Outputs : CreditOf(o)' = CreditOf(o)
        BY <1>3 DEF CreditOf, Credited, TakenBack, Recorded
    <2> QED
        BY <1>2, <1>3, <2>1 DEF Promise!vars
<1>4. ASSUME NEW o \in Outputs, Post(Credit(o)), dep' = [dep EXCEPT ![o] = "CREDITED"]
      PROVE  Promise!Take(o)
    <2>1. /\ Credit(o) \in Entries /\ Credit(o).wallet = DepositWallet[o]
          /\ Credit(o).amount = DepositAmount[o] /\ Credit(o).type = "DEPOSIT"
        BY EntryTypes DEF Credit, Entry
    <2>2. /\ DepositWallet[o] \notin led.hold
          /\ led'.balance = [led.balance EXCEPT ![DepositWallet[o]] = @ + DepositAmount[o]]
        BY <1>1, <1>4, <2>1, PostedBalance DEF Post, Admits, HoldPermits
    <2>3. /\ ~ Credited(o)
          /\ \A p \in Outputs : /\ Credited(p)' <=> Credited(p) \/ p = o
                                /\ TakenBack(p)' <=> TakenBack(p)
        <3>1. Credit(o) # CreditReversal(o)
            BY DEF Credit, CreditReversal, Entry
        <3> QED
            BY <1>4, <3>1, DepositRows
    <2>4. ~ TakenBack(o)
        BY <2>3 DEF DepositsBacked
    <2>5. CreditOf(o) = "open" /\ CreditOf(o)' = "credited"
        BY <1>1, <1>4, <2>3, <2>4 DEF CreditOf
    <2>6. \A p \in Outputs \ {o} : CreditOf(p)' = CreditOf(p)
        BY <1>1, <1>4, <2>3 DEF CreditOf
    <2>7. ~ Promise!Frozen(DepositWallet[o])
        BY <1>1, <2>2, OwingWalletsOnHold
    <2> QED
        BY <1>2, <2>2, <2>5, <2>6, <2>7 DEF Promise!Take, Promise!Move
<1>5. ASSUME NEW o \in Outputs, dep[o] = "CREDITED", dep' = [dep EXCEPT ![o] = "ORPHANED"],
             Covers(led, CreditReversal(o)), Post(CreditReversal(o))
      PROVE  Promise!Reverse(o)
    <2>1. /\ CreditReversal(o) \in Entries /\ CreditReversal(o).wallet = DepositWallet[o]
          /\ CreditReversal(o).amount = -DepositAmount[o]
        BY EntryTypes DEF CreditReversal, Entry
    <2>2. /\ led'.balance = [led.balance EXCEPT ![DepositWallet[o]] = @ + -DepositAmount[o]]
          /\ led.balance[DepositWallet[o]] >= DepositAmount[o]
        BY <1>1, <1>5, <2>1, PostedBalance DEF Post, Covers
    <2>3. \A p \in Outputs : /\ Credited(p)' <=> Credited(p)
                             /\ TakenBack(p)' <=> TakenBack(p) \/ p = o
        <3>1. Credit(o) # CreditReversal(o)
            BY DEF Credit, CreditReversal, Entry
        <3> QED
            BY <1>5, <3>1, DepositRows
    <2>4. Credited(o) /\ ~ TakenBack(o)
        BY <1>5 DEF DepositsBacked
    <2>5. CreditOf(o) = "credited" /\ CreditOf(o)' = "reversed"
        BY <1>5, <2>3, <2>4 DEF CreditOf
    <2>6. \A p \in Outputs \ {o} : CreditOf(p)' = CreditOf(p)
        BY <1>1, <1>5, <2>3 DEF CreditOf
    <2> QED
        BY <1>2, <2>2, <2>5, <2>6 DEF Promise!Reverse, Promise!Move
<1>6. ASSUME NEW o \in Outputs, dep[o] = "CREDITED", dep' = [dep EXCEPT ![o] = "ORPHANED"],
             ~ Covers(led, CreditReversal(o)), PutOnHold(DepositWallet[o])
      PROVE  Promise!Reverse(o)
    <2>1. led'.keys = led.keys /\ led'.balance = led.balance
        BY <1>1, <1>6 DEF PutOnHold, Ledgers
    <2>2. led.balance[DepositWallet[o]] < DepositAmount[o]
        <3>1. /\ CreditReversal(o).wallet = DepositWallet[o]
              /\ CreditReversal(o).amount = -DepositAmount[o]
            BY DEF CreditReversal, Entry
        <3> QED
            BY <1>1, <1>6, <3>1 DEF Covers
    <2>3. \A p \in Outputs : /\ Credited(p)' <=> Credited(p)
                             /\ TakenBack(p)' <=> TakenBack(p)
        BY <2>1 DEF Credited, TakenBack, Recorded
    <2>4. Credited(o) /\ ~ TakenBack(o)
        BY <1>6 DEF DepositsBacked
    <2>5. CreditOf(o) = "credited" /\ CreditOf(o)' = "owed"
        BY <1>1, <1>6, <2>3, <2>4 DEF CreditOf
    <2>6. \A p \in Outputs \ {o} : CreditOf(p)' = CreditOf(p)
        BY <1>1, <1>6, <2>3 DEF CreditOf
    <2> QED
        BY <1>2, <2>1, <2>2, <2>5, <2>6 DEF Promise!Reverse
<1> QED
    BY <1>3, <1>4, <1>5, <1>6, DepositMoves DEF Promise!Next

(***************************************************************************)
(* Custody keeps the promise: every withdrawal holds its cost once, and    *)
(* pays it out or returns it, once; every deposit is credited once and     *)
(* taken back at most once, for any number of each.                        *)
(***************************************************************************)
THEOREM CustodyImplementsPromise == Spec => ImplementsPromise
<1>1. Init => Promise!Init
    <2>1. ASSUME Init PROVE \A w \in Requests : FundsOf(w) = "none"
        BY <2>1 DEF Init, WithdrawalInit, FundsOf
    <2>2. ASSUME Init PROVE \A o \in Outputs : CreditOf(o) = "open"
        BY <2>2 DEF Init, CreditOf, Credited, Recorded
    <2>3. ASSUME Init PROVE led.balance = InitialBalance
        BY <2>3 DEF Init
    <2> QED
        BY <2>1, <2>2, <2>3 DEF Promise!Init
<1>2. ASSUME Inv, DepositsBacked, [Next]_vars
      PROVE  [Promise!Next]_(Promise!vars)
    <2>1. CASE UNCHANGED vars
        <3>1. \A w \in Requests : FundsOf(w)' = FundsOf(w)
            BY <2>1 DEF vars, withdrawalVars, FundsOf
        <3>2. \A o \in Outputs : CreditOf(o)' = CreditOf(o)
            BY <2>1 DEF vars, depositVars, CreditOf, Credited, TakenBack, Recorded
        <3> QED
            BY <2>1, <3>1, <3>2 DEF vars, Promise!vars
    <2> QED
        BY <1>2, <2>1, WithdrawalsImplement, DepositsImplement DEF Next
<1> QED
    BY <1>1, <1>2, CustodyInvariant, CreditsAreBacked, PTL DEF Spec, ImplementsPromise, Promise!Spec

-----------------------------------------------------------------------------
(* Broadcasts nobody has in hand.                                          *)

\* The ledger takes back the cost of a broadcast that failed, unless the wallet
\* is on hold.
LEMMA OnlyHoldsRefuse ==
    ASSUME Inv, NEW w \in Requests, status[w] = "BROADCASTING", ~ Admits(led, Reversal(w))
    PROVE  WalletOf[w] \in led.hold
<1>1. /\ Reversal(w).wallet = WalletOf[w] /\ Reversal(w).amount = AmountOf[w] + Fee
      /\ AmountOf[w] \in Nat /\ Fee \in Nat
    BY WithdrawalAssumption DEF Reversal, Entry
<1>2. Covers(led, Reversal(w))
    BY <1>1 DEF Covers
<1>3. <<WalletOf[w], "WITHDRAWAL_REVERSAL", w>> \notin led.keys
    BY DEF Inv, LedgerTellsStatus, Returned, Recorded
<1>4. Fresh(led, Reversal(w))
    BY <1>3, EntryTypes DEF Fresh
<1> QED
    BY <1>1, <1>2, <1>4 DEF Admits, HoldPermits

\* No step lifts a hold.
LEMMA HoldsStay ==
    ASSUME Inv, [Next]_vars
    PROVE  led.hold \subseteq led'.hold
<1>1. CASE WithdrawalNext
    BY <1>1, WithdrawalsLeaveDeposits
<1>2. CASE DepositNext
    <2>1. ASSUME NEW o \in Outputs, NEW e \in {Credit(o), CreditReversal(o)}, Post(e)
          PROVE  led'.hold = led.hold
        BY <2>1, DepositEntry
    <2>2. ASSUME NEW w \in Wallets, PutOnHold(w)
          PROVE  led.hold \subseteq led'.hold
        <3>1. led \in Ledgers
            BY DEF Inv, TypeOK
        <3> QED
            BY <2>2, <3>1 DEF PutOnHold, Ledgers
    <2> QED
        BY <1>2, <2>1, <2>2, DepositMoves, DepositAssumption
<1> QED
    BY <1>1, <1>2 DEF Next, vars

\* A worker that stops broadcasting a withdrawal has recorded the outcome, had
\* an ambiguous answer, met with a fault or found the wallet on hold.
LEMMA HandsOff ==
    ASSUME Inv, NEW k \in Workers, WorkerNext(k), UNCHANGED depositVars,
           NEW w \in Requests, NEW i \in Workers, Broadcasts(i, w),
           status'[w] = "BROADCASTING", \A h \in Workers : ~ Broadcasts(h, w)'
    PROVE  \/ verdict'[w] = "ambiguous"
           \/ faults' > 0
           \/ verdict'[w] = "safe" /\ WalletOf[w] \in led.hold
<1>1. status[w] = "BROADCASTING" /\ wk \in [Workers -> WorkerStates]
      /\ HasJob(i) /\ wk[i].wd = w /\ wk[i].pc \in {"send", "persist", "reverse"}
    BY DEF Inv, OneSender, TypeOK, Broadcasts, HasJob, JobPCs, WorkerPCs
<1>2. CASE DatabaseError(k) \/ WorkerCrash(k)
    <2>1. faults \in Nat /\ faults' = faults + 1
        BY <1>2 DEF Inv, TypeOK, DatabaseError, WorkerCrash
    <2> QED
        BY <2>1
<1>3. ASSUME NEW s, wk' = [wk EXCEPT ![k] = s]
      PROVE  k = i
    BY <1>1, <1>3 DEF Broadcasts
<1>4. k = i \/ DatabaseError(k) \/ WorkerCrash(k)
    BY <1>3 DEF WorkerNext, WorkerStep, ClaimJob, ListEligible, ClaimWithdrawal, Reread, Send,
                PersistBroadcast, ReverseWithdrawal, FinalizeBroadcasted, CompleteJob, FailJob,
                Requeue, GoTo
<1>5. CASE Send(k) /\ k = i
    <2>1. \/ verdict' = [verdict EXCEPT ![w] = "ambiguous"]
          \/ \E pc \in {"persist", "reverse"} : GoTo(k, pc)
        BY <1>1, <1>5 DEF Send
    <2>2. ASSUME NEW pc \in {"persist", "reverse"}, GoTo(k, pc)
          PROVE  FALSE
        <3>1. pc \in JobPCs
            BY DEF JobPCs, WorkerPCs
        <3>2. wk'[k].pc = pc /\ wk'[k].wd = w
            BY <1>1, <1>5, <2>2, <3>1, GoesOn DEF Inv
        <3> QED
            BY <3>2 DEF Broadcasts
    <2> QED
        BY <2>1, <2>2 DEF Inv, TypeOK
<1>6. CASE PersistBroadcast(k) /\ k = i
    <2>1. status' = [status EXCEPT ![w] = "BROADCASTED"]
        BY <1>1, <1>6 DEF PersistBroadcast
    <2> QED
        BY <2>1 DEF Inv, TypeOK
<1>7. CASE ReverseWithdrawal(k) /\ k = i
    <2>1. status' = [status EXCEPT ![w] = "FAILED"] \/ ~ Admits(led, Reversal(w))
        BY <1>1, <1>7 DEF ReverseWithdrawal
    <2>2. ~ Admits(led, Reversal(w))
        BY <2>1 DEF Inv, TypeOK
    <2>3. verdict'[w] = "safe"
        BY <1>1, <1>7 DEF ReverseWithdrawal, Inv, OneSender
    <2> QED
        BY <1>1, <2>2, <2>3, OnlyHoldsRefuse
<1>8. CASE k = i /\ ~ (Send(k) \/ PersistBroadcast(k) \/ ReverseWithdrawal(k)
                       \/ DatabaseError(k) \/ WorkerCrash(k))
    BY <1>1, <1>8 DEF WorkerNext, WorkerStep, ClaimJob, ListEligible, ClaimWithdrawal, Reread,
                      FinalizeBroadcasted, CompleteJob, FailJob, Requeue
<1> QED
    BY <1>2, <1>4, <1>5, <1>6, <1>7, <1>8

\* A withdrawal becomes BROADCASTING in the hands of a worker.
LEMMA HandsOn ==
    ASSUME Inv, [Next]_vars, NEW w \in Requests,
           status[w] # "BROADCASTING", status'[w] = "BROADCASTING"
    PROVE  \E k \in Workers : Broadcasts(k, w)'
<1>1. status \in [Requests -> Statuses]
    BY DEF Inv, TypeOK
<1>2. ASSUME NEW k \in Workers, ClaimWithdrawal(k)
      PROVE  Broadcasts(k, w)'
    <2>1. HasJob(k) /\ wk[k].wd \in Requests
        BY <1>2, WorkerHolds DEF ClaimWithdrawal, HasJob, JobPCs, WorkerPCs, Inv
    <2>2. Eligible(wk[k].wd) /\ wk[k].wd = w /\ GoTo(k, "send")
        BY <1>1, <1>2, <2>1 DEF ClaimWithdrawal
    <2>3. "send" \in JobPCs
        BY DEF JobPCs, WorkerPCs
    <2> QED
        BY <2>1, <2>2, <2>3, GoesOn DEF Broadcasts, Inv
<1>3. ASSUME NEW r \in Requests, RequestNext(r) \/ AdminNext(r)
      PROVE  FALSE
    <2>1. UNCHANGED status \/ \E st \in {"PENDING", "QUEUED", "APPROVED", "CANCELED"} :
                                 status' = [status EXCEPT ![r] = st]
        BY <1>3 DEF RequestNext, LookupOutside, LookupInside, Lookup, LoseRace, CreateWithdrawal,
                    RefuseWithdrawal, EnqueueBroadcast, EnqueueLost, AdminNext, ApproveWithdrawal,
                    RejectWithdrawal
    <2> QED
        BY <1>1, <2>1
<1>4. ASSUME NEW k \in Workers, WorkerNext(k), ~ ClaimWithdrawal(k)
      PROVE  FALSE
    <2>1. UNCHANGED status \/ \E st \in {"BROADCASTED", "CONFIRMED", "FAILED"} :
                                 status' = [status EXCEPT ![wk[k].wd] = st]
        BY <1>4 DEF WorkerNext, WorkerStep, ClaimJob, ListEligible, Reread, Send, PersistBroadcast,
                    ReverseWithdrawal, FinalizeBroadcasted, CompleteJob, FailJob, Requeue,
                    DatabaseError, WorkerCrash
    <2> QED
        BY <1>1, <2>1
<1>5. UNCHANGED status \/ WithdrawalNext
    BY DEF Next, vars, withdrawalVars
<1> QED
    BY <1>2, <1>3, <1>4, <1>5 DEF WithdrawalNext

\* The client's answer about a withdrawal nobody broadcasts does not change, and
\* the faults only grow.
LEMMA AnswersStay ==
    ASSUME Inv, [Next]_vars, NEW w \in Requests, \A k \in Workers : ~ Broadcasts(k, w)
    PROVE  verdict'[w] = verdict[w] /\ faults' >= faults
<1>1. faults \in Nat /\ verdict \in [Requests -> {"none", "sent", "safe", "ambiguous"}]
    BY WithdrawalAssumption DEF Inv, TypeOK
<1>2. ASSUME NEW k \in Workers, Send(k)
      PROVE  verdict'[w] = verdict[w] /\ faults' = faults
    <2>1. wk[k].wd # w
        BY <1>2 DEF Send, Broadcasts
    <2> QED
        BY <1>1, <1>2, <2>1 DEF Send
<1>3. ASSUME NEW k \in Workers, WorkerNext(k), ~ Send(k)
      PROVE  UNCHANGED verdict /\ (faults' = faults \/ faults' = faults + 1)
    BY <1>3 DEF WorkerNext, WorkerStep, ClaimJob, ListEligible, ClaimWithdrawal, Reread,
                PersistBroadcast, ReverseWithdrawal, FinalizeBroadcasted, CompleteJob, FailJob,
                Requeue, DatabaseError, WorkerCrash
<1>4. ASSUME NEW r \in Requests, RequestNext(r) \/ AdminNext(r)
      PROVE  UNCHANGED <<verdict, faults>>
    BY <1>4 DEF RequestNext, LookupOutside, LookupInside, Lookup, LoseRace, CreateWithdrawal,
                RefuseWithdrawal, EnqueueBroadcast, EnqueueLost, AdminNext, ApproveWithdrawal,
                RejectWithdrawal
<1>5. UNCHANGED <<verdict, faults>> \/ WithdrawalNext
    BY DEF Next, vars, withdrawalVars
<1> QED
    BY <1>1, <1>2, <1>3, <1>4, <1>5 DEF WithdrawalNext

(***************************************************************************)
(* A broadcast nobody has in hand was answered ambiguously, or something   *)
(* failed, or the wallet is on hold: nothing else strands a withdrawal.    *)
(***************************************************************************)
THEOREM StrandedForAReason == Spec => []UnattendedBroadcasts
<1>1. Init => UnattendedBroadcasts
    BY DEF Init, WithdrawalInit, UnattendedBroadcasts
<1>2. ASSUME Inv, UnattendedBroadcasts, [Next]_vars
      PROVE  UnattendedBroadcasts'
    <2> SUFFICES ASSUME NEW w \in Requests, status'[w] = "BROADCASTING",
                        \A k \in Workers : ~ Broadcasts(k, w)'
                 PROVE  \/ verdict'[w] = "ambiguous"
                        \/ faults' > 0
                        \/ verdict'[w] = "safe" /\ WalletOf[w] \in led'.hold
        BY DEF UnattendedBroadcasts
    <2>1. led.hold \subseteq led'.hold
        BY <1>2, HoldsStay
    <2>2. status[w] = "BROADCASTING"
        BY <1>2, HandsOn
    <2>3. CASE \A k \in Workers : ~ Broadcasts(k, w)
        <3>1. verdict'[w] = verdict[w] /\ faults' >= faults
            BY <1>2, <2>3, AnswersStay
        <3>2. faults \in Nat /\ faults' \in Nat
            <4>1. Inv'
                BY <1>2, NextInv
            <4> QED
                BY <1>2, <4>1, WithdrawalAssumption DEF Inv, TypeOK
        <3> QED
            BY <1>2, <2>1, <2>2, <2>3, <3>1, <3>2 DEF UnattendedBroadcasts
    <2>4. CASE \E i \in Workers : Broadcasts(i, w)
        <3>1. ASSUME NEW k \in Workers, WorkerNext(k), UNCHANGED depositVars
              PROVE  \/ verdict'[w] = "ambiguous"
                     \/ faults' > 0
                     \/ verdict'[w] = "safe" /\ WalletOf[w] \in led'.hold
            BY <1>2, <2>1, <2>4, <3>1, HandsOff
        <3>2. ASSUME UNCHANGED wk PROVE FALSE
            BY <2>4, <3>2 DEF Broadcasts
        <3>3. ASSUME NEW r \in Requests, RequestNext(r) \/ AdminNext(r)
              PROVE  UNCHANGED wk
            BY <3>3 DEF RequestNext, LookupOutside, LookupInside, Lookup, LoseRace, CreateWithdrawal,
                        RefuseWithdrawal, EnqueueBroadcast, EnqueueLost, AdminNext, ApproveWithdrawal,
                        RejectWithdrawal
        <3>4. UNCHANGED wk \/ (WithdrawalNext /\ UNCHANGED depositVars)
            BY <1>2 DEF Next, vars, withdrawalVars
        <3> QED
            BY <3>1, <3>2, <3>3, <3>4 DEF WithdrawalNext
    <2> QED
        BY <2>3, <2>4
<1> QED
    BY <1>1, <1>2, CustodyInvariant, PTL DEF Spec
=============================================================================
