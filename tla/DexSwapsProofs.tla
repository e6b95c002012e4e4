----------------------------- MODULE DexSwapsProofs -----------------------------
(***************************************************************************)
(* Proofs about DexSwaps, for any number of requests, workers, jobs and    *)
(* faults: the ledger tells the status of every swap, the statuses move    *)
(* forward, and a swap that nothing went wrong with is paid for once and   *)
(* given back only if the exchange failed it.                              *)
(***************************************************************************)
EXTENDS DexSwaps, TLAPS

Early == {"LOCKED", "BROADCASTING"}
Late == {"IN_FLIGHT", "COMPLETED", "FAILED", "REFUNDED"}
Following == {"asking", "receipt", "crediting", "rejected"}
Working == {"claimed", "sending", "sent", "failing", "ambiguous", "ok", "error"}

\* A request past the debit has a row.
RequestsTell ==
    \A s \in Swaps : /\ api[s] = "quoted" => by[s] # "none"
                     /\ api[s] \in {"locked", "marked"} => st[s] # "NONE"

\* A job is about a swap there is, and is held by the one worker that claimed it.
JobsTell ==
    /\ \A j \in Jobs : ~ Free(j) => st[jobs[j].payload] # "NONE"
    /\ \A j \in Jobs : Pending(j) => jobs[j].attempts < MaxAttempts

HandsHold ==
    /\ \A k \in Workers : hand[k].at \in Working => hand[k].job \in Jobs
    /\ \A k \in Workers : hand[k] # Idle /\ hand[k].job \in Jobs => Running(hand[k].job)
    /\ \A k, i \in Workers : hand[k] # Idle /\ hand[i] # Idle /\ hand[k].job = hand[i].job =>
          k = i \/ hand[k].job = Poller

\* Only what left the hot wallet is followed, and it never comes back to be sent.
Followed ==
    \A k \in Workers : hand[k].at \in Following => st[hand[k].swap] \in Late

\* The inductive invariant of the rows.
DexIInv == Inv /\ RequestsTell /\ JobsTell /\ HandsHold /\ Followed

\* The workers that may be paying for a swap.
Paying(s) == {k \in Workers : hand[k].at \in {"sending", "sent", "failing"} /\ hand[k].swap = s}

\* What holds of a swap that nothing went wrong with: one worker at most is
\* paying for it, while the row is early, and knows whether it was paid for.
Alone(s) ==
    /\ \A k, i \in Paying(s) : k = i
    /\ Paying(s) # {} => st[s] \in Early
    /\ \A k \in Paying(s) : sent[s] = IF hand[k].at = "sent" THEN 1 ELSE 0
    /\ st[s] \in Early => sent[s] = 0 \/ Paying(s) # {}
    /\ st[s] = "NONE" => sent[s] = 0
    /\ sent[s] <= 1

\* ... and it is given back only for a payment that failed, or was filled short.
GivenBack(s) ==
    /\ \A k \in Workers : hand[k] # Idle /\ hand[k].swap = s =>
          /\ hand[k].at # "ambiguous"
          /\ hand[k].at = "refunding" => st[s] \in {"FAILED", "REFUNDED"}
          /\ hand[k].at = "rejected" => prov[s] \in {"short", "failed"}
    /\ st[s] \in {"FAILED", "REFUNDED"} => sent[s] = 0 \/ prov[s] \in {"short", "failed"}

\* The inductive invariant of the payments.
PaidIInv == DexIInv /\ \A s \in Swaps \ marred : Alone(s) /\ GivenBack(s)

-------------------------------------------------------------------------------
(* What the operations on the ledger, the queue and the hands amount to.   *)

\* An entry about a swap adds its key to the ledger, which did not have it.
LEMMA PostedEntry ==
    ASSUME led \in Ledgers, NEW w \in Wallets, NEW a \in Int, NEW ty \in Types, NEW s \in Swaps,
           Post(Entry(w, a, ty, s))
    PROVE  led' \in Ledgers /\ led'.keys = led.keys \cup {<<w, ty, s>>}
<1> DEFINE e == Entry(w, a, ty, s)
<1>1. /\ e.wallet = w /\ e.amount = a /\ e.type = ty /\ e.ref = s
      /\ s \in Refs /\ s # NoRef
    BY RefAssumption, DexAssumption DEF Entry
<1>2. KeysOf(e) = {<<w, ty, s>>} /\ KeysOf(e) \subseteq Keys
    BY <1>1 DEF KeysOf, Keys
<1>3. led.balance \in [Wallets -> Int] /\ led.hold \subseteq Wallets /\ led.keys \subseteq Keys
    BY DEF Ledgers
<1>4. [led.balance EXCEPT ![e.wallet] = @ + e.amount] \in [Wallets -> Int]
    BY <1>1, <1>3
<1>5. led' = [balance |-> [led.balance EXCEPT ![e.wallet] = @ + e.amount],
              hold |-> led.hold, keys |-> led.keys \cup KeysOf(e)]
    BY DEF Post, Posted
<1> QED
    BY <1>2, <1>3, <1>4, <1>5 DEF Ledgers

\* The three entries of a swap have a key of their own each.
LEMMA SwapEntries ==
    ASSUME NEW s \in Swaps
    PROVE  /\ FromWallet[s] \in Wallets /\ ToWallet[s] \in Wallets
           /\ FromAmount[s] \in Int /\ -FromAmount[s] \in Int /\ ToAmount[s] \in Int
           /\ {"DEX_SWAP_OUT", "DEX_SWAP_IN", "DEX_SWAP_REFUND"} \subseteq Types
BY DexAssumption

\* A worker that is not idle has a swap in hand.
LEMMA HandShape ==
    ASSUME TypeOK, NEW k \in Workers, hand[k] # Idle
    PROVE  /\ hand[k].at \in HandAt /\ hand[k].swap \in Swaps /\ hand[k].job \in Jobs \cup {Poller}
           /\ hand[k] = [at |-> hand[k].at, swap |-> hand[k].swap, job |-> hand[k].job]
BY DEF TypeOK

\* It goes on with the same swap and job.
LEMMA GoesOn ==
    ASSUME TypeOK, NEW k \in Workers, hand[k] # Idle, NEW a, Becomes(k, a)
    PROVE  hand' = [hand EXCEPT ![k] = [at |-> a, swap |-> hand[k].swap, job |-> hand[k].job]]
<1>0. PICK x, y, z : hand[k] = [at |-> x, swap |-> y, job |-> z]
    BY HandShape
<1>1. [hand[k] EXCEPT !.at = a] = [at |-> a, swap |-> hand[k].swap, job |-> hand[k].job]
    BY <1>0
<1> QED
    BY <1>1 DEF Becomes

\* Or it is done with it.
LEMMA Leaves ==
    ASSUME TypeOK, NEW k \in Workers, hand[k] # Idle, Leave(k)
    PROVE  \/ hand[k].job = Poller /\ hand' = [hand EXCEPT ![k] = Idle]
           \/ hand[k].job # Poller /\
              hand' = [hand EXCEPT ![k] = [at |-> "ok", swap |-> hand[k].swap, job |-> hand[k].job]]
<1>0. PICK x, y, z : hand[k] = [at |-> x, swap |-> y, job |-> z]
    BY HandShape
<1>1. [hand[k] EXCEPT !.at = "ok"] = [at |-> "ok", swap |-> hand[k].swap, job |-> hand[k].job]
    BY <1>0
<1> QED
    BY <1>1 DEF Leave

-------------------------------------------------------------------------------
(* The rows: every step keeps DexIInv.                                     *)

\* Nothing has been asked for yet.
LEMMA InitInv == DexInit => DexIInv
<1> SUFFICES ASSUME DexInit PROVE DexIInv
    OBVIOUS
<1>1. PICK held \in InitialHolds : led = [balance |-> InitialBalance, hold |-> held, keys |-> {}]
    BY DEF DexInit
<1>2. led \in Ledgers /\ led.keys = {}
    BY <1>1, DexAssumption DEF Ledgers
<1>3. /\ JobsType /\ \A j \in Jobs : jobs[j].status = "FREE"
      /\ by = [s \in Swaps |-> "none"] /\ kind = [s \in Swaps |-> "none"]
      /\ api = [s \in Swaps |-> "new"] /\ st = [s \in Swaps |-> "NONE"]
      /\ hand = [k \in Workers |-> Idle] /\ sent = [s \in Swaps |-> 0]
      /\ prov = [s \in Swaps |-> "pending"] /\ marred = {} /\ faults = 0
    BY DEF DexInit, JobsInit, JobsType, FreeSlot
<1>4. TypeOK
    BY <1>2, <1>3, DexAssumption DEF TypeOK, Statuses
<1>5. LedgerTellsStatus
    BY <1>2, <1>3 DEF LedgerTellsStatus, Recorded
<1>6. HandsTell /\ OneSwapPerKey /\ RequestsTell /\ Followed
    BY <1>3 DEF HandsTell, OneSwapPerKey, RequestsTell, Followed, Following, Idle
<1>7. JobsTell /\ HandsHold
    BY <1>3 DEF JobsTell, HandsHold, Free, Pending, Working, Idle
<1> QED
    BY <1>4, <1>5, <1>6, <1>7 DEF DexIInv, Inv

\* A step of a request, or of the exchange: no hand moves, no row goes back.
LEMMA RequestFrame ==
    ASSUME DexIInv,
           led' \in Ledgers, LedgerTellsStatus',
           JobsType', JobsTell', HandsHold',
           by' \in [Swaps -> DOMAIN Offers \cup {"none"}],
           kind' \in [Swaps -> Kinds \cup {"none"}],
           api' \in [Swaps -> {"new", "quoted", "locked", "marked", "done"}],
           st' \in [Swaps -> Statuses],
           prov' \in [Swaps -> {"pending", "success", "short", "failed"}],
           RequestsTell', OneSwapPerKey',
           \A s \in Swaps : st[s] # "NONE" => st'[s] # "NONE" /\ kind'[s] = kind[s],
           \A s \in Swaps : st[s] \in Late \/ st'[s] \in Late => st'[s] = st[s],
           faults' \in 0..MaxFaults,
           UNCHANGED <<hand, sent, marred>>
    PROVE  DexIInv'
<1> USE DEF DexIInv, Inv
<1>1. TypeOK'
    BY DEF TypeOK
<1>2. HandsTell'
    <2>1. \A k \in Workers : hand[k] # Idle => hand[k].swap \in Swaps
        BY HandShape
    <2>2. \A s \in Swaps : st'[s] \in {"IN_FLIGHT", "COMPLETED"} => sent'[s] > 0
        BY DEF HandsTell, Late
    <2>3. ASSUME NEW k \in Workers, hand[k] # Idle
          PROVE  /\ st'[hand[k].swap] # "NONE"
                 /\ hand[k].at \in {"sent", "asking", "receipt", "crediting", "rejected"} => sent[hand[k].swap] > 0
                 /\ hand[k].at \in {"sending", "sent"} => ~ Refused(hand[k].swap)'
        <3>1. st'[hand[k].swap] # "NONE" /\ kind'[hand[k].swap] = kind[hand[k].swap]
            BY <2>1, <2>3 DEF HandsTell
        <3> QED
            BY <2>3, <3>1 DEF HandsTell, Refused
    <2> QED
        BY <2>2, <2>3 DEF HandsTell
<1>3. Followed'
    <2>1. \A k \in Workers : hand[k] # Idle => hand[k].swap \in Swaps
        BY HandShape
    <2>2. \A k \in Workers : hand[k].at \in Following => hand[k] # Idle
        BY DEF Following, Idle
    <2> QED
        BY <2>1, <2>2 DEF Followed
<1> QED
    BY <1>1, <1>2, <1>3

\* The rows of the queue when only hands are put down.
LEMMA SameJobs ==
    ASSUME DexIInv, jobs' = jobs,
           \A s \in Swaps : st[s] # "NONE" => st'[s] # "NONE",
           \A k \in Workers : hand'[k] \in {hand[k], Idle}
    PROVE  JobsType' /\ JobsTell' /\ HandsHold'
<1> USE DEF DexIInv, Inv
<1>1. JobsType'
    BY DEF TypeOK, JobsType
<1>2. \A j \in Jobs : ~ Free(j) => jobs[j].payload \in Swaps
    BY DexAssumption DEF TypeOK, JobsType, LiveJobs, FreeSlot, Free
<1>3. JobsTell'
    BY <1>2 DEF JobsTell, Free, Pending
<1>4. Idle.at \notin Working
    BY DEF Idle, Working
<1>5. HandsHold'
    BY <1>4 DEF HandsHold, Running
<1> QED
    BY <1>1, <1>3, <1>5

\* A job about a swap there is, in a slot that nobody holds.
LEMMA EnqueueKeeps ==
    ASSUME DexIInv, NEW s \in Swaps, st[s] # "NONE", Enqueue(s), st' = st,
           \A k \in Workers : hand'[k] \in {hand[k], Idle}
    PROVE  JobsType' /\ JobsTell' /\ HandsHold'
<1> USE DEF DexIInv, Inv
<1> DEFINE row == [status |-> "PENDING", payload |-> s, attempts |-> 0]
<1>1. PICK j \in Jobs : Free(j) /\ jobs' = [jobs EXCEPT ![j] = row]
    BY DEF Enqueue
<1>2. jobs \in [Jobs -> {FreeSlot} \cup LiveJobs]
    BY DEF TypeOK, JobsType
<1>3. row \in LiveJobs
    BY JobQueueAssumption, DexAssumption DEF LiveJobs
<1>4. \A i \in Jobs : jobs'[i] = IF i = j THEN row ELSE jobs[i]
    BY <1>1, <1>2
<1>5. JobsType'
    BY <1>1, <1>2, <1>3 DEF JobsType
<1>6. JobsTell'
    BY <1>4, JobQueueAssumption DEF JobsTell, Free, Pending
<1>7. Idle.at \notin Working
    BY DEF Idle, Working
<1>8. HandsHold'
    <2>1. \A k \in Workers : hand[k] # Idle => hand[k].job # j
        BY <1>1 DEF HandsHold, Running, Free
    <2> QED
        BY <1>4, <1>7, <2>1 DEF HandsHold, Running
<1> QED
    BY <1>5, <1>6, <1>8

\* A quote, and the key with the debit: no other request has a row of the key.
LEMMA AskedInv ==
    ASSUME DexIInv, NEW r \in Swaps, Quote(r) \/ LockAndCreate(r) PROVE DexIInv'
<1> USE DEF DexIInv, Inv
<1>1. CASE Quote(r)
    <2>1. /\ UNCHANGED <<led, kind, st, hand, sent, prov, marred, faults, jobs>>
          /\ \/ \E x \in DOMAIN Offers : by' = [by EXCEPT ![r] = x] /\ api' = [api EXCEPT ![r] = "quoted"]
             \/ by' = by /\ api' = [api EXCEPT ![r] = "done"]
        BY <1>1 DEF Quote, Api, QuoteSwapkit, QuoteRelay, QuoteChangenow, QuoteFails, Offers
    <2>2. /\ by' \in [Swaps -> DOMAIN Offers \cup {"none"}]
          /\ api' \in [Swaps -> {"new", "quoted", "locked", "marked", "done"}]
        BY <2>1 DEF TypeOK
    <2>3. RequestsTell'
        BY <2>1 DEF RequestsTell, TypeOK, Offers
    <2>4. LedgerTellsStatus' /\ OneSwapPerKey'
        BY <2>1 DEF LedgerTellsStatus, Recorded, OneSwapPerKey
    <2> QED
        BY <2>1, <2>2, <2>3, <2>4, SameJobs, RequestFrame DEF TypeOK
<1>2. CASE LockAndCreate(r) /\ st' = st
    <2>1. /\ UNCHANGED <<led, kind, st, hand, sent, prov, marred, faults, jobs>>
          /\ api' = [api EXCEPT ![r] = "done"] /\ by' = [by EXCEPT ![r] = "none"]
        <3>1. ~ KeyFree(r) \/ st[r] = "NONE"
            BY DEF KeyFree, WithKey
        <3> QED
            BY <1>2, <3>1 DEF LockAndCreate, TypeOK
    <2>2. /\ by' \in [Swaps -> DOMAIN Offers \cup {"none"}]
          /\ api' \in [Swaps -> {"new", "quoted", "locked", "marked", "done"}]
        BY <2>1 DEF TypeOK
    <2>3. RequestsTell'
        BY <2>1 DEF RequestsTell, TypeOK
    <2>4. LedgerTellsStatus' /\ OneSwapPerKey'
        BY <2>1 DEF LedgerTellsStatus, Recorded, OneSwapPerKey
    <2> QED
        BY <2>1, <2>2, <2>3, <2>4, SameJobs, RequestFrame DEF TypeOK
<1>3. CASE LockAndCreate(r) /\ st' # st
    <2>1. /\ api[r] = "quoted" /\ KeyFree(r) /\ Post(Debit(r))
          /\ st' = [st EXCEPT ![r] = "LOCKED"]
          /\ \E c \in Offers[by[r]] : kind' = [kind EXCEPT ![r] = c]
          /\ api' = [api EXCEPT ![r] = "locked"]
          /\ UNCHANGED <<by, hand, sent, prov, marred, faults, jobs>>
        BY <1>3 DEF LockAndCreate
    <2>2. st[r] = "NONE"
        BY <2>1 DEF KeyFree, WithKey
    <2>3. /\ st' \in [Swaps -> Statuses] /\ \A s \in Swaps : st'[s] = IF s = r THEN "LOCKED" ELSE st[s]
          /\ api' \in [Swaps -> {"new", "quoted", "locked", "marked", "done"}]
        BY <2>1 DEF TypeOK, Statuses
    <2>4. by[r] \in DOMAIN Offers
        BY <2>1 DEF RequestsTell, TypeOK
    <2>5. kind' \in [Swaps -> Kinds \cup {"none"}] /\ \A s \in Swaps \ {r} : kind'[s] = kind[s]
        BY <2>1, <2>4 DEF TypeOK, Offers, Kinds
    <2>6. led' \in Ledgers /\ led'.keys = led.keys \cup {<<FromWallet[r], "DEX_SWAP_OUT", r>>}
        <3>1. led \in Ledgers
            BY DEF TypeOK
        <3> QED
            BY <2>1, <3>1, SwapEntries, PostedEntry DEF Debit
    <2>7. LedgerTellsStatus'
        BY <2>2, <2>3, <2>6 DEF LedgerTellsStatus, Recorded
    <2>8. RequestsTell'
        BY <2>1, <2>3 DEF RequestsTell, TypeOK
    <2>9. OneSwapPerKey'
        BY <2>1, <2>3 DEF OneSwapPerKey, KeyFree, WithKey
    <2>10. JobsType' /\ JobsTell' /\ HandsHold'
        BY <2>1, <2>3, SameJobs
    <2> QED
        BY <2>1, <2>2, <2>3, <2>5, <2>6, <2>7, <2>8, <2>9, <2>10, RequestFrame DEF TypeOK, Late
<1> QED
    BY <1>1, <1>2, <1>3

\* The mark, the job, or neither; and what the exchange says.
LEMMA MarkedInv ==
    ASSUME DexIInv, NEW r \in Swaps,
           MarkBroadcasting(r) \/ EnqueueBroadcast(r) \/ RequestFault(r) \/ Answer(r)
    PROVE  DexIInv'
<1> USE DEF DexIInv, Inv
<1>1. CASE MarkBroadcasting(r)
    <2>1. /\ api[r] = "locked" /\ api' = [api EXCEPT ![r] = "marked"]
          /\ st' = IF st[r] \in Early THEN [st EXCEPT ![r] = "BROADCASTING"] ELSE st
          /\ UNCHANGED <<led, by, kind, hand, sent, prov, marred, faults, jobs>>
        BY <1>1 DEF MarkBroadcasting, Api, Early
    <2>2. /\ st' \in [Swaps -> Statuses]
          /\ \A s \in Swaps : st'[s] = st[s] \/ (st[s] \in Early /\ st'[s] = "BROADCASTING")
          /\ api' \in [Swaps -> {"new", "quoted", "locked", "marked", "done"}]
        BY <2>1 DEF TypeOK, Statuses, Early
    <2>3. \A s \in Swaps : (st'[s] = "NONE" <=> st[s] = "NONE") /\ (st[s] \in Late \/ st'[s] \in Late => st'[s] = st[s])
        BY <2>2 DEF Early, Late
    <2>4. LedgerTellsStatus' /\ OneSwapPerKey'
        BY <2>1, <2>3 DEF LedgerTellsStatus, Recorded, OneSwapPerKey, Late
    <2>5. RequestsTell'
        BY <2>1, <2>3 DEF RequestsTell, TypeOK
    <2>6. JobsType' /\ JobsTell' /\ HandsHold'
        BY <2>1, <2>3, SameJobs
    <2> QED
        BY <2>1, <2>2, <2>3, <2>4, <2>5, <2>6, RequestFrame DEF TypeOK
<1>2. CASE EnqueueBroadcast(r)
    <2>1. /\ api[r] = "marked" /\ api' = [api EXCEPT ![r] = "done"] /\ Enqueue(r)
          /\ UNCHANGED <<led, by, kind, st, hand, sent, prov, marred, faults>>
        BY <1>2 DEF EnqueueBroadcast, Api
    <2>2. JobsType' /\ JobsTell' /\ HandsHold'
        BY <2>1, EnqueueKeeps DEF RequestsTell
    <2>3. api' \in [Swaps -> {"new", "quoted", "locked", "marked", "done"}] /\ RequestsTell'
        BY <2>1 DEF RequestsTell, TypeOK
    <2>4. LedgerTellsStatus' /\ OneSwapPerKey'
        BY <2>1 DEF LedgerTellsStatus, Recorded, OneSwapPerKey
    <2> QED
        BY <2>1, <2>2, <2>3, <2>4, RequestFrame DEF TypeOK
<1>3. CASE RequestFault(r)
    <2>1. /\ faults' \in 0..MaxFaults
          /\ \E a \in {"marked", "done"} : api[r] \in {"locked", "marked"} /\ api' = [api EXCEPT ![r] = a]
          /\ UNCHANGED <<led, by, kind, st, hand, sent, prov, marred, jobs>>
        BY <1>3, DexAssumption DEF RequestFault, Api, TypeOK
    <2>2. JobsType' /\ JobsTell' /\ HandsHold'
        BY <2>1, SameJobs
    <2>3. api' \in [Swaps -> {"new", "quoted", "locked", "marked", "done"}] /\ RequestsTell'
        BY <2>1 DEF RequestsTell, TypeOK
    <2>4. LedgerTellsStatus' /\ OneSwapPerKey'
        BY <2>1 DEF LedgerTellsStatus, Recorded, OneSwapPerKey
    <2> QED
        BY <2>1, <2>2, <2>3, <2>4, RequestFrame DEF TypeOK
<1>4. CASE Answer(r)
    <2>1. /\ prov' \in [Swaps -> {"pending", "success", "short", "failed"}]
          /\ UNCHANGED <<led, by, kind, api, st, hand, sent, marred, faults, jobs>>
        BY <1>4 DEF Answer, TypeOK
    <2>2. JobsType' /\ JobsTell' /\ HandsHold'
        BY <2>1, SameJobs
    <2>3. LedgerTellsStatus' /\ OneSwapPerKey' /\ RequestsTell'
        BY <2>1 DEF LedgerTellsStatus, Recorded, OneSwapPerKey, RequestsTell
    <2> QED
        BY <2>1, <2>2, <2>3, RequestFrame DEF TypeOK
<1> QED
    BY <1>1, <1>2, <1>3, <1>4

\* A step of one worker, which moves rows forward.
LEMMA WorkerFrame ==
    ASSUME DexIInv, NEW k \in Workers,
           NEW q \in {Idle} \cup [at : HandAt, swap : Swaps, job : Jobs \cup {Poller}],
           hand' = [hand EXCEPT ![k] = q],
           led' \in Ledgers, LedgerTellsStatus',
           JobsType', JobsTell', HandsHold',
           st' \in [Swaps -> Statuses],
           \A s \in Swaps : st'[s] = "NONE" <=> st[s] = "NONE",
           \A s \in Swaps : st[s] \in Late => st'[s] \in Late,
           \A s \in Swaps : st'[s] \in {"IN_FLIGHT", "COMPLETED"} => sent'[s] > 0,
           sent' \in [Swaps -> 0..MaxSends],
           \A s \in Swaps : sent[s] > 0 => sent'[s] > 0,
           marred' \subseteq Swaps, faults' \in 0..MaxFaults,
           UNCHANGED <<by, kind, api, prov>>,
           q # Idle => /\ st[q.swap] # "NONE"
                       /\ q.at \in {"sent", "asking", "receipt", "crediting", "rejected"} => sent'[q.swap] > 0
                       /\ q.at \in {"sending", "sent"} => ~ Refused(q.swap)
                       /\ q.at \in Following => st'[q.swap] \in Late
    PROVE  DexIInv'
<1> USE DEF DexIInv, Inv
<1>1. \A i \in Workers : hand'[i] = IF i = k THEN q ELSE hand[i]
    BY DEF TypeOK
<1>2. \A i \in Workers : hand[i] # Idle => hand[i].swap \in Swaps
    BY HandShape
<1>3. q # Idle => q.swap \in Swaps
    OBVIOUS
<1>4. \A a : a \in Following => a # Idle.at
    BY DEF Following, Idle
<1>5. TypeOK'
    BY DEF TypeOK
<1>6. HandsTell'
    <2>1. ASSUME NEW i \in Workers, hand'[i] # Idle
          PROVE  /\ st'[hand'[i].swap] # "NONE"
                 /\ hand'[i].at \in {"sent", "asking", "receipt", "crediting", "rejected"} => sent'[hand'[i].swap] > 0
                 /\ hand'[i].at \in {"sending", "sent"} => ~ Refused(hand'[i].swap)
        <3> DEFINE h == hand'[i]
        <3>1. CASE i = k
            <4>1. h = q
                BY <1>1, <3>1
            <4> QED
                BY <1>3, <2>1, <4>1
        <3>2. CASE i # k
            <4>1. h = hand[i] /\ h # Idle /\ h.swap \in Swaps
                BY <1>1, <1>2, <2>1, <3>2
            <4> HIDE DEF h
            <4>2. /\ st[h.swap] # "NONE"
                  /\ h.at \in {"sent", "asking", "receipt", "crediting", "rejected"} => sent[h.swap] > 0
                  /\ h.at \in {"sending", "sent"} => ~ Refused(h.swap)
                BY <4>1 DEF HandsTell
            <4>3. hand'[i] = h
                BY DEF h
            <4> QED
                BY <4>1, <4>2, <4>3
        <3> QED
            BY <3>1, <3>2
    <2>2. \A s \in Swaps : st'[s] \in {"IN_FLIGHT", "COMPLETED"} => sent'[s] > 0
        OBVIOUS
    <2> QED
        BY <2>1, <2>2 DEF HandsTell, Refused
<1>7. Followed'
    BY <1>1, <1>2, <1>4 DEF Followed
<1>8. RequestsTell' /\ OneSwapPerKey'
    BY DEF RequestsTell, OneSwapPerKey
<1> QED
    BY <1>5, <1>6, <1>7, <1>8

\* A worker keeps its job, or takes a row as the poller.
LEMMA HeldJobs ==
    ASSUME DexIInv, NEW k \in Workers,
           NEW q \in {Idle} \cup [at : HandAt, swap : Swaps, job : Jobs \cup {Poller}],
           hand' = [hand EXCEPT ![k] = q], jobs' = jobs,
           \A s \in Swaps : st[s] # "NONE" => st'[s] # "NONE",
           q # Idle => \/ q.job = Poller /\ q.at \notin Working
                       \/ hand[k] # Idle /\ q.job = hand[k].job /\ (q.at \in Working => q.job \in Jobs)
    PROVE  JobsType' /\ JobsTell' /\ HandsHold'
<1> USE DEF DexIInv, Inv
<1>1. JobsType'
    BY DEF TypeOK, JobsType
<1>2. \A j \in Jobs : ~ Free(j) => jobs[j].payload \in Swaps
    BY DexAssumption DEF TypeOK, JobsType, LiveJobs, FreeSlot, Free
<1>3. JobsTell'
    BY <1>2 DEF JobsTell, Free, Pending
<1>4. Idle.at \notin Working /\ Poller \notin Jobs
    BY DEF Idle, Working, Poller, Jobs
<1>5. \A i \in Workers : hand'[i] = IF i = k THEN q ELSE hand[i]
    BY DEF TypeOK
<1>6. HandsHold'
    BY <1>4, <1>5 DEF HandsHold, Running
<1> QED
    BY <1>1, <1>3, <1>6

\* Nothing but the hand of one worker, and what was paid, changes.
LEMMA HandMoves ==
    ASSUME DexIInv, NEW k \in Workers,
           NEW q \in {Idle} \cup [at : HandAt, swap : Swaps, job : Jobs \cup {Poller}],
           hand' = [hand EXCEPT ![k] = q],
           q # Idle => \/ q.job = Poller /\ q.at \notin Working
                       \/ hand[k] # Idle /\ q.job = hand[k].job /\ (q.at \in Working => q.job \in Jobs),
           q # Idle => /\ st[q.swap] # "NONE"
                       /\ q.at \in {"sent", "asking", "receipt", "crediting", "rejected"} => sent'[q.swap] > 0
                       /\ q.at \in {"sending", "sent"} => ~ Refused(q.swap)
                       /\ q.at \in Following => st[q.swap] \in Late,
           sent' \in [Swaps -> 0..MaxSends],
           \A s \in Swaps : sent[s] > 0 => sent'[s] > 0,
           marred' \subseteq Swaps, faults' \in 0..MaxFaults,
           UNCHANGED <<led, by, kind, api, st, prov, jobs>>
    PROVE  DexIInv'
<1>1. JobsType' /\ JobsTell' /\ HandsHold'
    BY HeldJobs
<1>2. /\ LedgerTellsStatus' /\ led' \in Ledgers /\ st' \in [Swaps -> Statuses]
      /\ \A s \in Swaps : st'[s] \in {"IN_FLIGHT", "COMPLETED"} => sent'[s] > 0
    BY DEF DexIInv, Inv, TypeOK, LedgerTellsStatus, Recorded, HandsTell
<1> QED
    BY <1>1, <1>2, WorkerFrame

\* It goes on, or is done.
LEMMA MovesOn ==
    ASSUME DexIInv, NEW k \in Workers, hand[k] # Idle, NEW a \in HandAt, Becomes(k, a),
           a \in Working => hand[k].job \in Jobs,
           a \in {"sent", "asking", "receipt", "crediting", "rejected"} => sent'[hand[k].swap] > 0,
           a \in {"sending", "sent"} => ~ Refused(hand[k].swap),
           a \in Following => st[hand[k].swap] \in Late,
           sent' \in [Swaps -> 0..MaxSends],
           \A s \in Swaps : sent[s] > 0 => sent'[s] > 0,
           marred' \subseteq Swaps, faults' \in 0..MaxFaults,
           UNCHANGED <<led, by, kind, api, st, prov, jobs>>
    PROVE  DexIInv'
<1> DEFINE q == [at |-> a, swap |-> hand[k].swap, job |-> hand[k].job]
<1>1. TypeOK /\ st[hand[k].swap] # "NONE"
    BY DEF DexIInv, Inv, HandsTell
<1>2. q \in [at : HandAt, swap : Swaps, job : Jobs \cup {Poller}] /\ hand' = [hand EXCEPT ![k] = q]
    BY <1>1, HandShape, GoesOn
<1> HIDE DEF q
<1>3. q.at = a /\ q.swap = hand[k].swap /\ q.job = hand[k].job
    BY DEF q
<1> QED
    BY <1>1, <1>2, <1>3, HandMoves

\* A worker that ends its job, puts it down, or moves on with nothing else
\* changed keeps the invariant.
LEMMA PutsDown ==
    ASSUME DexIInv, NEW k \in Workers,
           hand' = [hand EXCEPT ![k] = Idle] \/ (hand[k] # Idle /\ Leave(k)),
           marred' \subseteq Swaps, faults' \in 0..MaxFaults,
           UNCHANGED <<led, by, kind, api, st, sent, prov, jobs>>
    PROVE  DexIInv'
<1>1. TypeOK /\ sent' \in [Swaps -> 0..MaxSends]
    BY DEF DexIInv, Inv, TypeOK
<1>2. CASE hand' = [hand EXCEPT ![k] = Idle]
    BY <1>1, <1>2, HandMoves
<1>3. CASE hand[k] # Idle /\ hand[k].job # Poller /\
           hand' = [hand EXCEPT ![k] = [at |-> "ok", swap |-> hand[k].swap, job |-> hand[k].job]]
    <2> DEFINE q == [at |-> "ok", swap |-> hand[k].swap, job |-> hand[k].job]
    <2>1. st[hand[k].swap] # "NONE"
        BY <1>3 DEF DexIInv, Inv, HandsTell
    <2>2. q \in [at : HandAt, swap : Swaps, job : Jobs \cup {Poller}] /\ hand[k].job \in Jobs
        BY <1>1, <1>3, HandShape DEF HandAt
    <2>3. q.at = "ok" /\ q.swap = hand[k].swap /\ q.job = hand[k].job /\ hand' = [hand EXCEPT ![k] = q]
        BY <1>3
    <2> HIDE DEF q
    <2>4. "ok" \notin Following
        BY DEF Following
    <2> QED
        BY <1>1, <1>3, <2>1, <2>2, <2>3, <2>4, HandMoves
<1> QED
    BY <1>1, <1>2, <1>3, Leaves

\* The look at the row, the payment, and what is made of the answers.
LEMMA LookInv ==
    ASSUME DexIInv, NEW k \in Workers, ReadRow(k) PROVE DexIInv'
<1> DEFINE s == hand[k].swap
<1>1. hand[k].at = "claimed" /\ hand[k] # Idle
    BY DEF ReadRow, Idle
<1>2. /\ TypeOK /\ s \in Swaps /\ st[s] # "NONE" /\ hand[k].job \in Jobs
      /\ sent' \in [Swaps -> 0..MaxSends] /\ faults' \in 0..MaxFaults /\ marred' \subseteq Swaps
    BY <1>1, HandShape DEF DexIInv, Inv, HandsTell, HandsHold, Working, ReadRow, TypeOK
<1>3. /\ UNCHANGED <<led, by, kind, api, st, sent, prov, jobs>>
      /\ \/ Becomes(k, "ok") \/ Becomes(k, "error") \/ Becomes(k, "failing")
         \/ Becomes(k, "sending") /\ ~ Refused(s)
    BY DEF ReadRow
<1>4. {"ok", "error", "failing", "sending"} \subseteq HandAt \ Following
    BY DEF HandAt, Following
<1> HIDE DEF s
<1>5. ASSUME NEW a \in {"ok", "error", "failing", "sending"}, Becomes(k, a), a = "sending" => ~ Refused(s)
      PROVE  DexIInv'
    BY <1>1, <1>2, <1>3, <1>4, <1>5, MovesOn DEF s
<1> QED
    BY <1>3, <1>5

\* The broadcast: sent, refused, failed for certain, or ambiguous.
LEMMA SendInv ==
    ASSUME DexIInv, NEW k \in Workers, Send(k) PROVE DexIInv'
<1> DEFINE s == hand[k].swap
<1>1. hand[k].at = "sending" /\ hand[k] # Idle
    BY DEF Send, Idle
<1>2. /\ TypeOK /\ s \in Swaps /\ ~ Refused(s) /\ hand[k].job \in Jobs
      /\ faults' \in 0..MaxFaults /\ marred' \subseteq Swaps
    BY <1>1, HandShape DEF DexIInv, Inv, HandsTell, HandsHold, Working, Send, TypeOK
<1>3. UNCHANGED <<led, by, kind, api, st, prov, jobs>>
    BY DEF Send
<1>4. PICK a \in {"sent", "failing", "ambiguous"} :
          /\ Becomes(k, a)
          /\ a = "sent" => sent' # sent
          /\ sent' = sent \/ (sent[s] < MaxSends /\ sent' = [sent EXCEPT ![s] = @ + 1])
    <2>1. sent[s] < MaxSends => [sent EXCEPT ![s] = @ + 1] # sent
        BY <1>2 DEF TypeOK
    <2> QED
        BY <2>1 DEF Send
<1> HIDE DEF s
<1>5. sent \in [Swaps -> 0..MaxSends] /\ MaxSends \in Nat
    BY <1>2, DexAssumption DEF TypeOK
<1>6. /\ sent' \in [Swaps -> 0..MaxSends]
      /\ \A t \in Swaps : sent[t] > 0 => sent'[t] > 0
      /\ a = "sent" => sent'[s] > 0
    BY <1>2, <1>4, <1>5
<1>7. a \in HandAt \ Following
    BY DEF HandAt, Following
<1> QED
    BY <1>1, <1>2, <1>3, <1>4, <1>6, <1>7, MovesOn DEF s

\* A worker that follows a swap goes on to credit it, to reject it, to its
\* receipt, or is done.
LEMMA FollowsOn ==
    ASSUME DexIInv, NEW k \in Workers, hand[k].at \in Following,
           (\E a \in Following : Becomes(k, a)) \/ Leave(k),
           marred' \subseteq Swaps, faults' \in 0..MaxFaults,
           UNCHANGED <<led, by, kind, api, st, sent, prov, jobs>>
    PROVE  DexIInv'
<1>1. hand[k] # Idle /\ TypeOK /\ sent[hand[k].swap] > 0 /\ st[hand[k].swap] \in Late
    BY DEF DexIInv, Inv, HandsTell, Followed, Following, Idle
<1>2. CASE Leave(k)
    BY <1>1, <1>2, PutsDown
<1>3. CASE \E a \in Following : Becomes(k, a)
    <2>1. PICK a \in Following : Becomes(k, a)
        BY <1>3
    <2>2. a \in HandAt /\ a \notin Working /\ a \notin {"sending", "sent"}
        BY DEF Following, HandAt, Working
    <2>3. sent' \in [Swaps -> 0..MaxSends] /\ sent' = sent
        BY <1>1 DEF TypeOK
    <2> QED
        BY <1>1, <2>1, <2>2, <2>3, MovesOn
<1> QED
    BY <1>2, <1>3

\* What an exchange or a receipt says changes where the worker is, nothing else.
LEMMA AskInv ==
    ASSUME DexIInv, NEW k \in Workers, Ask(k) \/ TakeReceipt(k) PROVE DexIInv'
<1>1. /\ hand[k].at \in Following
      /\ UNCHANGED <<led, by, kind, api, st, sent, prov, marred, faults, jobs>>
    BY DEF Ask, TakeReceipt, Following
<1>2. (\E a \in Following : Becomes(k, a)) \/ Leave(k)
    <2>1. {"rejected", "crediting", "receipt"} \subseteq Following
        BY DEF Following
    <2>2. Becomes(k, "rejected") \/ Becomes(k, "crediting") \/ Becomes(k, "receipt") \/ Leave(k)
        <3>1. ASSUME NEW s, AskSwapkit(k, s) \/ AskRelay(k, s) \/ AskChangenow(k, s)
              PROVE  Becomes(k, "rejected") \/ Becomes(k, "crediting") \/ Becomes(k, "receipt") \/ Leave(k)
            BY <3>1 DEF AskSwapkit, AskRelay, AskChangenow
        <3> QED
            BY <3>1 DEF Ask, TakeReceipt
    <2> QED
        BY <2>1, <2>2
<1>3. marred' \subseteq Swaps /\ faults' \in 0..MaxFaults
    BY <1>1 DEF DexIInv, Inv, TypeOK
<1> QED
    BY <1>1, <1>2, <1>3, FollowsOn

\* A row that the job finds moved fails it; otherwise the swap is in flight.
LEMMA MarkInFlightInv ==
    ASSUME DexIInv, NEW k \in Workers, MarkInFlight(k) PROVE DexIInv'
<1> DEFINE s == hand[k].swap
<1>1. hand[k].at = "sent" /\ hand[k] # Idle
    BY DEF MarkInFlight, Idle
<1>2. /\ TypeOK /\ s \in Swaps /\ sent[s] > 0 /\ hand[k].job \in Jobs /\ st[s] # "NONE"
      /\ faults' \in 0..MaxFaults /\ marred' \subseteq Swaps /\ sent' \in [Swaps -> 0..MaxSends]
    BY <1>1, HandShape DEF DexIInv, Inv, HandsTell, HandsHold, Working, MarkInFlight, TypeOK
<1>3. UNCHANGED <<led, by, kind, api, sent, prov, jobs>>
    BY DEF MarkInFlight
<1>4. "error" \in HandAt \ Following /\ "asking" \in HandAt \ Working
    BY DEF HandAt, Following, Working
<1> HIDE DEF s
<1>5. CASE Becomes(k, "error") /\ st' = st
    BY <1>1, <1>2, <1>3, <1>4, <1>5, MovesOn DEF s
<1>6. CASE /\ st[s] \in {"BROADCASTING", "IN_FLIGHT"}
           /\ st' = [st EXCEPT ![s] = "IN_FLIGHT"] /\ Becomes(k, "asking")
    <2> DEFINE q == [at |-> "asking", swap |-> s, job |-> hand[k].job]
    <2>1. /\ hand' = [hand EXCEPT ![k] = q]
          /\ q \in [at : HandAt, swap : Swaps, job : Jobs \cup {Poller}]
        BY <1>1, <1>2, <1>4, <1>6, GoesOn DEF s
    <2>2. q.at = "asking" /\ q.swap = s /\ q.job = hand[k].job
        OBVIOUS
    <2> HIDE DEF q
    <2>3. /\ st' \in [Swaps -> Statuses]
          /\ \A t \in Swaps : st'[t] = IF t = s THEN "IN_FLIGHT" ELSE st[t]
        BY <1>2, <1>6 DEF TypeOK, Statuses
    <2>4. /\ \A t \in Swaps : st'[t] = "NONE" <=> st[t] = "NONE"
          /\ \A t \in Swaps : st[t] \in Late => st'[t] \in Late
          /\ st'[s] \in Late
        BY <1>2, <2>3 DEF Late
    <2>5. \A t \in Swaps : st'[t] \in {"IN_FLIGHT", "COMPLETED"} => sent'[t] > 0
        BY <1>2, <1>3, <2>3 DEF DexIInv, Inv, HandsTell
    <2>6. LedgerTellsStatus' /\ led' \in Ledgers
        BY <1>2, <1>3, <1>6, <2>3 DEF DexIInv, Inv, LedgerTellsStatus, Recorded, TypeOK
    <2>7. JobsType' /\ JobsTell' /\ HandsHold'
        BY <1>1, <1>2, <1>3, <1>4, <2>1, <2>2, <2>4, HeldJobs
    <2> QED
        BY <1>1, <1>2, <1>3, <2>1, <2>2, <2>3, <2>4, <2>5, <2>6, <2>7, WorkerFrame
<1> QED
    BY <1>5, <1>6 DEF MarkInFlight, s

\* One row becomes v, which the ledger tells, and the worker is somewhere else.
LEMMA RowMoves ==
    ASSUME DexIInv, NEW k \in Workers, hand[k] # Idle,
           NEW q \in {Idle} \cup [at : HandAt, swap : Swaps, job : Jobs \cup {Poller}],
           hand' = [hand EXCEPT ![k] = q],
           q # Idle => /\ q.swap = hand[k].swap /\ q.job = hand[k].job
                       /\ q.at \in {"refunding", "ok", "error"}
                       /\ q.at # "refunding" => hand[k].job \in Jobs,
           NEW v \in {"COMPLETED", "FAILED", "REFUNDED"},
           \/ st' = st /\ led' = led
           \/ /\ st' = [st EXCEPT ![hand[k].swap] = v]
              /\ v = "COMPLETED" => sent[hand[k].swap] > 0
              /\ led' \in Ledgers /\ LedgerTellsStatus',
           UNCHANGED <<by, kind, api, sent, prov, marred, faults, jobs>>
    PROVE  DexIInv'
<1> DEFINE s == hand[k].swap
<1>1. TypeOK /\ s \in Swaps /\ st[s] # "NONE"
    BY HandShape DEF DexIInv, Inv, HandsTell
<1> HIDE DEF s
<1>2. /\ st' \in [Swaps -> Statuses]
      /\ st' = st \/ \A t \in Swaps : st'[t] = IF t = s THEN v ELSE st[t]
    BY <1>1 DEF TypeOK, Statuses, s
<1>3. /\ \A t \in Swaps : st'[t] = "NONE" <=> st[t] = "NONE"
      /\ \A t \in Swaps : st[t] \in Late => st'[t] \in Late
    BY <1>1, <1>2 DEF Late
<1>4. \A t \in Swaps : st'[t] \in {"IN_FLIGHT", "COMPLETED"} => sent'[t] > 0
    <2>1. CASE st' = st
        BY <2>1 DEF DexIInv, Inv, HandsTell
    <2>2. CASE st' # st
        BY <1>2, <2>2 DEF DexIInv, Inv, HandsTell, s
    <2> QED
        BY <2>1, <2>2
<1>5. LedgerTellsStatus' /\ led' \in Ledgers
    <2>1. CASE st' = st /\ led' = led
        BY <1>1, <2>1 DEF DexIInv, Inv, LedgerTellsStatus, Recorded, TypeOK
    <2> QED
        BY <2>1
<1>6. {"refunding", "ok", "error"} \cap Following = {} /\ "refunding" \notin Working
    BY DEF Following, Working
<1>7. JobsType' /\ JobsTell' /\ HandsHold'
    BY <1>3, <1>6, HeldJobs
<1>8. sent' \in [Swaps -> 0..MaxSends] /\ marred' \subseteq Swaps /\ faults' \in 0..MaxFaults
    BY <1>1 DEF TypeOK
<1> QED
    BY <1>1, <1>2, <1>3, <1>4, <1>5, <1>6, <1>7, <1>8, WorkerFrame DEF s

\* mark_failed, for a worker that was refused or does not know.
LEMMA MarkFailedInv ==
    ASSUME DexIInv, NEW k \in Workers, MarkFailed(k) PROVE DexIInv'
<1> DEFINE s == hand[k].swap
<1>1. hand[k].at \in {"failing", "ambiguous", "rejected"} /\ hand[k] # Idle
    BY DEF MarkFailed, Idle
<1>2. TypeOK /\ s \in Swaps
    BY <1>1, HandShape DEF DexIInv, Inv
<1>3. /\ UNCHANGED <<led, by, kind, api, sent, prov, marred, faults, jobs>>
      /\ st' = IF Failable(s) THEN [st EXCEPT ![s] = "FAILED"] ELSE st
    BY DEF MarkFailed
<1>4. st' = st \/ (st' = [st EXCEPT ![s] = "FAILED"] /\ led' \in Ledgers /\ LedgerTellsStatus')
    <2>1. CASE Failable(s)
        <3>1. \A t \in Swaps : st'[t] = IF t = s THEN "FAILED" ELSE st[t]
            BY <1>2, <1>3, <2>1 DEF TypeOK
        <3>2. LedgerTellsStatus'
            BY <1>3, <2>1, <3>1 DEF DexIInv, Inv, LedgerTellsStatus, Recorded, Failable, Final
        <3> QED
            BY <1>2, <1>3, <2>1, <3>2 DEF TypeOK
    <2> QED
        BY <1>3, <2>1
<1>5. PICK q \in {Idle} \cup [at : HandAt, swap : Swaps, job : Jobs \cup {Poller}] :
          /\ hand' = [hand EXCEPT ![k] = q]
          /\ q # Idle => /\ q.swap = s /\ q.job = hand[k].job
                         /\ q.at \in {"refunding", "ok", "error"}
                         /\ q.at # "refunding" => hand[k].job \in Jobs
    <2> DEFINE r(a) == [at |-> a, swap |-> s, job |-> hand[k].job]
    <2>1. \A a \in {"refunding", "ok", "error"} :
              r(a) \in [at : HandAt, swap : Swaps, job : Jobs \cup {Poller}]
        BY <1>1, <1>2, HandShape DEF HandAt
    <2>2. hand[k].at = "ambiguous" => hand[k].job \in Jobs
        BY DEF DexIInv, HandsHold, Working
    <2>3. hand[k].job # Poller => hand[k].job \in Jobs
        BY <1>1, <1>2, HandShape
    <2>4. \/ hand' = [hand EXCEPT ![k] = r("refunding")]
          \/ hand[k].job \in Jobs /\ hand' = [hand EXCEPT ![k] = r("error")]
          \/ hand[k].job \in Jobs /\ hand' = [hand EXCEPT ![k] = r("ok")]
          \/ hand' = [hand EXCEPT ![k] = Idle]
        BY <1>1, <1>2, <2>2, <2>3, GoesOn, Leaves DEF MarkFailed
    <2> QED
        BY <2>1, <2>4
<1> QED
    BY <1>1, <1>3, <1>4, <1>5, RowMoves

\* The refund, or the payout, with its row of the ledger; or neither.
LEMMA SettleInv ==
    ASSUME DexIInv, NEW k \in Workers, Refund(k) \/ CreditAndComplete(k) PROVE DexIInv'
<1> DEFINE s == hand[k].swap
<1>1. hand[k].at \in {"refunding", "crediting"} /\ hand[k] # Idle
    BY DEF Refund, CreditAndComplete, Idle
<1>2. TypeOK /\ s \in Swaps /\ led \in Ledgers
    BY <1>1, HandShape DEF DexIInv, Inv, TypeOK
<1>3. UNCHANGED <<by, kind, api, sent, prov, marred, faults, jobs>>
    BY DEF Refund, CreditAndComplete
<1>4. PICK v \in {"COMPLETED", "FAILED", "REFUNDED"} :
          \/ st' = st /\ led' = led
          \/ /\ st' = [st EXCEPT ![s] = v]
             /\ v = "COMPLETED" => sent[s] > 0
             /\ led' \in Ledgers /\ LedgerTellsStatus'
    <2>1. CASE Refund(k) /\ Refundable(s) /\ Post(Return(s)) /\ st' = [st EXCEPT ![s] = "REFUNDED"]
        <3>1. led' \in Ledgers /\ led'.keys = led.keys \cup {<<FromWallet[s], "DEX_SWAP_REFUND", s>>}
            BY <1>2, <2>1, SwapEntries, PostedEntry DEF Return
        <3>2. \A t \in Swaps : st'[t] = IF t = s THEN "REFUNDED" ELSE st[t]
            BY <1>2, <2>1 DEF TypeOK
        <3>3. LedgerTellsStatus'
            BY <1>2, <2>1, <3>1, <3>2 DEF DexIInv, Inv, LedgerTellsStatus, Recorded, Refundable, Final
        <3> QED
            BY <2>1, <3>1, <3>3
    <2>2. CASE CreditAndComplete(k) /\ Creditable(s) /\ Post(Payout(s)) /\ st' = [st EXCEPT ![s] = "COMPLETED"]
        <3>1. led' \in Ledgers /\ led'.keys = led.keys \cup {<<ToWallet[s], "DEX_SWAP_IN", s>>}
            BY <1>2, <2>2, SwapEntries, PostedEntry DEF Payout
        <3>2. \A t \in Swaps : st'[t] = IF t = s THEN "COMPLETED" ELSE st[t]
            BY <1>2, <2>2 DEF TypeOK
        <3>3. LedgerTellsStatus'
            BY <1>2, <2>2, <3>1, <3>2 DEF DexIInv, Inv, LedgerTellsStatus, Recorded, Creditable
        <3>4. sent[s] > 0
            BY <1>1, <2>2 DEF DexIInv, Inv, HandsTell, CreditAndComplete
        <3> QED
            BY <2>2, <3>1, <3>3, <3>4
    <2> QED
        BY <2>1, <2>2 DEF Refund, CreditAndComplete
<1>5. PICK q \in {Idle} \cup [at : HandAt, swap : Swaps, job : Jobs \cup {Poller}] :
          /\ hand' = [hand EXCEPT ![k] = q]
          /\ q # Idle => /\ q.swap = s /\ q.job = hand[k].job
                         /\ q.at \in {"refunding", "ok", "error"}
                         /\ q.at # "refunding" => hand[k].job \in Jobs
    <2> DEFINE r(a) == [at |-> a, swap |-> s, job |-> hand[k].job]
    <2>1. \A a \in {"ok", "error"} : r(a) \in [at : HandAt, swap : Swaps, job : Jobs \cup {Poller}]
        BY <1>1, <1>2, HandShape DEF HandAt
    <2>2. hand[k].job # Poller => hand[k].job \in Jobs
        BY <1>1, <1>2, HandShape
    <2>3. \/ hand[k].job \in Jobs /\ hand' = [hand EXCEPT ![k] = r("error")]
          \/ hand[k].job \in Jobs /\ hand' = [hand EXCEPT ![k] = r("ok")]
          \/ hand' = [hand EXCEPT ![k] = Idle]
        BY <1>1, <1>2, <2>2, GoesOn, Leaves DEF Refund, CreditAndComplete
    <2> QED
        BY <2>1, <2>3
<1> QED
    BY <1>1, <1>3, <1>4, <1>5, RowMoves

\* A job that is pending is held by nobody.
LEMMA ClaimJobInv ==
    ASSUME DexIInv, NEW k \in Workers, NEW j \in Jobs, ClaimJob(k, j) PROVE DexIInv'
<1> DEFINE q == [at |-> "claimed", swap |-> jobs[j].payload, job |-> j]
<1>1. /\ hand[k] = Idle /\ jobs[j].status = "PENDING"
      /\ jobs' = [jobs EXCEPT ![j].status = "RUNNING", ![j].attempts = @ + 1]
      /\ hand' = [hand EXCEPT ![k] = q]
      /\ UNCHANGED <<led, by, kind, api, st, sent, prov, marred, faults>>
    BY DEF ClaimJob, ClaimNext, Pending, At
<1>2. TypeOK /\ jobs \in [Jobs -> {FreeSlot} \cup LiveJobs]
    BY DEF DexIInv, Inv, TypeOK, JobsType
<1>3. /\ jobs[j] \in LiveJobs /\ jobs[j].attempts < MaxAttempts
      /\ jobs[j].payload \in Swaps /\ st[jobs[j].payload] # "NONE"
    BY <1>1, <1>2, DexAssumption DEF FreeSlot, DexIInv, JobsTell, Pending, Free, LiveJobs
<1> DEFINE row == [status |-> "RUNNING", payload |-> jobs[j].payload, attempts |-> jobs[j].attempts + 1]
<1>4. jobs[j] = [status |-> "PENDING", payload |-> jobs[j].payload, attempts |-> jobs[j].attempts]
    BY <1>1, <1>3 DEF LiveJobs
<1>5. jobs' = [jobs EXCEPT ![j] = row]
    <2>1. jobs[j].attempts \in 0..MaxAttempts /\ jobs[j].payload \in Swaps
        BY <1>3, DexAssumption DEF LiveJobs
    <2> QED
        BY <1>1, <1>2, <1>4, <2>1
<1>6. row \in LiveJobs
    BY <1>3, JobQueueAssumption DEF LiveJobs
<1>7. \A i \in Jobs : jobs'[i] = IF i = j THEN row ELSE jobs[i]
    BY <1>2, <1>5
<1>8. q \in [at : HandAt, swap : Swaps, job : Jobs \cup {Poller}] /\ q # Idle /\ "claimed" \notin Following
    BY <1>3 DEF HandAt, Idle, Following
<1>9. JobsType'
    BY <1>2, <1>5, <1>6 DEF JobsType
<1>10. JobsTell'
    <2>1. row.status = "RUNNING" /\ row.payload = jobs[j].payload
        OBVIOUS
    <2> HIDE DEF row
    <2>2. \A i \in Jobs : jobs[i].status # "FREE" => st[jobs[i].payload] # "NONE"
        BY DEF DexIInv, JobsTell, Free
    <2>3. \A i \in Jobs : jobs[i].status = "PENDING" => jobs[i].attempts < MaxAttempts
        BY DEF DexIInv, JobsTell, Pending
    <2> QED
        BY <1>1, <1>3, <1>7, <2>1, <2>2, <2>3 DEF JobsTell, Free, Pending
<1>11. HandsHold'
    <2>1. \A i \in Workers : hand'[i] = IF i = k THEN q ELSE hand[i]
        BY <1>1, <1>2 DEF TypeOK
    <2>2. \A i \in Workers : hand[i] # Idle => hand[i].job # j
        BY <1>1 DEF DexIInv, HandsHold, Running
    <2>3. q.job = j /\ q # Idle
        BY <1>8
    <2> HIDE DEF q
    <2>4. \A i \in Workers : hand'[i].at \in Working => hand'[i].job \in Jobs
        BY <2>1, <2>3 DEF DexIInv, HandsHold
    <2>5. \A i \in Workers : hand'[i] # Idle /\ hand'[i].job \in Jobs => jobs'[hand'[i].job].status = "RUNNING"
        BY <1>7, <2>1, <2>2, <2>3 DEF DexIInv, HandsHold, Running
    <2>6. \A h, i \in Workers : hand'[h] # Idle /\ hand'[i] # Idle /\ hand'[h].job = hand'[i].job =>
              h = i \/ hand'[h].job = Poller
        BY <2>1, <2>2, <2>3 DEF DexIInv, HandsHold
    <2> QED
        BY <2>4, <2>5, <2>6 DEF HandsHold, Running
<1>12. /\ LedgerTellsStatus' /\ led' \in Ledgers /\ st' \in [Swaps -> Statuses]
       /\ \A s \in Swaps : st'[s] \in {"IN_FLIGHT", "COMPLETED"} => sent'[s] > 0
       /\ sent' \in [Swaps -> 0..MaxSends] /\ marred' \subseteq Swaps /\ faults' \in 0..MaxFaults
    BY <1>1 DEF DexIInv, Inv, TypeOK, LedgerTellsStatus, Recorded, HandsTell
<1>13. /\ st[q.swap] # "NONE" /\ q.at = "claimed"
    BY <1>3
<1> HIDE DEF q
<1> QED
    BY <1>1, <1>8, <1>9, <1>10, <1>11, <1>12, <1>13, WorkerFrame

\* The poller takes a row that is active.
LEMMA PollInv ==
    ASSUME DexIInv, NEW k \in Workers, NEW s \in Swaps, Poll(k, s) PROVE DexIInv'
<1>1. /\ UNCHANGED <<led, by, kind, api, st, sent, prov, marred, faults, jobs>>
      /\ sent' \in [Swaps -> 0..MaxSends] /\ marred' \subseteq Swaps /\ faults' \in 0..MaxFaults
    BY DEF Poll, DexIInv, Inv, TypeOK
<1>2. PICK a \in {"asking", "requeueing", "refunding"} :
          /\ hand' = [hand EXCEPT ![k] = [at |-> a, swap |-> s, job |-> Poller]]
          /\ st[s] # "NONE" /\ (a = "asking" => st[s] = "IN_FLIGHT")
    BY DEF Poll, ListActive, At
<1> DEFINE q == [at |-> a, swap |-> s, job |-> Poller]
<1>3. /\ q \in [at : HandAt, swap : Swaps, job : Jobs \cup {Poller}]
      /\ q.at = a /\ q.swap = s /\ q.job = Poller /\ hand' = [hand EXCEPT ![k] = q]
    BY <1>2 DEF HandAt
<1> HIDE DEF q
<1>4. /\ a \notin Working /\ a \notin {"sending", "sent"}
      /\ a \in Following \cup {"sent"} => a = "asking" /\ st[s] \in Late /\ sent[s] > 0
    BY <1>2 DEF Working, Following, Late, DexIInv, Inv, HandsTell
<1> QED
    BY <1>1, <1>2, <1>3, <1>4, HandMoves DEF Following

\* The job ends; its slot is free, or pending again.
LEMMA EndJobInv ==
    ASSUME DexIInv, NEW k \in Workers, EndJob(k) PROVE DexIInv'
<1> DEFINE j == hand[k].job
<1>1. /\ hand[k].at \in {"ok", "error"} /\ hand[k] # Idle /\ hand' = [hand EXCEPT ![k] = Idle]
      /\ UNCHANGED <<led, by, kind, api, st, sent, prov, marred, faults>>
      /\ Complete(j) \/ Fail(j)
    BY DEF EndJob, Idle
<1>2. j \in Jobs /\ jobs[j].status = "RUNNING"
    BY <1>1 DEF DexIInv, HandsHold, Working, Running
<1>3. TypeOK /\ jobs \in [Jobs -> {FreeSlot} \cup LiveJobs]
    BY DEF DexIInv, Inv, TypeOK, JobsType
<1>4. jobs[j] \in LiveJobs /\ st[jobs[j].payload] # "NONE"
    BY <1>2, <1>3 DEF FreeSlot, DexIInv, JobsTell, Free
<1>5. PICK row \in {FreeSlot} \cup LiveJobs :
          /\ jobs' = [jobs EXCEPT ![j] = row]
          /\ row.status = "PENDING" => row.attempts < MaxAttempts
          /\ row.status = "FREE" \/ row.payload = jobs[j].payload
    <2>1. FreeSlot.status = "FREE"
        BY DEF FreeSlot
    <2>2. CASE Complete(j) \/ (Fail(j) /\ jobs[j].attempts >= MaxAttempts)
        BY <2>1, <2>2 DEF Complete, Fail
    <2>3. CASE Fail(j) /\ ~ (jobs[j].attempts >= MaxAttempts)
        <3> DEFINE row == [jobs[j] EXCEPT !.status = "PENDING"]
        <3>1. jobs' = [jobs EXCEPT ![j] = row]
            BY <2>3 DEF Fail
        <3>2. row \in LiveJobs /\ row.attempts < MaxAttempts /\ row.payload = jobs[j].payload
            BY <1>4, <2>3, JobQueueAssumption DEF LiveJobs
        <3> QED
            BY <3>1, <3>2
    <2> QED
        BY <1>1, <2>2, <2>3
<1> HIDE DEF j
<1>6. JobsType'
    BY <1>3, <1>5 DEF JobsType
<1>7. \A i \in Jobs : jobs'[i] = IF i = j THEN row ELSE jobs[i]
    BY <1>3, <1>5
<1>8. JobsTell'
    BY <1>1, <1>4, <1>5, <1>7 DEF DexIInv, JobsTell, Free, Pending
<1>9. HandsHold'
    <2>1. \A i \in Workers : hand'[i] = IF i = k THEN Idle ELSE hand[i]
        BY <1>1, <1>3 DEF TypeOK
    <2>2. \A i \in Workers : hand[i] # Idle /\ i # k => hand[i].job # j
        BY <1>1, <1>2 DEF DexIInv, HandsHold, j, Poller, Jobs
    <2>3. Idle.at \notin Working
        BY DEF Idle, Working
    <2>4. \A i \in Workers : hand'[i].at \in Working => hand'[i].job \in Jobs
        BY <2>1, <2>3 DEF DexIInv, HandsHold
    <2>5. \A i \in Workers : hand'[i] # Idle /\ hand'[i].job \in Jobs => jobs'[hand'[i].job].status = "RUNNING"
        BY <1>7, <2>1, <2>2 DEF DexIInv, HandsHold, Running
    <2>6. \A h, i \in Workers : hand'[h] # Idle /\ hand'[i] # Idle /\ hand'[h].job = hand'[i].job =>
              h = i \/ hand'[h].job = Poller
        BY <2>1 DEF DexIInv, HandsHold
    <2> QED
        BY <2>4, <2>5, <2>6 DEF HandsHold, Running
<1>10. /\ LedgerTellsStatus' /\ led' \in Ledgers /\ st' \in [Swaps -> Statuses]
       /\ \A s \in Swaps : st'[s] \in {"IN_FLIGHT", "COMPLETED"} => sent'[s] > 0
       /\ sent' \in [Swaps -> 0..MaxSends] /\ marred' \subseteq Swaps /\ faults' \in 0..MaxFaults
    BY <1>1 DEF DexIInv, Inv, TypeOK, LedgerTellsStatus, Recorded, HandsTell
<1> QED
    BY <1>1, <1>6, <1>8, <1>9, <1>10, WorkerFrame

\* One more job for a row that is early.
LEMMA RequeueInv ==
    ASSUME DexIInv, NEW k \in Workers, Requeue(k) PROVE DexIInv'
<1>1. /\ hand[k] # Idle /\ hand' = [hand EXCEPT ![k] = Idle]
      /\ UNCHANGED <<led, by, kind, api, st, sent, prov, marred, faults>>
      /\ Enqueue(hand[k].swap) \/ jobs' = jobs
    BY DEF Requeue, Idle
<1>2. TypeOK /\ hand[k].swap \in Swaps /\ st[hand[k].swap] # "NONE"
    BY <1>1, HandShape DEF DexIInv, Inv, HandsTell
<1>3. \A i \in Workers : hand'[i] \in {hand[i], Idle}
    BY <1>1, <1>2 DEF TypeOK
<1>4. JobsType' /\ JobsTell' /\ HandsHold'
    BY <1>1, <1>2, <1>3, EnqueueKeeps, SameJobs
<1>5. /\ LedgerTellsStatus' /\ led' \in Ledgers /\ st' \in [Swaps -> Statuses]
      /\ \A s \in Swaps : st'[s] \in {"IN_FLIGHT", "COMPLETED"} => sent'[s] > 0
      /\ sent' \in [Swaps -> 0..MaxSends] /\ marred' \subseteq Swaps /\ faults' \in 0..MaxFaults
    BY <1>1 DEF DexIInv, Inv, TypeOK, LedgerTellsStatus, Recorded, HandsTell
<1> QED
    BY <1>1, <1>4, <1>5, WorkerFrame

\* A statement fails, or the process stops.
LEMMA WorkerFaultInv ==
    ASSUME DexIInv, NEW k \in Workers, WorkerFault(k) PROVE DexIInv'
<1>1. hand[k] # Idle /\ UNCHANGED <<led, by, kind, api, st, sent, prov, jobs>>
    BY DEF WorkerFault
<1>2. TypeOK /\ hand[k].swap \in Swaps /\ (hand[k].job # Poller => hand[k].job \in Jobs)
    BY <1>1, HandShape DEF DexIInv, Inv
<1>3. sent' \in [Swaps -> 0..MaxSends] /\ marred' \subseteq Swaps /\ faults' \in 0..MaxFaults
    BY <1>2, DexAssumption DEF WorkerFault, TypeOK
<1>4. CASE hand[k].at \in Following /\ (Becomes(k, "receipt") \/ Leave(k))
    BY <1>1, <1>3, <1>4, FollowsOn DEF Following
<1>5. CASE hand' = [hand EXCEPT ![k] = Idle]
    BY <1>1, <1>3, <1>5, PutsDown
<1>6. CASE \/ hand[k].at = "failing" /\ Becomes(k, "refunding")
           \/ hand[k].at \in {"claimed", "sent", "ambiguous"} /\ Becomes(k, "error")
           \/ hand[k].job # Poller /\ Becomes(k, "error")
    <2>1. /\ {"refunding", "error"} \subseteq HandAt \ Following /\ "refunding" \notin Working
          /\ hand[k].at \in {"claimed", "sent", "ambiguous"} => hand[k].job \in Jobs
        BY DEF HandAt, Following, Working, DexIInv, HandsHold
    <2> QED
        BY <1>1, <1>2, <1>3, <1>6, <2>1, MovesOn
<1> QED
    BY <1>4, <1>5, <1>6 DEF WorkerFault, Following

\* The invariant reads the variables only.
LEMMA StutterInv ==
    ASSUME DexIInv, UNCHANGED vars PROVE DexIInv'
<1> USE DEF vars, dexVars
<1>1. JobsType' /\ JobsTell' /\ HandsHold'
    BY SameJobs
<1>2. LedgerTellsStatus' /\ OneSwapPerKey' /\ RequestsTell'
    BY DEF DexIInv, Inv, LedgerTellsStatus, Recorded, OneSwapPerKey, RequestsTell
<1> QED
    BY <1>1, <1>2, RequestFrame DEF DexIInv, Inv, TypeOK

\* Every step keeps the inductive invariant of the rows.
LEMMA NextInv ==
    ASSUME DexIInv, [DexNext]_vars PROVE DexIInv'
<1>1. ASSUME NEW s \in Swaps, Quote(s) \/ LockAndCreate(s) PROVE DexIInv'
    BY <1>1, AskedInv
<1>2. ASSUME NEW s \in Swaps,
             MarkBroadcasting(s) \/ EnqueueBroadcast(s) \/ RequestFault(s) \/ Answer(s)
      PROVE  DexIInv'
    BY <1>2, MarkedInv
<1>3. ASSUME NEW k \in Workers, (\E j \in Jobs : ClaimJob(k, j)) \/ (\E s \in Swaps : Poll(k, s))
      PROVE  DexIInv'
    BY <1>3, ClaimJobInv, PollInv
<1>4. ASSUME NEW k \in Workers, WorkerStep(k) PROVE DexIInv'
    BY <1>4, LookInv, SendInv, MarkInFlightInv, MarkFailedInv, SettleInv, AskInv, EndJobInv, RequeueInv
       DEF WorkerStep
<1>5. ASSUME NEW k \in Workers, WorkerFault(k) PROVE DexIInv'
    BY <1>5, WorkerFaultInv
<1>6. UNCHANGED vars => DexIInv'
    BY StutterInv
<1> QED
    BY <1>1, <1>2, <1>3, <1>4, <1>5, <1>6 DEF DexNext

\* The ledger rows tell the status of every swap, only what was paid for is
\* in flight or completed, and one key is one swap: lock_and_create,
\* credit_and_complete and refund (dex_swap.rs:144-221, 333, 425).
THEOREM DexInvariant == Spec => []Inv
<1>1. DexIInv /\ [DexNext]_vars => DexIInv'
    BY NextInv
<1>2. DexIInv => Inv
    BY DEF DexIInv
<1> QED
    BY <1>1, <1>2, InitInv, PTL DEF Spec

-------------------------------------------------------------------------------
(* The statuses, which only move forward.                                  *)

\* A request moves a swap along the first two edges.
LEMMA RequestMoves ==
    ASSUME DexIInv, NEW r \in Swaps, NEW s \in Swaps,
           Quote(r) \/ LockAndCreate(r) \/ MarkBroadcasting(r) \/ EnqueueBroadcast(r)
           \/ RequestFault(r) \/ Answer(r),
           st'[s] # st[s]
    PROVE  <<st[s], st'[s]>> \in {<<"NONE", "LOCKED">>, <<"LOCKED", "BROADCASTING">>}
<1>1. TypeOK
    BY DEF DexIInv, Inv
<1>2. CASE LockAndCreate(r)
    <2>1. st' = [st EXCEPT ![r] = "LOCKED"] /\ KeyFree(r)
        BY <1>2 DEF LockAndCreate
    <2>2. st[r] = "NONE"
        BY <2>1 DEF KeyFree, WithKey
    <2> QED
        BY <1>1, <2>1, <2>2 DEF TypeOK
<1>3. CASE MarkBroadcasting(r)
    BY <1>1, <1>3 DEF MarkBroadcasting, TypeOK
<1> QED
    BY <1>2, <1>3 DEF Quote, EnqueueBroadcast, RequestFault, Answer

\* A worker moves a swap along an edge of Moves, also when it comes late.
LEMMA WorkerMoves ==
    ASSUME DexIInv, NEW k \in Workers, NEW s \in Swaps, WorkerStep(k), st'[s] # st[s]
    PROVE  <<st[s], st'[s]>> \in Moves
<1> DEFINE t == hand[k].swap
<1>1. TypeOK
    BY DEF DexIInv, Inv
<1>2. MarkInFlight(k) \/ MarkFailed(k) \/ Refund(k) \/ CreditAndComplete(k)
    BY DEF WorkerStep, ReadRow, Send, Ask, TakeReceipt, EndJob, Requeue
<1>3. hand[k] # Idle
    BY <1>2 DEF MarkInFlight, MarkFailed, Refund, CreditAndComplete, Idle
<1>4. t \in Swaps /\ st[t] # "NONE" /\ st[t] \in Statuses
    BY <1>1, <1>3, HandShape DEF DexIInv, Inv, HandsTell, TypeOK
<1>5. CASE MarkInFlight(k)
    <2>1. st[t] \in {"BROADCASTING", "IN_FLIGHT"} /\ st' = [st EXCEPT ![t] = "IN_FLIGHT"]
        BY <1>5 DEF MarkInFlight
    <2> QED
        BY <1>1, <1>4, <2>1 DEF TypeOK, Moves
<1>6. CASE MarkFailed(k)
    <2>1. st[t] \notin Final /\ st' = [st EXCEPT ![t] = "FAILED"]
        BY <1>6 DEF MarkFailed, Failable
    <2> QED
        BY <1>1, <1>4, <2>1 DEF TypeOK, Moves, Final, Statuses
<1>7. CASE Refund(k)
    <2>1. st[t] \notin Final /\ st' = [st EXCEPT ![t] = "REFUNDED"]
        BY <1>7 DEF Refund, Refundable
    <2> QED
        BY <1>1, <1>4, <2>1 DEF TypeOK, Moves, Final, Statuses
<1>8. CASE CreditAndComplete(k)
    <2>1. st[t] \in {"BROADCASTING", "IN_FLIGHT"} /\ st' = [st EXCEPT ![t] = "COMPLETED"]
        BY <1>8 DEF CreditAndComplete, Creditable
    <2>2. st[t] \in Late
        BY <1>8 DEF CreditAndComplete, DexIInv, Followed, Following
    <2> QED
        BY <1>1, <1>4, <2>1, <2>2 DEF TypeOK, Moves, Late
<1> QED
    BY <1>2, <1>5, <1>6, <1>7, <1>8

\* The statuses of dex_swap.rs:36-46 move forward only, whichever worker
\* comes late: what is paid out or given back stays so.
THEOREM DexStatusesMove == Spec => StatusesMove
<1>1. DexIInv /\ [DexNext]_vars => DexIInv'
    BY NextInv
<1>2. ASSUME DexIInv, [DexNext]_vars
      PROVE  [\A s \in Swaps : st'[s] # st[s] => <<st[s], st'[s]>> \in Moves]_vars
    <2>1. ASSUME NEW s \in Swaps, st'[s] # st[s] PROVE <<st[s], st'[s]>> \in Moves
        <3>1. CASE UNCHANGED vars
            BY <2>1, <3>1 DEF vars, dexVars
        <3>2. ASSUME NEW r \in Swaps,
                     Quote(r) \/ LockAndCreate(r) \/ MarkBroadcasting(r) \/ EnqueueBroadcast(r)
                     \/ RequestFault(r) \/ Answer(r)
              PROVE  <<st[s], st'[s]>> \in Moves
            BY <1>2, <2>1, <3>2, RequestMoves DEF Moves
        <3>3. ASSUME NEW k \in Workers, WorkerStep(k) PROVE <<st[s], st'[s]>> \in Moves
            BY <1>2, <2>1, <3>3, WorkerMoves
        <3>4. ASSUME NEW k \in Workers,
                     (\E j \in Jobs : ClaimJob(k, j)) \/ (\E t \in Swaps : Poll(k, t)) \/ WorkerFault(k)
              PROVE  FALSE
            BY <2>1, <3>4 DEF ClaimJob, Poll, WorkerFault
        <3> QED
            BY <1>2, <3>1, <3>2, <3>3, <3>4 DEF DexNext
    <2> QED
        BY <2>1
<1> QED
    BY <1>1, <1>2, InitInv, PTL DEF Spec, StatusesMove

-------------------------------------------------------------------------------
(* The payments: every step keeps PaidIInv.                                *)

\* Where a worker pays, or has failed to.
PayingAt == {"sending", "sent", "failing"}

\* The row of a swap moves by a step of its request, or not at all.
LEMMA PaidAsked ==
    ASSUME PaidIInv, NEW r \in Swaps,
           Quote(r) \/ LockAndCreate(r) \/ MarkBroadcasting(r) \/ EnqueueBroadcast(r)
           \/ RequestFault(r) \/ Answer(r),
           NEW s \in Swaps \ marred'
    PROVE  Alone(s)' /\ GivenBack(s)'
<1>1. UNCHANGED <<hand, sent, marred>>
    BY DEF Quote, LockAndCreate, MarkBroadcasting, EnqueueBroadcast, RequestFault, Answer
<1>2. Alone(s) /\ GivenBack(s) /\ DexIInv /\ Paying(s)' = Paying(s)
    BY <1>1 DEF PaidIInv, Paying
<1>3. \/ st'[s] = st[s]
      \/ st[s] = "NONE" /\ st'[s] = "LOCKED"
      \/ st[s] = "LOCKED" /\ st'[s] = "BROADCASTING"
    BY <1>2, RequestMoves
<1>4. prov'[s] = prov[s] \/ prov[s] = "pending"
    <2>1. CASE Answer(r)
        BY <2>1, <1>2 DEF Answer, DexIInv, Inv, TypeOK
    <2> QED
        BY <2>1 DEF Quote, LockAndCreate, MarkBroadcasting, EnqueueBroadcast, RequestFault
<1>5. Alone(s)'
    BY <1>1, <1>2, <1>3 DEF Alone, Early
<1>6. GivenBack(s)'
    BY <1>1, <1>2, <1>3, <1>4 DEF GivenBack
<1> QED
    BY <1>5, <1>6

\* A step of a worker that is not paying for the swap, and does not start to.
LEMMA PaidQuiet ==
    ASSUME PaidIInv, NEW k \in Workers, NEW q, hand' = [hand EXCEPT ![k] = q],
           NEW s \in Swaps \ marred,
           st'[s] = st[s], sent'[s] = sent[s], prov'[s] = prov[s], k \notin Paying(s),
           \/ q = Idle
           \/ q.swap # s
           \/ /\ q.at \notin PayingAt \cup {"ambiguous"}
              /\ q.at = "refunding" => st[s] \in {"FAILED", "REFUNDED"}
              /\ q.at = "rejected" => prov[s] \in {"short", "failed"}
    PROVE  Alone(s)' /\ GivenBack(s)'
<1>1. Alone(s) /\ GivenBack(s) /\ \A i \in Workers : hand'[i] = IF i = k THEN q ELSE hand[i]
    BY DEF PaidIInv, DexIInv, Inv, TypeOK
<1>2. Idle.at \notin PayingAt
    BY DEF PayingAt, Idle
<1>3. \A i \in Workers : i \in Paying(s)' <=> i \in Paying(s)
    BY <1>1, <1>2 DEF Paying, PayingAt
<1>4. Paying(s)' = Paying(s) /\ \A i \in Paying(s) : hand'[i] = hand[i]
    BY <1>1, <1>3 DEF Paying
<1>5. Alone(s)'
    BY <1>1, <1>4 DEF Alone
<1>6. GivenBack(s)'
    BY <1>1 DEF GivenBack, PayingAt
<1> QED
    BY <1>5, <1>6

\* A step of the one worker that may be paying, which settles the row, one way
\* or the other, or makes it in flight.
LEMMA PaidSettles ==
    ASSUME PaidIInv, NEW k \in Workers, NEW q, hand' = [hand EXCEPT ![k] = q],
           NEW s \in Swaps \ marred,
           sent'[s] = sent[s], prov'[s] = prov[s], Paying(s) \subseteq {k},
           q = Idle \/ q.at \notin PayingAt \cup {"ambiguous", "rejected"},
           q # Idle /\ q.at = "refunding" => st'[s] \in {"FAILED", "REFUNDED"},
           \/ /\ st'[s] \in {"FAILED", "REFUNDED"}
              /\ sent[s] = 0 \/ prov[s] \in {"short", "failed"}
           \/ st'[s] \in {"IN_FLIGHT", "COMPLETED"} /\ st[s] \notin {"FAILED", "REFUNDED"}
    PROVE  Alone(s)' /\ GivenBack(s)'
<1>1. Alone(s) /\ GivenBack(s) /\ \A i \in Workers : hand'[i] = IF i = k THEN q ELSE hand[i]
    BY DEF PaidIInv, DexIInv, Inv, TypeOK
<1>2. Idle.at \notin PayingAt
    BY DEF PayingAt, Idle
<1>3. Paying(s)' = {}
    BY <1>1, <1>2 DEF Paying, PayingAt
<1>4. st'[s] \notin Early \cup {"NONE"}
    BY DEF Early
<1>5. Alone(s)'
    BY <1>1, <1>3, <1>4 DEF Alone
<1>6. GivenBack(s)'
    BY <1>1 DEF GivenBack
<1> QED
    BY <1>5, <1>6

\* The look: no other worker is at the swap, or it is marred.
LEMMA PaidLook ==
    ASSUME PaidIInv, NEW k \in Workers, ReadRow(k), NEW s \in Swaps \ marred'
    PROVE  Alone(s)' /\ GivenBack(s)'
<1>1. /\ hand[k].at = "claimed" /\ hand[k] # Idle /\ marred \subseteq marred'
      /\ UNCHANGED <<st, sent, prov>>
    BY DEF ReadRow, Idle
<1>2. /\ DexIInv /\ TypeOK /\ Alone(s) /\ GivenBack(s) /\ hand[k].swap \in Swaps /\ k \notin Paying(s)
      /\ st[hand[k].swap] \in Statuses \ {"NONE"}
    BY <1>1, HandShape DEF PaidIInv, DexIInv, Inv, TypeOK, HandsTell, Paying
<1>3. PICK a \in {"ok", "error", "failing", "sending"} :
          /\ Becomes(k, a)
          /\ a \in {"failing", "sending"} => ~ DoneWith(hand[k].swap)
    BY DEF ReadRow
<1> DEFINE q == [at |-> a, swap |-> hand[k].swap, job |-> hand[k].job]
<1>4. hand' = [hand EXCEPT ![k] = q] /\ q.at = a /\ q.swap = hand[k].swap
    BY <1>1, <1>2, <1>3, GoesOn
<1>5. CASE hand[k].swap # s \/ a \in {"ok", "error"}
    <2> HIDE DEF q
    <2>1. s \notin marred
        BY <1>1
    <2> QED
        BY <1>1, <1>2, <1>4, <1>5, <2>1, PaidQuiet DEF PayingAt
<1>6. CASE hand[k].swap = s /\ a \in {"failing", "sending"}
    <2>1. ~ Overlapping(k, s) /\ st[s] # "FAILED"
        BY <1>3, <1>6 DEF ReadRow
    <2>2. st[s] \in Early
        BY <1>2, <1>3, <1>6, <2>1 DEF DoneWith, Statuses, Early
    <2>3. Paying(s) = {} /\ \A i \in Workers \ {k} : hand[i].swap = s => hand[i].at # "refunding"
        BY <1>2, <2>1 DEF Overlapping, Paying
    <2>4. sent[s] = 0
        BY <1>2, <2>2, <2>3 DEF Alone
    <2> HIDE DEF q
    <2>5. \A i \in Workers : hand'[i] = IF i = k THEN q ELSE hand[i]
        BY <1>2, <1>4 DEF TypeOK
    <2>6. Paying(s)' = {k}
        BY <1>4, <1>6, <2>3, <2>5 DEF Paying
    <2>7. Alone(s)'
        BY <1>1, <1>4, <1>6, <2>2, <2>4, <2>5, <2>6 DEF Alone, Early
    <2>8. GivenBack(s)'
        BY <1>1, <1>2, <1>4, <1>6, <2>5 DEF GivenBack
    <2> QED
        BY <2>7, <2>8
<1> QED
    BY <1>3, <1>5, <1>6

\* The payment: the worker that makes it knows what became of it.
LEMMA PaidSend ==
    ASSUME PaidIInv, NEW k \in Workers, Send(k), NEW s \in Swaps \ marred'
    PROVE  Alone(s)' /\ GivenBack(s)'
<1> DEFINE t == hand[k].swap
<1>1. hand[k].at = "sending" /\ hand[k] # Idle /\ UNCHANGED <<st, prov>> /\ marred \subseteq marred'
    BY DEF Send, Idle
<1>2. /\ DexIInv /\ TypeOK /\ Alone(s) /\ GivenBack(s) /\ t \in Swaps /\ sent \in [Swaps -> Nat]
    BY <1>1, HandShape DEF PaidIInv, DexIInv, Inv, TypeOK
<1>3. \/ Becomes(k, "sent") /\ sent' = [sent EXCEPT ![t] = @ + 1]
      \/ Becomes(k, "failing") /\ sent' = sent
      \/ /\ Becomes(k, "ambiguous") /\ t \in marred'
         /\ sent' = sent \/ sent' = [sent EXCEPT ![t] = @ + 1]
    BY DEF Send
<1>4. PICK a \in {"sent", "failing", "ambiguous"} :
          /\ Becomes(k, a)
          /\ t = s => /\ a # "ambiguous"
                      /\ sent'[s] = IF a = "sent" THEN sent[s] + 1 ELSE sent[s]
          /\ t # s => sent'[s] = sent[s]
    BY <1>2, <1>3
<1> DEFINE q == [at |-> a, swap |-> t, job |-> hand[k].job]
<1>5. hand' = [hand EXCEPT ![k] = q] /\ q.at = a /\ q.swap = t
    BY <1>1, <1>2, <1>4, GoesOn
<1> HIDE DEF q, t
<1>6. CASE t # s
    BY <1>1, <1>2, <1>4, <1>5, <1>6, PaidQuiet DEF Paying, t
<1>7. CASE t = s
    <2>1. k \in Paying(s)
        BY <1>1, <1>7 DEF Paying, t
    <2>2. \A i \in Workers : hand'[i] = IF i = k THEN q ELSE hand[i]
        BY <1>2, <1>5 DEF TypeOK
    <2>3. Paying(s)' = {k} /\ sent[s] = 0 /\ st[s] \in Early
        BY <1>1, <1>2, <1>4, <1>5, <1>7, <2>1, <2>2 DEF Paying, Alone
    <2>4. Alone(s)'
        BY <1>1, <1>4, <1>5, <1>7, <2>2, <2>3 DEF Alone, Early
    <2>5. GivenBack(s)'
        BY <1>1, <1>2, <1>4, <1>5, <1>7, <2>2, <2>3 DEF GivenBack, Early
    <2> QED
        BY <2>4, <2>5
<1> QED
    BY <1>6, <1>7

\* Where a worker is after it went on, or left.
LEMMA Onward ==
    ASSUME TypeOK, NEW k \in Workers, hand[k] # Idle, NEW A,
           (\E a \in A : Becomes(k, a)) \/ Leave(k) \/ hand' = [hand EXCEPT ![k] = Idle]
    PROVE  \E q : /\ hand' = [hand EXCEPT ![k] = q]
                  /\ q = Idle \/ (q.at \in A \cup {"ok"} /\ q.swap = hand[k].swap)
<1> DEFINE r(a) == [at |-> a, swap |-> hand[k].swap, job |-> hand[k].job]
<1>1. \A a : r(a).at = a /\ r(a).swap = hand[k].swap
    OBVIOUS
<1>2. CASE \E a \in A : Becomes(k, a)
    <2>1. PICK a \in A : Becomes(k, a)
        BY <1>2
    <2>2. hand' = [hand EXCEPT ![k] = r(a)]
        BY <2>1, GoesOn
    <2> HIDE DEF r
    <2> QED
        BY <1>1, <2>1, <2>2
<1>3. CASE Leave(k)
    <2>1. hand' = [hand EXCEPT ![k] = Idle] \/ hand' = [hand EXCEPT ![k] = r("ok")]
        BY <1>3, Leaves
    <2> HIDE DEF r
    <2> QED
        BY <1>1, <2>1
<1> QED
    BY <1>2, <1>3

\* The row becomes in flight, failed, or is settled.
LEMMA PaidRow ==
    ASSUME PaidIInv, NEW k \in Workers,
           MarkInFlight(k) \/ MarkFailed(k) \/ Refund(k) \/ CreditAndComplete(k),
           NEW s \in Swaps \ marred'
    PROVE  Alone(s)' /\ GivenBack(s)'
<1> DEFINE t == hand[k].swap
<1>1. hand[k] # Idle /\ UNCHANGED <<sent, prov>> /\ marred \subseteq marred'
    BY DEF MarkInFlight, MarkFailed, Refund, CreditAndComplete, Idle
<1>2. /\ DexIInv /\ TypeOK /\ Alone(s) /\ GivenBack(s) /\ s \notin marred
      /\ t \in Swaps /\ st[t] \in Statuses \ {"NONE"}
    BY <1>1, HandShape DEF PaidIInv, DexIInv, Inv, TypeOK, HandsTell
<1> HIDE DEF t
<1>3. CASE MarkInFlight(k)
    <2>1. PICK q : /\ hand' = [hand EXCEPT ![k] = q]
                   /\ q = Idle \/ (q.at \in {"asking", "error", "ok"} /\ q.swap = t)
        BY <1>1, <1>2, <1>3, Onward DEF MarkInFlight, t
    <2>2. CASE t # s
        <3>1. st'[s] = st[s] /\ k \notin Paying(s)
            BY <1>2, <1>3, <2>2 DEF MarkInFlight, TypeOK, t, Paying
        <3> QED
            BY <1>1, <1>2, <2>1, <2>2, <3>1, PaidQuiet
    <2>3. CASE t = s
        <3>1. st[s] \in {"BROADCASTING", "IN_FLIGHT"} /\ st'[s] = "IN_FLIGHT" /\ k \in Paying(s)
            BY <1>2, <1>3, <2>3 DEF MarkInFlight, TypeOK, t, Paying
        <3>2. Paying(s) \subseteq {k}
            BY <1>2, <3>1 DEF Alone
        <3> QED
            BY <1>1, <1>2, <2>1, <3>1, <3>2, PaidSettles DEF PayingAt
    <2> QED
        BY <2>2, <2>3
<1>4. CASE MarkFailed(k)
    <2>1. st' = IF Failable(t) THEN [st EXCEPT ![t] = "FAILED"] ELSE st
        BY <1>4 DEF MarkFailed, t
    <2>2. CASE t # s
        <3>1. PICK q : /\ hand' = [hand EXCEPT ![k] = q]
                       /\ q = Idle \/ (q.at \in {"refunding", "error", "ok"} /\ q.swap = t)
            BY <1>1, <1>2, <1>4, Onward DEF MarkFailed, t
        <3>2. st'[s] = st[s] /\ k \notin Paying(s)
            BY <1>2, <2>1, <2>2 DEF TypeOK, t, Paying
        <3> QED
            BY <1>1, <1>2, <2>2, <3>1, <3>2, PaidQuiet
    <2>3. CASE t = s /\ hand[k].at = "failing"
        <3>1. PICK q : /\ hand' = [hand EXCEPT ![k] = q]
                       /\ q = Idle \/ (q.at \in {"refunding", "ok"} /\ q.swap = t)
            BY <1>1, <1>2, <1>4, <2>3, Onward DEF MarkFailed, t
        <3>2. k \in Paying(s)
            BY <2>3 DEF Paying, t
        <3>3. Paying(s) \subseteq {k} /\ sent[s] = 0 /\ st[s] \in Early
            BY <1>2, <2>3, <3>2 DEF Alone
        <3>4. st'[s] = "FAILED"
            BY <1>2, <2>1, <2>3, <3>3 DEF Failable, Final, Early, TypeOK
        <3> QED
            BY <1>1, <1>2, <3>1, <3>3, <3>4, PaidSettles DEF PayingAt
    <2>4. CASE t = s /\ hand[k].at = "rejected"
        <3>1. PICK q : /\ hand' = [hand EXCEPT ![k] = q]
                       /\ q = Idle \/ (q.at = "ok" /\ q.swap = t)
            <4>1. Leave(k)
                BY <1>4, <2>4 DEF MarkFailed
            <4> DEFINE r == [at |-> "ok", swap |-> hand[k].swap, job |-> hand[k].job]
            <4>2. hand' = [hand EXCEPT ![k] = Idle] \/ hand' = [hand EXCEPT ![k] = r]
                BY <1>1, <1>2, <4>1, Leaves
            <4>3. r.at = "ok" /\ r.swap = t
                BY DEF t
            <4> HIDE DEF r
            <4> QED
                BY <4>2, <4>3
        <3>2. prov[s] \in {"short", "failed"} /\ st[s] \in Late
            BY <1>1, <1>2, <2>4 DEF GivenBack, DexIInv, Followed, Following, t
        <3>3. Paying(s) = {}
            BY <1>2, <3>2 DEF Alone, Early, Late
        <3>4. st'[s] = "FAILED" \/ st'[s] = st[s]
            BY <1>2, <2>1, <2>4 DEF TypeOK
        <3> QED
            BY <1>1, <1>2, <3>1, <3>2, <3>3, <3>4, PaidSettles, PaidQuiet DEF PayingAt
    <2> QED
        BY <1>1, <1>2, <1>4, <2>2, <2>3, <2>4 DEF MarkFailed, GivenBack, t
<1>5. CASE Refund(k) \/ CreditAndComplete(k)
    <2>1. PICK q : /\ hand' = [hand EXCEPT ![k] = q]
                   /\ q = Idle \/ (q.at \in {"error", "ok"} /\ q.swap = t)
        BY <1>1, <1>2, <1>5, Onward DEF Refund, CreditAndComplete, t
    <2>2. CASE t # s \/ st' = st
        <3>1. st'[s] = st[s] /\ k \notin Paying(s)
            BY <1>2, <1>5, <2>2 DEF Refund, CreditAndComplete, TypeOK, t, Paying
        <3> QED
            BY <1>1, <1>2, <2>1, <3>1, PaidQuiet DEF PayingAt
    <2>3. CASE t = s /\ st' # st /\ Refund(k)
        <3>1. st'[s] = "REFUNDED" /\ st[s] \in {"FAILED", "REFUNDED"}
            BY <1>1, <1>2, <2>3 DEF Refund, GivenBack, TypeOK, t
        <3>2. Paying(s) = {} /\ (sent[s] = 0 \/ prov[s] \in {"short", "failed"})
            BY <1>2, <3>1 DEF Alone, Early, GivenBack
        <3> QED
            BY <1>1, <1>2, <2>1, <3>1, <3>2, PaidSettles DEF PayingAt
    <2>4. CASE t = s /\ st' # st /\ CreditAndComplete(k)
        <3>1. st'[s] = "COMPLETED" /\ st[s] = "IN_FLIGHT"
            BY <1>2, <2>4 DEF CreditAndComplete, Creditable, DexIInv, Followed, Following, Late, TypeOK, t
        <3>2. Paying(s) = {}
            BY <1>2, <3>1 DEF Alone, Early
        <3> QED
            BY <1>1, <1>2, <2>1, <3>1, <3>2, PaidSettles DEF PayingAt
    <2> QED
        BY <1>5, <2>2, <2>3, <2>4
<1> QED
    BY <1>3, <1>4, <1>5

\* No payment and no row: the exchange is asked, a job or a row is taken or
\* put down.
LEMMA PaidElsewhere ==
    ASSUME PaidIInv, NEW k \in Workers,
           \/ Ask(k) \/ TakeReceipt(k) \/ EndJob(k) \/ Requeue(k)
           \/ \E j \in Jobs : ClaimJob(k, j)
           \/ \E t \in Swaps : Poll(k, t),
           NEW s \in Swaps \ marred'
    PROVE  Alone(s)' /\ GivenBack(s)'
<1>1. UNCHANGED <<st, sent, prov, marred>> /\ k \notin Paying(s)
    BY DEF Ask, TakeReceipt, EndJob, Requeue, ClaimJob, Poll, Paying, Idle
<1>2. DexIInv /\ TypeOK
    BY DEF PaidIInv, DexIInv, Inv
<1>3. CASE Ask(k) \/ TakeReceipt(k)
    <2> DEFINE t == hand[k].swap
    <2>0. hand[k] # Idle
        BY <1>3 DEF Ask, TakeReceipt, Idle
    <2>1. hand[k] # Idle /\ t \in Swaps
        BY <1>2, <2>0, HandShape
    <2>2. \/ \E a \in {"crediting", "receipt"} : Becomes(k, a)
          \/ Becomes(k, "rejected") /\ prov[t] \in {"short", "failed"}
          \/ Leave(k)
        <3>1. ASSUME AskSwapkit(k, t) \/ AskRelay(k, t) \/ AskChangenow(k, t)
              PROVE  \/ \E a \in {"crediting", "receipt"} : Becomes(k, a)
                     \/ Becomes(k, "rejected") /\ prov[t] \in {"short", "failed"}
                     \/ Leave(k)
            BY <3>1 DEF AskSwapkit, AskRelay, AskChangenow, IntentFailed, OrderFailed
        <3> QED
            BY <1>3, <3>1 DEF Ask, TakeReceipt
    <2>3. PICK q : /\ hand' = [hand EXCEPT ![k] = q]
                   /\ \/ q = Idle
                      \/ q.at \in {"crediting", "receipt", "ok"}
                      \/ q.at = "rejected" /\ q.swap = t /\ prov[t] \in {"short", "failed"}
                      \/ q.swap = t /\ q.at = "ok"
        <3>1. CASE Becomes(k, "rejected") /\ prov[t] \in {"short", "failed"}
            BY <1>2, <2>1, <3>1, GoesOn
        <3>2. CASE (\E a \in {"crediting", "receipt"} : Becomes(k, a)) \/ Leave(k)
            BY <1>2, <2>1, <3>2, Onward
        <3> QED
            BY <2>2, <3>1, <3>2
    <2> HIDE DEF t
    <2> QED
        BY <1>1, <2>3, PaidQuiet DEF PayingAt
<1>4. CASE EndJob(k) \/ Requeue(k)
    <2>1. hand' = [hand EXCEPT ![k] = Idle]
        BY <1>4 DEF EndJob, Requeue
    <2> QED
        BY <1>1, <2>1, PaidQuiet
<1>5. CASE \E j \in Jobs : ClaimJob(k, j)
    <2>1. PICK j \in Jobs : hand' = [hand EXCEPT ![k] = At("claimed", jobs[j].payload, j)]
        BY <1>5 DEF ClaimJob
    <2> DEFINE q == At("claimed", jobs[j].payload, j)
    <2>2. hand' = [hand EXCEPT ![k] = q] /\ q.at = "claimed"
        BY <2>1 DEF At
    <2> HIDE DEF q
    <2> QED
        BY <1>1, <2>2, PaidQuiet DEF PayingAt
<1>6. CASE \E t \in Swaps : Poll(k, t)
    <2>1. PICK t \in Swaps : Poll(k, t)
        BY <1>6
    <2>2. PICK a \in {"asking", "requeueing", "refunding"} :
              hand' = [hand EXCEPT ![k] = At(a, t, Poller)] /\ (a = "refunding" => st[t] = "FAILED")
        BY <2>1 DEF Poll, ListActive
    <2> DEFINE q == At(a, t, Poller)
    <2>3. hand' = [hand EXCEPT ![k] = q] /\ q.at = a /\ q.swap = t
        BY <2>2 DEF At
    <2> HIDE DEF q
    <2> QED
        BY <1>1, <2>2, <2>3, PaidQuiet DEF PayingAt
<1> QED
    BY <1>3, <1>4, <1>5, <1>6

\* What a fault may have spoilt is marred.
LEMMA PaidFault ==
    ASSUME PaidIInv, NEW k \in Workers, WorkerFault(k), NEW s \in Swaps \ marred'
    PROVE  Alone(s)' /\ GivenBack(s)'
<1>1. /\ UNCHANGED <<st, sent, prov>> /\ hand[k] # Idle /\ marred' = marred \cup {hand[k].swap}
      /\ TypeOK
    BY DEF WorkerFault, PaidIInv, DexIInv, Inv
<1>2. hand[k].swap # s /\ s \notin marred /\ k \notin Paying(s)
    BY <1>1 DEF Paying
<1>3. (\E a \in HandAt : Becomes(k, a)) \/ Leave(k) \/ hand' = [hand EXCEPT ![k] = Idle]
    BY DEF WorkerFault, HandAt
<1>4. PICK q : hand' = [hand EXCEPT ![k] = q] /\ (q = Idle \/ q.swap = hand[k].swap)
    BY <1>1, <1>3, Onward
<1> QED
    BY <1>1, <1>2, <1>4, PaidQuiet

\* Every step keeps the inductive invariant of the payments.
LEMMA NextPaid ==
    ASSUME PaidIInv, [DexNext]_vars PROVE PaidIInv'
<1>1. DexIInv'
    BY NextInv DEF PaidIInv
<1>2. ASSUME NEW s \in Swaps \ marred' PROVE Alone(s)' /\ GivenBack(s)'
    <2>1. ASSUME NEW r \in Swaps,
                 Quote(r) \/ LockAndCreate(r) \/ MarkBroadcasting(r) \/ EnqueueBroadcast(r)
                 \/ RequestFault(r) \/ Answer(r)
          PROVE  Alone(s)' /\ GivenBack(s)'
        BY <2>1, PaidAsked
    <2>2. ASSUME NEW k \in Workers, WorkerStep(k) PROVE Alone(s)' /\ GivenBack(s)'
        BY <2>2, PaidLook, PaidSend, PaidRow, PaidElsewhere DEF WorkerStep
    <2>3. ASSUME NEW k \in Workers, (\E j \in Jobs : ClaimJob(k, j)) \/ (\E t \in Swaps : Poll(k, t))
          PROVE  Alone(s)' /\ GivenBack(s)'
        BY <2>3, PaidElsewhere
    <2>4. ASSUME NEW k \in Workers, WorkerFault(k) PROVE Alone(s)' /\ GivenBack(s)'
        BY <2>4, PaidFault
    <2>5. UNCHANGED vars => Alone(s)' /\ GivenBack(s)'
        BY DEF vars, dexVars, PaidIInv, Alone, GivenBack, Paying
    <2> QED
        BY <2>1, <2>2, <2>3, <2>4, <2>5 DEF DexNext
<1> QED
    BY <1>1, <1>2 DEF PaidIInv

\* Nothing is paid for twice, or given back after the exchange did its part,
\* by process_broadcast (dex_swap_runner.rs:105-320) or the poller (315-376),
\* unless two jobs overlapped, a FAILED row was taken up again, the payment
\* came before mark_broadcasting or was ambiguous, or something failed.
THEOREM DexPaidOnce == Spec => []PaidOnceUnlessMarred
<1>1. DexInit => PaidIInv
    <2> SUFFICES ASSUME DexInit PROVE PaidIInv
        OBVIOUS
    <2>1. DexIInv
        BY InitInv
    <2>2. \A s \in Swaps : Alone(s) /\ GivenBack(s)
        BY DEF DexInit, Alone, GivenBack, Paying, Idle
    <2> QED
        BY <2>1, <2>2 DEF PaidIInv
<1>2. PaidIInv /\ [DexNext]_vars => PaidIInv'
    BY NextPaid
<1>3. PaidIInv => PaidOnceUnlessMarred
    BY DEF PaidIInv, PaidOnceUnlessMarred, Alone, GivenBack
<1> QED
    BY <1>1, <1>2, <1>3, PTL DEF Spec
===============================================================================
