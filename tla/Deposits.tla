------------------------------- MODULE Deposits -------------------------------
(***************************************************************************)
(* Deposits from the chain to the ledger, and back when a reorganisation   *)
(* takes them away: crates/db/src/deposits.rs and the watcher that polls   *)
(* the chain (crates/worker/src/deposit_watcher.rs).                       *)
(*                                                                         *)
(* The chain is external.  An output is absent, or has fewer confirmations *)
(* than coin_config(coin).min_confirmations, or enough of them; a watcher  *)
(* works on the answer it fetched, whatever the chain has become since.    *)
(* reconcile_deposit has no caller in the worker yet; it is modelled with  *)
(* the snapshot its comment asks for, one that is right when it is given.  *)
(***************************************************************************)
EXTENDS Books

CONSTANTS
    Outputs,       \* (tx_hash, vout) pairs that pay to an address of a wallet
    DepositWallet, \* output -> the PERSONAL wallet of its address
    DepositAmount, \* output -> amount
    Watchers,      \* processes that run deposit_watcher
    MaxReorgs,     \* bound on the reorganisations
    MaxMisses      \* bound on the credits a watcher fails to make

ASSUME DepositAssumption ==
    /\ DepositWallet \in [Outputs -> Wallets]
    /\ DepositAmount \in [Outputs -> Nat \ {0}]
    /\ MaxReorgs \in Nat
    /\ MaxMisses \in Nat

VARIABLES
    chain,  \* what the chain says of each output
    reorgs,
    dep,    \* deposits.status, "NONE" when there is no row
    watch,  \* what each watcher has fetched and not yet handed on
    misses

depositVars == <<chain, reorgs, dep, watch, misses>>

Depths == {"absent", "low", "enough"}

DepositStatuses == {"NONE", "PENDING", "CREDITED", "ORPHANED"}

\* Slip: the entry does not name its deposit.
CreditWithoutRef(o) == Entry(DepositWallet[o], DepositAmount[o], "DEPOSIT", NoRef)

Credit(o) == Entry(DepositWallet[o], DepositAmount[o], "DEPOSIT", o)
CreditReversal(o) == Entry(DepositWallet[o], -DepositAmount[o], "DEPOSIT_REVERSAL", o)

\* A fetched history: the outputs it has, and their confirmations then.
Histories == UNION {[S -> Depths \ {"absent"}] : S \in SUBSET Outputs}

Nothing == [o \in {} |-> "low"]

Without(history, o) == [p \in DOMAIN history \ {o} |-> history[p]]

DepositInit ==
    /\ chain = [o \in Outputs |-> "absent"]
    /\ reorgs = 0
    /\ dep = [o \in Outputs |-> "NONE"]
    /\ watch = [k \in Watchers |-> Nothing]
    /\ misses = 0

\* A block confirms the output, or enough blocks have.
Confirm(o) ==
    /\ \/ chain[o] = "absent" /\ chain' = [chain EXCEPT ![o] = "low"]
       \/ chain[o] = "low" /\ chain' = [chain EXCEPT ![o] = "enough"]
    /\ UNCHANGED <<led, outbox, reorgs, dep, watch, misses>>

Reorganise(o) ==
    /\ reorgs < MaxReorgs
    /\ \/ chain[o] # "absent" /\ chain' = [chain EXCEPT ![o] = "absent"]
       \/ chain[o] = "enough" /\ chain' = [chain EXCEPT ![o] = "low"]
    /\ reorgs' = reorgs + 1
    /\ UNCHANGED <<led, outbox, dep, watch, misses>>

\* client.fetch_deposits for the address of one wallet.
FetchDeposits(k, w) ==
    /\ watch[k] = Nothing
    /\ LET seen == {o \in Outputs : DepositWallet[o] = w /\ chain[o] # "absent"}
       IN /\ seen # {}
          /\ watch' = [watch EXCEPT ![k] = [o \in seen |-> chain[o]]]
    /\ UNCHANGED <<led, outbox, chain, reorgs, dep, misses>>

\* Slip: a deposit with a row is taken for one that is done.
AlreadySeen(o) == dep[o] # "NONE"

AlreadyCredited(o) == dep[o] = "CREDITED"

\* credit_deposit, one transaction under the lock of the wallet.  An output
\* without enough confirmations is PENDING whatever it was, unless CREDITED.
\* When the ledger refuses the entry the status is rolled back with it; the
\* watcher logs the error and goes on.
CreditDeposit(k, o) ==
    /\ o \in DOMAIN watch[k]
    /\ \/ /\ AlreadyCredited(o)
          /\ UNCHANGED <<led, outbox, dep>>
       \/ /\ ~ AlreadyCredited(o) /\ watch[k][o] = "low"
          /\ dep' = [dep EXCEPT ![o] = "PENDING"]
          /\ UNCHANGED <<led, outbox>>
       \/ /\ ~ AlreadyCredited(o) /\ watch[k][o] = "enough"
          /\ Post(Credit(o))
          /\ dep' = [dep EXCEPT ![o] = "CREDITED"]
          /\ Stage(o, "DepositConfirmed")
       \/ /\ ~ AlreadyCredited(o) /\ watch[k][o] = "enough"
          /\ ~ Admits(led, Credit(o))
          /\ UNCHANGED <<led, outbox, dep>>
    /\ watch' = [watch EXCEPT ![k] = Without(@, o)]
    /\ UNCHANGED <<chain, reorgs, misses>>

\* credit_deposit fails otherwise, or the process stops.
MissDeposits(k) ==
    /\ misses < MaxMisses
    /\ misses' = misses + 1
    /\ \/ \E o \in DOMAIN watch[k] : watch' = [watch EXCEPT ![k] = Without(@, o)]
       \/ watch[k] # Nothing /\ watch' = [watch EXCEPT ![k] = Nothing]
    /\ UNCHANGED <<led, outbox, chain, reorgs, dep>>

\* Slip: nothing is done about a credit that has been spent.
LetItGo(w) == UNCHANGED led

PutOnHold(w) == led' = [led EXCEPT !.hold = @ \cup {w}]

\* reconcile_deposit: the deposit is ORPHANED; a credit is taken back, or the
\* wallet is put on hold when it has been spent.
ReconcileDeposit(o) ==
    /\ chain[o] # "enough"
    /\ dep[o] \in {"PENDING", "CREDITED"}
    /\ dep' = [dep EXCEPT ![o] = "ORPHANED"]
    /\ \/ /\ dep[o] = "PENDING"
          /\ UNCHANGED led
       \/ /\ dep[o] = "CREDITED" /\ Covers(led, CreditReversal(o))
          /\ Post(CreditReversal(o))
       \/ /\ dep[o] = "CREDITED" /\ ~ Covers(led, CreditReversal(o))
          /\ PutOnHold(DepositWallet[o])
    /\ UNCHANGED <<outbox, chain, reorgs, watch, misses>>

DepositNext ==
    \/ \E o \in Outputs : Confirm(o) \/ Reorganise(o) \/ ReconcileDeposit(o)
    \/ \E k \in Watchers : \/ \E w \in Wallets : FetchDeposits(k, w)
                           \/ \E o \in Outputs : CreditDeposit(k, o)
                           \/ MissDeposits(k)

\* The watcher polls every wallet in turn and hands on all it fetched.
DepositFairness ==
    \A k \in Watchers :
        /\ \A w \in Wallets : SF_<<led, outbox, depositVars>>(FetchDeposits(k, w))
        /\ \A o \in Outputs : WF_<<led, outbox, depositVars>>(CreditDeposit(k, o))
=============================================================================
