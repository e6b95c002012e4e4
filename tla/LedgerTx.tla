------------------------------ MODULE LedgerTx ------------------------------
(***************************************************************************)
(* Concurrent database transactions over the ledger, statement by          *)
(* statement, at READ COMMITTED: lock_wallets, lock_wallet and             *)
(* apply_ledger_entry of crates/db/src/ledger.rs as the operations call    *)
(* them.  A connection runs one program after another; a program is the    *)
(* sequence of ledger entries of one operation, the wallets it locks       *)
(* before it applies them (lock_wallets, or lock_wallet for one), and the  *)
(* wallet an INSERT of it references before it locks anything (a row of    *)
(* withdrawals has wallet_id as a foreign key, and Postgres takes FOR KEY  *)
(* SHARE on the referenced row).                                           *)
(*                                                                         *)
(* A transaction sees committed rows and its own; locks are kept until the *)
(* end of the transaction; an error rolls everything back.                 *)
(***************************************************************************)
EXTENDS Ledger

CONSTANTS Txs,            \* database connections
          NoTx,           \* nobody holds the row
          Rank, MaxRank,  \* the order of wallet ids that lock_wallets sorts by
          Programs,       \* [refers, locks, entries, orphans]
          InitialBalance  \* what earlier transactions left, [Wallets -> Nat]

ProgramSpace == [refers  : SUBSET Wallets,
                 locks   : SUBSET Wallets,
                 entries : Seq(Entries),
                 orphans : BOOLEAN]

ASSUME NoTxAssumption == NoTx \notin Txs

\* Ids are ordered, and there are finitely many of them.
ASSUME RankAssumption ==
    /\ MaxRank \in Nat
    /\ Rank \in [Wallets -> 0..MaxRank]
    /\ \A v, w \in Wallets : Rank[v] = Rank[w] => v = w

\* An operation that orphans a deposit posts one entry, the reversal of it.
ASSUME ProgramAssumption ==
    /\ Programs \subseteq ProgramSpace
    /\ \A p \in Programs :
         /\ p.entries # <<>>
         /\ p.orphans => Len(p.entries) = 1
         /\ \A v, w \in p.refers : v = w

ASSUME BalanceAssumption == InitialBalance \in [Wallets -> Nat]

VARIABLES
    led,    \* the committed ledger
    row,    \* wallet -> the transaction that holds it FOR UPDATE, or NoTx
    share,  \* wallet -> the transactions that hold it FOR KEY SHARE
    pc,     \* the next statement of each connection
    prog,   \* the program it runs
    todo,   \* the entries it has yet to apply
    toLock, \* the wallets lock_wallets has yet to lock
    delta,  \* per wallet, the sum of its uncommitted rows
    mine,   \* the index keys of its uncommitted rows
    held    \* the wallets it put on hold, uncommitted

vars == <<led, row, share, pc, prog, todo, toLock, delta, mine, held>>

PCs == {"idle", "reference", "lock_wallets", "lock_wallet",
        "hold", "balance", "insert", "commit"}

\* What a statement of t reads: committed rows and t's own.
View(t) == [balance |-> [w \in Wallets |-> led.balance[w] + delta[t][w]],
            hold    |-> led.hold \cup held[t],
            keys    |-> led.keys \cup mine[t]]

Current(t) == Head(todo[t])
CurrentWallet(t) == Current(t).wallet

NoChange == [w \in Wallets |-> 0]

\* Slip: the wallets are locked in the order of the entries, unsorted.
NextAsGiven(t) ==
    LET es == prog[t].entries
        i == CHOOSE n \in 1..Len(es) :
                 /\ es[n].wallet \in toLock[t]
                 /\ \A m \in 1..(n - 1) : es[m].wallet \notin toLock[t]
    IN es[i].wallet

\* sorted.sort(); sorted.dedup(): the least wallet still to lock.
NextToLock(t) ==
    CHOOSE w \in toLock[t] : \A v \in toLock[t] : Rank[w] <= Rank[v]

Referenced(t) == CHOOSE w \in prog[t].refers : TRUE

\* The row the next statement of t asks for.
Wanted(t) == CASE pc[t] = "reference"    -> Referenced(t)
               [] pc[t] = "lock_wallets" -> NextToLock(t)
               [] OTHER                  -> CurrentWallet(t)

Locking(t) == pc[t] \in {"reference", "lock_wallets", "lock_wallet"}

\* FOR UPDATE conflicts with both locks, FOR KEY SHARE with FOR UPDATE only.
Holds(t, w) == row[w] = t \/ t \in share[w]
FreeToShare(t, w) == row[w] \in {NoTx, t}

\* Slip: a SELECT without FOR UPDATE, which waits for nobody.
FreeToRead(t, w) == row[w] \in Txs \cup {NoTx}

FreeToLock(t, w) == row[w] \in {NoTx, t} /\ share[w] \subseteq {t}

\* Postgres' waits-for graph: t is blocked on a row u holds.
WaitsFor(t, u) ==
    /\ Locking(t) /\ t # u
    /\ \/ row[Wanted(t)] = u
       \/ pc[t] # "reference" /\ u \in share[Wanted(t)]

\* Everyone in C waits for someone in C: nobody of C ever gets on.
Knot(C) == C # {} /\ \A t \in C : \E u \in C : WaitsFor(t, u)

Entered(p) == {p.entries[i].wallet : i \in 1..Len(p.entries)}

\* Stands for the program of an idle connection.
NoProgram == [refers |-> {}, locks |-> {}, entries |-> <<>>, orphans |-> FALSE]

Init ==
    /\ led = [balance |-> InitialBalance, hold |-> {}, keys |-> {}]
    /\ row = [w \in Wallets |-> NoTx]
    /\ share = [w \in Wallets |-> {}]
    /\ pc = [t \in Txs |-> "idle"]
    /\ prog = [t \in Txs |-> NoProgram]
    /\ todo = [t \in Txs |-> <<>>]
    /\ toLock = [t \in Txs |-> {}]
    /\ delta = [t \in Txs |-> NoChange]
    /\ mine = [t \in Txs |-> {}]
    /\ held = [t \in Txs |-> {}]

FirstLock(p) == IF p.locks = {} THEN "lock_wallet" ELSE "lock_wallets"

\* pool.begin(), and what the operation will do.
Begin(t) ==
    /\ pc[t] = "idle"
    /\ \E p \in Programs :
         /\ prog' = [prog EXCEPT ![t] = p]
         /\ todo' = [todo EXCEPT ![t] = p.entries]
         /\ toLock' = [toLock EXCEPT ![t] = p.locks]
         /\ pc' = [pc EXCEPT ![t] = IF p.refers = {} THEN FirstLock(p) ELSE "reference"]
    /\ UNCHANGED <<led, row, share, delta, mine, held>>

\* INSERT INTO withdrawals (... wallet_id ...) by request_withdrawal.
InsertReference(t) ==
    /\ pc[t] = "reference"
    /\ FreeToShare(t, Referenced(t))
    /\ share' = [share EXCEPT ![Referenced(t)] = @ \cup {t}]
    /\ pc' = [pc EXCEPT ![t] = FirstLock(prog[t])]
    /\ UNCHANGED <<led, row, prog, todo, toLock, delta, mine, held>>

\* lock_wallets: one SELECT ... FOR UPDATE of its loop.
LockNext(t) ==
    /\ pc[t] = "lock_wallets"
    /\ FreeToLock(t, NextToLock(t))
    /\ row' = [row EXCEPT ![NextToLock(t)] = t]
    /\ toLock' = [toLock EXCEPT ![t] = @ \ {NextToLock(t)}]
    /\ pc' = [pc EXCEPT ![t] = IF toLock'[t] = {} THEN "lock_wallet" ELSE @]
    /\ UNCHANGED <<led, share, prog, todo, delta, mine, held>>

\* apply_ledger_entry locks the wallet first, held already or not.
LockRow(t) ==
    /\ pc[t] = "lock_wallet"
    /\ FreeToLock(t, CurrentWallet(t))
    /\ row' = [row EXCEPT ![CurrentWallet(t)] = t]
    /\ pc' = [pc EXCEPT ![t] = "hold"]
    /\ UNCHANGED <<led, share, prog, todo, toLock, delta, mine, held>>

\* Slip: the connection goes back to the pool with its transaction open.
ForgetTx(t) ==
    /\ pc' = [pc EXCEPT ![t] = "idle"]
    /\ todo' = [todo EXCEPT ![t] = <<>>]
    /\ toLock' = [toLock EXCEPT ![t] = {}]
    /\ delta' = [delta EXCEPT ![t] = NoChange]
    /\ mine' = [mine EXCEPT ![t] = {}]
    /\ held' = [held EXCEPT ![t] = {}]
    /\ prog' = [prog EXCEPT ![t] = NoProgram]
    /\ UNCHANGED <<row, share>>

\* The end of a transaction releases its rows and drops what it kept apart.
Release(t) ==
    /\ row' = [w \in Wallets |-> IF row[w] = t THEN NoTx ELSE row[w]]
    /\ share' = [w \in Wallets |-> share[w] \ {t}]
    /\ pc' = [pc EXCEPT ![t] = "idle"]
    /\ todo' = [todo EXCEPT ![t] = <<>>]
    /\ toLock' = [toLock EXCEPT ![t] = {}]
    /\ delta' = [delta EXCEPT ![t] = NoChange]
    /\ mine' = [mine EXCEPT ![t] = {}]
    /\ held' = [held EXCEPT ![t] = {}]
    /\ prog' = [prog EXCEPT ![t] = NoProgram]

\* Slip: an error commits what came before it.
CommitSoFar(t) == Release(t) /\ led' = View(t)

Rollback(t) == Release(t) /\ UNCHANGED led

Proceed(t, next) ==
    /\ pc' = [pc EXCEPT ![t] = next]
    /\ UNCHANGED <<led, row, share, prog, todo, toLock, delta, mine, held>>

\* SELECT reorg_hold_at ...
CheckHold(t) ==
    /\ pc[t] = "hold"
    /\ IF HoldPermits(View(t), Current(t))
       THEN Proceed(t, IF Current(t).amount < 0 THEN "balance" ELSE "insert")
       ELSE Rollback(t)

\* get_wallet_balance, for a debit; reconcile_deposit puts the wallet on hold
\* where another operation gives up.
CheckBalance(t) ==
    /\ pc[t] = "balance"
    /\ IF Covers(View(t), Current(t))
       THEN Proceed(t, "insert")
       ELSE IF prog[t].orphans
            THEN /\ held' = [held EXCEPT ![t] = @ \cup {CurrentWallet(t)}]
                 /\ pc' = [pc EXCEPT ![t] = "commit"]
                 /\ UNCHANGED <<led, row, share, prog, todo, toLock, delta, mine>>
            ELSE Rollback(t)

\* INSERT INTO ledger_entries: refused by the unique index, or kept waiting by
\* an uncommitted row of another transaction with the same key.
Insert(t) ==
    /\ pc[t] = "insert"
    /\ \A u \in Txs \ {t} : KeysOf(Current(t)) \cap mine[u] = {}
    /\ IF Fresh(View(t), Current(t))
       THEN /\ delta' = [delta EXCEPT ![t][CurrentWallet(t)] = @ + Current(t).amount]
            /\ mine' = [mine EXCEPT ![t] = @ \cup KeysOf(Current(t))]
            /\ todo' = [todo EXCEPT ![t] = Tail(@)]
            /\ pc' = [pc EXCEPT ![t] = IF Tail(todo[t]) = <<>> THEN "commit" ELSE "lock_wallet"]
            /\ UNCHANGED <<led, row, share, prog, toLock, held>>
       ELSE Rollback(t)

\* tx.commit(): the rows of t become everybody's.
Commit(t) ==
    /\ pc[t] = "commit"
    /\ led' = View(t)
    /\ Release(t)

\* The connection is lost, the process dies, another statement of the
\* operation fails.
Abort(t) == pc[t] # "idle" /\ Rollback(t)

\* Postgres resolves a deadlock by aborting a transaction of the cycle, which
\* is a knot no part of which is a knot.
DeadlockAbort(t) ==
    /\ \E C \in SUBSET Txs : /\ t \in C /\ Knot(C)
                             /\ \A D \in SUBSET C : Knot(D) => D = C
    /\ Rollback(t)

Step(t) ==
    \/ InsertReference(t) \/ LockNext(t) \/ LockRow(t) \/ CheckHold(t) \/ CheckBalance(t)
    \/ Insert(t) \/ Commit(t) \/ DeadlockAbort(t)

Next == \E t \in Txs : Begin(t) \/ Step(t) \/ Abort(t)

Spec == Init /\ [][Next]_vars

(***************************************************************************)
(* A connection goes on with its transaction whenever it is not blocked,   *)
(* and a row that keeps becoming free is granted to whoever waits for it:  *)
(* Postgres queues the waiters of a row.  Operations start, and            *)
(* connections break, when they do.                                        *)
(***************************************************************************)
Fairness == \A t \in Txs : SF_vars(Step(t))

FairSpec == Spec /\ Fairness

-----------------------------------------------------------------------------

\* Every variable has its type.
TypeOK ==
    /\ led \in Ledgers
    /\ row \in [Wallets -> Txs \cup {NoTx}]
    /\ share \in [Wallets -> SUBSET Txs]
    /\ pc \in [Txs -> PCs]
    /\ prog \in [Txs -> Programs \cup {NoProgram}]
    /\ todo \in [Txs -> Seq(Entries)]
    /\ toLock \in [Txs -> SUBSET Wallets]
    /\ delta \in [Txs -> [Wallets -> Int]]
    /\ mine \in [Txs -> SUBSET Keys]
    /\ held \in [Txs -> SUBSET Wallets]

(***************************************************************************)
(* No interleaving of checked debits overdraws a wallet: neither the       *)
(* committed balance nor the one any open transaction would commit is      *)
(* negative (the check of apply_ledger_entry is made under the row lock).  *)
(***************************************************************************)
NeverOverdrawn ==
    \A w \in Wallets : /\ led.balance[w] >= 0
                       /\ \A t \in Txs : View(t).balance[w] >= 0

\* Only the holder of a wallet's row has uncommitted changes to it.
ChangesUnderLock ==
    \A t \in Txs, w \in Wallets :
        \/ row[w] = t
        \/ delta[t][w] = 0 /\ w \notin held[t] /\ \A k \in mine[t] : k[1] # w

\* The statements after the lock find the entry and its row as they left them.
InOrder(t) ==
    /\ pc[t] \notin {"idle", "commit"} => todo[t] # <<>>
    /\ pc[t] = "reference" => toLock[t] = prog[t].locks
    /\ pc[t] = "lock_wallets" => toLock[t] # {}
    /\ pc[t] \in {"hold", "balance", "insert"} => row[CurrentWallet(t)] = t
    /\ pc[t] = "insert" => Covers(View(t), Current(t))

StatementsInOrder == \A t \in Txs : InOrder(t)

\* The inductive strengthening of NeverOverdrawn.
Inv == TypeOK /\ ChangesUnderLock /\ StatementsInOrder /\ NeverOverdrawn

\* The operation takes a deposit back.
Reverses(p) == \E i \in 1..Len(p.entries) : p.entries[i].type = "DEPOSIT_REVERSAL"

(***************************************************************************)
(* A wallet on hold only ever loses a reversed deposit: no transaction     *)
(* that read reorg_hold_at before the hold was committed slips an entry in *)
(* behind it.                                                              *)
(***************************************************************************)
HeldWalletsFrozen ==
    [][\A w \in led.hold : led'.balance[w] # led.balance[w] =>
           \E t \in Txs : pc[t] = "commit" /\ Reverses(prog[t])]_vars

\* What freezes them: the row lock keeps the hold as the check found it until
\* the end of the transaction.
HoldProgress(t) ==
    /\ \A i \in 1..Len(todo[t]) : todo[t][i].type = "DEPOSIT_REVERSAL" => Reverses(prog[t])
    /\ pc[t] \in {"balance", "insert"} /\ CurrentWallet(t) \in led.hold => Reverses(prog[t])
    /\ \A w \in led.hold : delta[t][w] # 0 => Reverses(prog[t])

HoldInv == \A t \in Txs : HoldProgress(t)

(***************************************************************************)
(* Operations on the same wallets wait for each other in a line, never in  *)
(* a circle (docs/architecture/ledger.md and the comment of lock_wallets). *)
(***************************************************************************)
DeadlockFree == \A C \in SUBSET Txs : ~ Knot(C)

\* The operation locks every wallet it touches before it does anything else.
Ordered(p) ==
    /\ p.refers = {}
    /\ \/ Entered(p) \subseteq p.locks
       \/ \A v, w \in Entered(p) \cup p.locks : v = w

(***************************************************************************)
(* Sorting the wallets in lock_wallets is what rules the circles out: an   *)
(* operation that locks all its wallets there, or touches one wallet only  *)
(* and locks it first, is never asking for a row while it holds one above  *)
(* it.                                                                     *)
(***************************************************************************)
AscendingLocks ==
    \A t \in Txs : Locking(t) /\ Ordered(prog[t]) /\ row[Wanted(t)] # t =>
        \A w \in Wallets : Holds(t, w) => Rank[w] < Rank[Wanted(t)]

\* What makes them ascend: a transaction holds what lock_wallets is done with
\* and rows of its entries, and nothing of higher rank than it has yet to lock.
LockProgress(t) ==
    /\ pc[t] = "idle" => prog[t] = NoProgram
    /\ \A w \in Wallets : t \in share[w] => w \in prog[t].refers
    /\ \A w \in Wallets : row[w] = t => w \in (prog[t].locks \ toLock[t]) \cup Entered(prog[t])
    /\ \A w \in prog[t].locks \ toLock[t] : row[w] = t
    /\ toLock[t] \subseteq prog[t].locks
    /\ pc[t] \notin {"reference", "lock_wallets"} => toLock[t] = {}
    /\ pc[t] = "reference" => prog[t].refers # {}
    /\ pc[t] \in {"reference", "lock_wallets"} =>
         \A w \in Wallets, v \in toLock[t] : row[w] = t => Rank[w] < Rank[v]
    /\ \A i \in 1..Len(todo[t]) : todo[t][i].wallet \in Entered(prog[t])

\* FOR UPDATE excludes every other lock on the row.
LocksExclude == \A w \in Wallets : row[w] \in Txs => share[w] \subseteq {row[w]}

OrderInv == LocksExclude /\ \A t \in Txs : LockProgress(t)

(***************************************************************************)
(* Hence every deadlock has a transaction in it that does not follow the   *)
(* protocol.                                                               *)
(***************************************************************************)
DeadlocksAreUnordered ==
    \A C \in SUBSET Txs : Knot(C) => \E t \in C : ~ Ordered(prog[t])

(***************************************************************************)
(* Every transaction ends, whoever else competes for its rows.             *)
(***************************************************************************)
EveryTxEnds == \A t \in Txs : pc[t] # "idle" ~> pc[t] = "idle"

\* The entries t has inserted.
Applied(t) == SubSeq(prog[t].entries, 1, Len(prog[t].entries) - Len(todo[t]))

\* What t keeps apart is what posting these entries to the committed ledger of
\* this moment gives, whatever the others have committed since t began; and the
\* hold it puts on a wallet stands for the reversal it cannot post.
Replays(t) ==
    /\ prog[t] \in Programs
    /\ Applied(t) \o todo[t] = prog[t].entries
    /\ \A i \in 1..Len(Applied(t)) : row[Applied(t)[i].wallet] = t
    /\ PostAll(led, Applied(t)) = [ok |-> TRUE, ledger |-> [View(t) EXCEPT !.hold = led.hold]]
    /\ pc[t] \in {"balance", "insert"} => HoldPermits(led, Current(t))
    /\ IF pc[t] = "commit" /\ todo[t] # <<>>
       THEN /\ prog[t].orphans
            /\ held[t] = {CurrentWallet(t)} /\ row[CurrentWallet(t)] = t
            /\ ~ Covers(led, Current(t))
       ELSE held[t] = {}

\* The inductive invariant of the refinement below.
ReplayInv == \A t \in Txs : pc[t] # "idle" => Replays(t)

Promise == INSTANCE LedgerPromise

(***************************************************************************)
(* Statement by statement, with rollbacks, deadlocks and lost connections, *)
(* the committed ledger behaves as one transaction at a time, each posting *)
(* all of its entries or none.                                             *)
(***************************************************************************)
ImplementsPromise == Promise!Spec
=============================================================================
